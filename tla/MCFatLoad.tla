------------------------------ MODULE MCFatLoad ------------------------------
(***************************************************************************)
(* FAT entries of three bits, so eight clusters, of which the disk has 2 to *)
(* 5; a sector holds two bytes of the table or two directory entries.      *)
(***************************************************************************)
EXTENDS FatLoad

Other == [name |-> "OTHER", cluster |-> 2]

\* The file in any place of the directory, there twice, or not at all.
Directories ==
  {[k \in 1 .. 6 |-> IF k = p THEN [name |-> Name, cluster |-> c] ELSE Other] :
     p \in {1, 4, 6, 7}, c \in {0, 2, 5}} \cup
  {[k \in 1 .. 6 |-> IF k \in {2, 3} THEN [name |-> Name, cluster |-> k + 1] ELSE Other]}

\* Entry 0 is the medium's mark, which no disk has as a cluster.
Tables == {f \in [0 .. 7 -> {0, 2, 3, 4, 5, 6, 7}] :
             f[0] = 6 /\ f[1] = 7 /\ f[6] = 0 /\ f[7] = 0}

AnyVolume == [root : Directories, fat : Tables]
=============================================================================
