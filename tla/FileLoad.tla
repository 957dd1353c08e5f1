------------------------------- MODULE FileLoad -------------------------------
(***************************************************************************)
(* What the search and load code of boot.asm and loader.asm promises: the  *)
(* sectors of the file are in memory in their order when it goes on, or it *)
(* says that there is no such file.                                        *)
(***************************************************************************)
EXTENDS Sequences

VARIABLES
  file,      \* the sectors of the file, <<>> if there is none
  status,    \* "loading", "done" or "missing"
  contents   \* what was loaded

vars == <<file, status, contents>>

Init == status = "loading" /\ contents = <<>>

Load ==
  /\ status = "loading" /\ file # <<>>
  /\ status' = "done" /\ contents' = file
  /\ UNCHANGED file

Miss ==
  /\ status = "loading" /\ file = <<>>
  /\ status' = "missing"
  /\ UNCHANGED <<file, contents>>

Next == Load \/ Miss

Spec == Init /\ [][Next]_vars /\ WF_vars(Next)
=============================================================================
