------------------------------- MODULE MCTraps -------------------------------
(***************************************************************************)
(* Every vector, of 13 and 14 error codes in which each bit a handler      *)
(* looks at is set and clear; two keys.                                    *)
(***************************************************************************)
EXTENDS Traps

Errors(v) ==
  CASE v = 13 -> {0, 2, 4, 27}
    [] v \in SelectorFaults \ {13} -> {20}
    [] v = PageFault -> {0, 9, 22}
    [] OTHER -> {0}
MCCauses == UNION {[vector : {v}, error : Errors(v)] : v \in (0 .. 20) \ {15}}
=============================================================================
