------------------------------ MODULE MCConsole ------------------------------
(***************************************************************************)
(* A screen of 5 columns and 3 rows with tab stops every 2 columns, so     *)
(* that, as with 180 columns and 8, the last tab stop is short; as on the  *)
(* real screen some pixel lines are left over and about two screens more   *)
(* are mapped.  One session brings a line that fills up into the last row  *)
(* while keys come.                                                        *)
(***************************************************************************)
EXTENDS Console

\* What is printed with interrupts off, and the text with interrupts on.
Before == {<<"NL">>, <<"NL", "NL">>, <<"a", "TAB", "b", "TAB", "c", "NL">>,
           <<"a", "b", "c", "d", "e", "f", "NL">>, <<"a", "BS", "NL">>, <<"BS", "NL">>,
           <<"NL", "BS", "a", "NL">>, <<"NL", "NL", "a", "b", "c">>,
           <<"a", "b", "c", "d", "TAB">>, <<"a", "b", "c", "d", "e">>}
TaskInit == {<<"t", "u", "v", "NL">>}
MCSessions == {<<b, l>> : b \in Before, l \in TaskInit}
MCIrqTexts == <<<<"i", "j", "k", "l", "TAB">>, <<"m", "n", "o", "p", "q", "NL">>>>
=============================================================================
