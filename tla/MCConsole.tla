----------------------------- MODULE MCConsole -----------------------------
(* Four rows of three: prompt and line take up to three rows, so that       *)
(* typing and erasing cross the edge and scroll.  Commands print nothing, a  *)
(* row, a full row without its end, one character, or clear the screen.      *)
EXTENDS Console

MCOutputs == {<<>>, <<"o", NL>>, <<"o", "o", "o">>, <<"o">>, CLEAR}
=============================================================================
