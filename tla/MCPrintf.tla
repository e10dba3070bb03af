------------------------------ MODULE MCPrintf ------------------------------
(* Ints of 8 bits, both ends included: three decimal digits, two of base 16. *)
EXTENDS Printf

MCInts == {-128, -7, 0, 10, 127}
MCWidths == {<<"2">>, <<" ", "+", "0", "4">>}
MCTexts == {<<"h", "i">>, <<"!">>}
=============================================================================
