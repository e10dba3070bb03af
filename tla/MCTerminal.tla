----------------------------- MODULE MCTerminal -----------------------------
(* A screen of three rows of four characters: a routine's line ends within  *)
(* a row, fills one exactly, or runs over two; the pointer is in the first  *)
(* place and at the end of a row.  printf is called as in MCPrintf.         *)
EXTENDS Terminal, MCPrintf

MCPointer == {<<0, 0>>, <<3, 1>>}
=============================================================================
