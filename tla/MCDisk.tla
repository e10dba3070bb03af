------------------------------- MODULE MCDisk -------------------------------
(* Registers of four values, a nibble of two: the second sector of a read    *)
(* at 127 carries through every register past the last sector that can be    *)
(* addressed; 2 is where ext2's superblock is.  A text memory of four rows   *)
(* of which two are saved; the pointer's words reach over the end of every   *)
(* row.                                                                      *)
EXTENDS Disk

MCLbas == {2, 127}
MCMoves == {<<1, -2>>, <<-3, 1>>}
=============================================================================
