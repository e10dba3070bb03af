------------------------------- MODULE MCVga -------------------------------
(* Two texts of keyb, so that both halves of one write_regs, or two of its  *)
(* registers, are hit.                                                      *)
EXTENDS Vga
=============================================================================
