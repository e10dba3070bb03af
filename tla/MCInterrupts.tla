---------------------------- MODULE MCInterrupts ----------------------------
(* The timer, the keyboard, the mouse and the spurious line of the master,  *)
(* beside the clock; a breakpoint, a protection fault and an exception that *)
(* halts.                                                                   *)
EXTENDS Interrupts
=============================================================================
