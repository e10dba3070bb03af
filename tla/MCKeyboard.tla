---------------------------- MODULE MCKeyboard ----------------------------
(* Keys and packets under way together, with several calls of keyb_read;    *)
(* MaxKeys is more than the bytes there can be.                             *)
EXTENDS Keyboard
=============================================================================
