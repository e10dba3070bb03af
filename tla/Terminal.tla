------------------------------ MODULE Terminal ------------------------------
(***************************************************************************)
(* What puts text on the screen: a call of printf, which hands its         *)
(* characters to terminal_putchar, and the terminal, to which kernel and   *)
(* routines hand any.  printf keeps nothing from one call to the next and  *)
(* does not see the terminal's position, so each is taken by itself.       *)
(***************************************************************************)
EXTENDS Tty, Printf

VARIABLE part       \* the one that runs

terminalVars == <<vars, printfVars, part>>

TerminalInit == part \in {"tty", "printf"} /\ Init /\ PrintfInit

PutCharacters == part = "tty" /\ Next /\ UNCHANGED <<printfVars, part>>
CallPrintf == part = "printf" /\ PrintfNext /\ UNCHANGED <<vars, part>>

TerminalNext == PutCharacters \/ CallPrintf
TerminalSpec == TerminalInit /\ [][TerminalNext]_terminalVars
=============================================================================
