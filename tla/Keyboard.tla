------------------------------ MODULE Keyboard ------------------------------
(***************************************************************************)
(* A key from the keyboard to the caller of keyb_read: the controller and  *)
(* the boot of Ps2, and the handshake of KeybRead, joined by the routine   *)
(* keyb, which takes the byte from port 0x60 and hands it over.  keyb_read *)
(* is called after the boot, from code the routines interrupt.             *)
(***************************************************************************)
EXTENDS KeybRead, Ps2

VARIABLE bytes      \* history: what keyb took from the port, in that order

keyboardVars == <<vars, ps2Vars, bytes>>

\* A step of Ps2; when it is the one of keyb, keyb stores the byte.
HardwareStep ==
    /\ Ps2Next
    /\ IF running = 1 /\ running' = 0
       THEN Keyb /\ bytes' = Append(bytes, InBuffer)
       ELSE UNCHANGED <<vars, bytes>>

\* The caller runs when no routine does.
CallerStep ==
    /\ AtMain("done")
    /\ Reader
    /\ UNCHANGED <<ps2Vars, bytes>>

KeyboardInit == Init /\ Ps2Init /\ bytes = <<>>

KeyboardNext == HardwareStep \/ CallerStep

\* The CPU runs and the controller does its work; the user need not type, and
\* nobody has to call keyb_read.
KeyboardSpec ==
    /\ KeyboardInit /\ [][KeyboardNext]_keyboardVars
    /\ WF_ps2Vars(HardwareStep /\ Kernel) /\ WF_ps2Vars(HardwareStep /\ Controller)
    /\ WF_vars(CallerStep /\ pc # "idle")

(***************************************************************************)
(* Properties.                                                             *)
(***************************************************************************)
\* In a quiet boot the caller gets the keys that were typed: the n-th byte keyb
\* takes is the n-th key, and the one keyb_out holds is the one keyb took last
\* while keyb_read was waiting (main.cc:49-71,260-264).
KeysAreTyped ==
    boot = "quiet" =>
        /\ Len(bytes) = pressed
        /\ \A n \in 1 .. pressed : bytes[n] = Key(n)
        /\ pressed <= keys

\* A key that is typed while keyb_read waits, or was on its way when it began
\* to, ends the wait: it gets through the controller, past any movement of the
\* mouse, and raises the flag (main.cc:49-71,123-181).
TypedKeyEndsTheWait ==
    boot = "quiet" /\ pc = "wait" /\ pressed < keys ~> pc = "idle"
=============================================================================
