------------------------------ MODULE KeybRead ------------------------------
(***************************************************************************)
(* The handshake of src/kernel/main.cc between keyb_read, which waits for  *)
(* a key, and keyb, the routine of the keyboard's interrupt.  They share   *)
(* keyb_reading, keyb_received and keyb_out.  keyb runs with interrupts    *)
(* off and so in one step; it can come between any two statements of       *)
(* keyb_read, which each are one store or one load.                        *)
(*                                                                         *)
(* Keys are numbered in the order the keyboard sends them.                 *)
(***************************************************************************)
EXTENDS Integers

CONSTANT MaxKeys        \* bound on the keys that are pressed

ASSUME KeybAssumption == MaxKeys \in Nat

VARIABLES
    keyb_reading, keyb_received, keyb_out,
    pc,         \* where the caller is: "idle" or in keyb_read
    pressed,    \* how many keys have arrived
    before,     \* history: pressed, when the call of keyb_read began
    last,       \* history: the last key that arrived while keyb_reading
    got         \* history: what the last call returned, 0 before

shared == <<keyb_reading, keyb_received, keyb_out>>
vars == <<shared, pc, pressed, before, last, got>>

Init ==
    /\ keyb_reading = FALSE
    /\ keyb_received = FALSE
    /\ keyb_out = 0
    /\ pc = "idle"
    /\ pressed = 0
    /\ before = 0
    /\ last = 0
    /\ got = 0

(***************************************************************************)
(* keyb_read.                                                              *)
(***************************************************************************)
\* The call, and keyb_reading = true.
StartReading ==
    /\ pc = "idle"
    /\ keyb_reading' = TRUE
    /\ before' = pressed
    /\ pc' = "wait"
    /\ UNCHANGED <<keyb_received, keyb_out, pressed, last, got>>

\* Mutant: keyb_received is read once, as a compiler may do with a variable
\* that is not volatile, when no key of this call can have arrived.
SeeReceived_ReadOnce ==
    /\ pc = "wait"
    /\ keyb_received /\ before = pressed
    /\ pc' = "stop"
    /\ UNCHANGED <<shared, pressed, before, last, got>>
\* while (!keyb_received);
SeeReceived ==
    /\ pc = "wait"
    /\ keyb_received
    /\ pc' = "stop"
    /\ UNCHANGED <<shared, pressed, before, last, got>>

\* Mutant: the two flags are reset in the other order.
StopReading_ReceivedFirst ==
    /\ pc = "stop"
    /\ keyb_received' = FALSE
    /\ pc' = "reset"
    /\ UNCHANGED <<keyb_reading, keyb_out, pressed, before, last, got>>
StopReading ==
    /\ pc = "stop"
    /\ keyb_reading' = FALSE
    /\ pc' = "reset"
    /\ UNCHANGED <<keyb_received, keyb_out, pressed, before, last, got>>

ResetReceived ==
    /\ pc = "reset"
    /\ keyb_received' = FALSE
    /\ pc' = "return"
    /\ UNCHANGED <<keyb_reading, keyb_out, pressed, before, last, got>>

ReturnKey ==
    /\ pc = "return"
    /\ got' = keyb_out
    /\ pc' = "idle"
    /\ UNCHANGED <<shared, pressed, before, last>>

Reader == StartReading \/ SeeReceived \/ StopReading \/ ResetReceived \/ ReturnKey

(***************************************************************************)
(* keyb.                                                                   *)
(***************************************************************************)
\* Mutant: a key that has not been picked up is kept, and a newer one dropped.
Keyb_KeepsOldest ==
    /\ pressed < MaxKeys
    /\ pressed' = pressed + 1
    /\ keyb_received' = (keyb_received \/ keyb_reading)
    /\ keyb_out' = IF keyb_reading /\ ~keyb_received THEN pressed' ELSE keyb_out
    /\ last' = IF keyb_reading THEN pressed' ELSE last
    /\ UNCHANGED <<keyb_reading, pc, before, got>>
\* A key arrives; a routine that finds nobody reading drops it.
Keyb ==
    /\ pressed < MaxKeys
    /\ pressed' = pressed + 1
    /\ IF keyb_reading
       THEN /\ keyb_received' = TRUE
            /\ keyb_out' = pressed'
            /\ last' = pressed'
       ELSE UNCHANGED <<keyb_received, keyb_out, last>>
    /\ UNCHANGED <<keyb_reading, pc, before, got>>

Next == Reader \/ Keyb

\* The kernel's code runs; nobody has to press a key, or to call keyb_read.
Spec == Init /\ [][Next]_vars /\ WF_vars(SeeReceived \/ StopReading \/ ResetReceived \/ ReturnKey)

(***************************************************************************)
(* Types.                                                                  *)
(***************************************************************************)
TypeOK ==
    /\ keyb_reading \in BOOLEAN /\ keyb_received \in BOOLEAN
    /\ keyb_out \in 0 .. MaxKeys
    /\ pc \in {"idle", "wait", "stop", "reset", "return"}
    /\ pressed \in 0 .. MaxKeys
    /\ before \in 0 .. MaxKeys
    /\ last \in 0 .. MaxKeys
    /\ got \in 0 .. MaxKeys

(***************************************************************************)
(* The inductive invariant: which flags are up at which statement, and     *)
(* what keyb_out holds there.                                              *)
(***************************************************************************)
Flags ==
    /\ keyb_reading <=> pc \in {"wait", "stop"}
    /\ pc \in {"idle", "return"} => ~keyb_received
    /\ pc \in {"stop", "reset"} => keyb_received

Keys ==
    /\ last <= pressed /\ before <= pressed
    /\ keyb_out = last
    /\ got <= last
    /\ pc # "idle" => got <= before
    /\ keyb_received \/ pc = "return" => keyb_out > before

IInv == TypeOK /\ Flags /\ Keys

(***************************************************************************)
(* Properties.                                                             *)
(***************************************************************************)
\* What keyb_read returns arrived during that call and was not returned by an
\* earlier one; of several keys during one call it is the last one before
\* keyb_reading went down (main.cc:43-71).
ReturnsLastKey ==
    [][pc = "return" /\ pc' = "idle" => got' = last /\ got' > before /\ got' > got]_vars
=============================================================================
