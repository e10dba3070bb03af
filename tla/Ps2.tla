-------------------------------- MODULE Ps2 --------------------------------
(***************************************************************************)
(* The keyboard and the mouse behind the 8042 controller, as               *)
(* src/kernel/main.cc uses it: install_mouse programs the controller and   *)
(* the mouse by polling, with interrupts already enabled and no routine    *)
(* installed; install_ints then installs keyb and mouse, each of which     *)
(* reads one byte per interrupt.  Keyboard adds what keyb does with it.    *)
(*                                                                         *)
(* Bytes from the keyboard, from the mouse and from the controller itself  *)
(* all come through one output buffer, port 0x60; its interrupt lines are  *)
(* edge triggered, so a byte nobody reads keeps every later one back.      *)
(* The controller and the devices act on their own between any two steps   *)
(* of the kernel; the CPU takes a pending interrupt before its next        *)
(* instruction.  What the bytes are worth is left out: a byte is known by  *)
(* where it comes from and, in a mouse packet, by its place.               *)
(***************************************************************************)
EXTENDS Integers, Sequences

CONSTANTS
    Boots,          \* "quiet": keyboard and mouse are left alone during the boot; "noisy"
    MaxTyped,        \* bound on the keys that are pressed
    MaxPackets      \* bound on the packets the mouse sends

ASSUME Ps2Assumption == {MaxTyped, MaxPackets} \subseteq Nat

VARIABLES
    boot,           \* which boot this one is
    main,           \* the next port access of install_mouse, or install_ints
    status,         \* install_mouse's _status: the bits of the mode byte
    acks,           \* history: what mouse_read returned for the two commands
    routines,       \* the lines with a routine: 1 and 12
    running,        \* the routine that runs: 0, 1 or 12
    mouse_cycle, mouse_byte,
    buttons,        \* the byte curr_button_state was taken from
    packet,         \* the three bytes mouse_x and mouse_y were last moved by
    obf,            \* the output buffer: a byte or NoByte
    stale,          \* what port 0x60 reads as when the buffer is empty
    ibf,            \* the input buffer: what was written last, or "none"
    expect,         \* where the controller puts the next data byte
    mode,           \* the mode byte: 0 keyboard interrupt, 1 mouse interrupt
    ctlq, kbdq, auxq, \* bytes on their way into the output buffer
    irr,            \* the interrupt requests latched by the 8259s
    streaming, keys, packets

kernel == <<main, status, acks, routines, running>>
mouseVars == <<mouse_cycle, mouse_byte, buttons, packet>>
i8042 == <<obf, stale, ibf, expect, mode, ctlq>>
devices == <<kbdq, auxq, streaming, keys, packets, boot>>
ps2Vars == <<kernel, mouseVars, i8042, devices, irr>>

(***************************************************************************)
(* Bytes and lines.                                                        *)
(***************************************************************************)
Byte(what, n, i) == [what |-> what, n |-> n, i |-> i]
NoByte == Byte("none", 0, 0)
Ack == Byte("ack", 0, 0)
Mode == Byte("mode", 0, 0)
Key(n) == Byte("key", n, 0)
Data(n, i) == Byte("data", n, i)

FromMouse(b) == b.what \in {"ack", "data"}
KbdLine(b, m) == b # NoByte /\ ~FromMouse(b) /\ 0 \in m
AuxLine(b, m) == FromMouse(b) /\ 1 \in m

\* The 8259s latch a line that goes up.
Latch ==
    irr' = irr \union {n \in {1} : ~KbdLine(obf, mode) /\ KbdLine(obf', mode')}
               \union {n \in {12} : ~AuxLine(obf, mode) /\ AuxLine(obf', mode')}

InBuffer == IF obf = NoByte THEN stale ELSE obf
\* inb(0x60)
TakeByte == obf' = NoByte /\ stale' = InBuffer

(***************************************************************************)
(* mouse_wait: it returns when the controller is ready.  100000 polls run  *)
(* out only when nothing is on its way to the output buffer; the controller*)
(* takes what is written to it in less.                                    *)
(***************************************************************************)
NothingComing == ibf = "none" /\ ctlq = <<>> /\ kbdq = <<>> /\ auxq = <<>>
CanWrite == ibf = "none"
\* Mutant: the wait in mouse_read is missing.
CanRead_NoWait == TRUE
CanRead == obf # NoByte \/ NothingComing

(***************************************************************************)
(* install_mouse and install_ints.  The CPU executes them while no routine *)
(* runs and no interrupt is pending.                                       *)
(***************************************************************************)
AtMain(place) == main = place /\ running = 0 /\ irr = {}

Outport(place, byte, next) ==
    /\ AtMain(place)
    /\ CanWrite
    /\ ibf' = byte
    /\ main' = next
    /\ UNCHANGED <<status, acks, routines, running, mouseVars>>
    /\ UNCHANGED <<obf, stale, expect, mode, ctlq, devices, irr>>

\* _status = inb(0x60) | 2: a byte that is not the mode byte has any bits.
ReadMode ==
    /\ AtMain("read_mode")
    /\ CanRead
    /\ TakeByte
    /\ \/ InBuffer = Mode /\ status' = mode \union {1}
       \/ InBuffer # Mode /\ \E bits \in SUBSET {0} : status' = bits \union {1}
    /\ main' = "cmd_60"
    /\ UNCHANGED <<acks, routines, running, mouseVars, ibf, expect, mode, ctlq, devices, irr>>

ReadAck(place, next) ==
    /\ AtMain(place)
    /\ CanRead
    /\ TakeByte
    /\ acks' = Append(acks, InBuffer)
    /\ main' = next
    /\ UNCHANGED <<status, routines, running, mouseVars, ibf, expect, mode, ctlq, devices, irr>>

InstallMouse ==
    \/ Outport("cmd_A8", "A8", "cmd_20")
    \/ Outport("cmd_20", "20", "read_mode")
    \/ ReadMode
    \/ Outport("cmd_60", "60", "mode")
    \/ Outport("mode", "mode", "D4_F6")
    \/ Outport("D4_F6", "D4", "F6")
    \/ Outport("F6", "F6", "ack_F6")
    \/ ReadAck("ack_F6", "D4_F4")
    \/ Outport("D4_F4", "D4", "F4")
    \/ Outport("F4", "F4", "ack_F4")
    \/ ReadAck("ack_F4", "install_1")

\* Mutant: the mouse's routine goes to the other mouse line.
Install_Wrong(place, n, next) ==
    /\ AtMain(place)
    /\ routines' = routines \union {IF n = 12 THEN 11 ELSE n}
    /\ main' = next
    /\ UNCHANGED <<status, acks, running, mouseVars, i8042, devices, irr>>
Install(place, n, next) ==
    /\ AtMain(place)
    /\ routines' = routines \union {n}
    /\ main' = next
    /\ UNCHANGED <<status, acks, running, mouseVars, i8042, devices, irr>>

InstallInts == Install("install_1", 1, "install_12") \/ Install("install_12", 12, "done")

(***************************************************************************)
(* Interrupts, keyb and mouse.  A line without a routine is acknowledged   *)
(* and nothing else.                                                       *)
(***************************************************************************)
\* Mutant: irq_handler jumps to a routine that is not there.
Interrupt_NoTest(n) ==
    /\ running = 0
    /\ n \in irr
    /\ irr' = irr \ {n}
    /\ running' = IF n \in routines THEN n ELSE -1
    /\ UNCHANGED <<main, status, acks, routines, mouseVars, i8042, devices>>
Interrupt(n) ==
    /\ running = 0
    /\ n \in irr
    /\ irr' = irr \ {n}
    /\ running' = IF n \in routines THEN n ELSE 0
    /\ UNCHANGED <<main, status, acks, routines, mouseVars, i8042, devices>>

KeybByte ==
    /\ running = 1
    /\ TakeByte
    /\ Latch
    /\ running' = 0
    /\ UNCHANGED <<main, status, acks, routines, mouseVars, ibf, expect, mode, ctlq, devices>>

\* Mutant: the third byte starts a new packet too late.
NextCycle_Late(c) == IF c = 2 THEN 1 ELSE c + 1
NextCycle(c) == IF c = 2 THEN 0 ELSE c + 1

Mouse ==
    /\ running = 12
    /\ CanRead
    /\ TakeByte
    /\ mouse_byte' = [mouse_byte EXCEPT ![mouse_cycle] = InBuffer]
    /\ buttons' = IF mouse_cycle = 0 THEN InBuffer ELSE buttons
    /\ packet' = IF mouse_cycle = 2 THEN mouse_byte' ELSE packet
    /\ mouse_cycle' = NextCycle(mouse_cycle)
    /\ Latch
    /\ running' = 0
    /\ UNCHANGED <<main, status, acks, routines, ibf, expect, mode, ctlq, devices>>

(***************************************************************************)
(* The controller.                                                         *)
(***************************************************************************)
\* It takes what was written: a command, or a byte for where expect says.
Consume ==
    /\ ibf # "none"
    /\ ibf' = "none"
    /\ ctlq' = IF ibf = "20" THEN Append(ctlq, Mode) ELSE ctlq
    /\ expect' = CASE ibf = "60" -> "controller" [] ibf = "D4" -> "mouse" [] OTHER -> "keyboard"
    /\ mode' = IF ibf = "mode" /\ expect = "controller" THEN status ELSE mode
    /\ IF ibf \in {"F6", "F4"} /\ expect = "mouse"
       THEN auxq' = Append(auxq, Ack) /\ streaming' = (streaming \/ ibf = "F4")
       ELSE UNCHANGED <<auxq, streaming>>
    /\ obf' = obf
    /\ Latch
    /\ UNCHANGED <<kernel, mouseVars, stale, kbdq, keys, packets, boot>>

\* It fills the empty output buffer from one of its sources.
Offer(q) == obf = NoByte /\ q # <<>> /\ obf' = Head(q)
LoadCtl ==
    /\ Offer(ctlq)
    /\ ctlq' = Tail(ctlq)
    /\ mode' = mode
    /\ Latch
    /\ UNCHANGED <<kernel, mouseVars, stale, ibf, expect, devices>>
LoadKbd ==
    /\ Offer(kbdq)
    /\ kbdq' = Tail(kbdq)
    /\ mode' = mode
    /\ Latch
    /\ UNCHANGED <<kernel, mouseVars, stale, ibf, expect, ctlq, auxq, streaming, keys, packets, boot>>
LoadAux ==
    /\ Offer(auxq)
    /\ auxq' = Tail(auxq)
    /\ mode' = mode
    /\ Latch
    /\ UNCHANGED <<kernel, mouseVars, stale, ibf, expect, ctlq, kbdq, streaming, keys, packets, boot>>

(***************************************************************************)
(* The user.                                                               *)
(***************************************************************************)
HandsOff == boot = "quiet" /\ main # "done"

PressKey ==
    /\ ~HandsOff
    /\ keys < MaxTyped
    /\ keys' = keys + 1
    /\ kbdq' = Append(kbdq, Key(keys'))
    /\ UNCHANGED <<kernel, mouseVars, i8042, auxq, streaming, packets, boot, irr>>

MoveMouse ==
    /\ ~HandsOff
    /\ streaming
    /\ packets < MaxPackets
    /\ packets' = packets + 1
    /\ auxq' = auxq \o <<Data(packets', 0), Data(packets', 1), Data(packets', 2)>>
    /\ UNCHANGED <<kernel, mouseVars, i8042, kbdq, streaming, keys, boot, irr>>

Ps2Init ==
    /\ boot \in Boots
    /\ main = "cmd_A8"
    /\ status = {}
    /\ acks = <<>>
    /\ routines = {}
    /\ running = 0
    /\ mouse_cycle = 0
    /\ mouse_byte = [i \in 0 .. 2 |-> NoByte]
    /\ buttons = NoByte
    /\ packet = [i \in 0 .. 2 |-> NoByte]
    /\ obf = NoByte /\ stale = NoByte
    /\ ibf = "none" /\ expect = "keyboard"
    /\ mode = {0}
    /\ ctlq = <<>> /\ kbdq = <<>> /\ auxq = <<>>
    /\ irr = {}
    /\ streaming = FALSE /\ keys = 0 /\ packets = 0

Kernel ==
    \/ InstallMouse
    \/ InstallInts
    \/ \E n \in {1, 12} : Interrupt(n)
    \/ KeybByte
    \/ Mouse

Controller == Consume \/ LoadCtl \/ LoadKbd \/ LoadAux

Ps2Next == Kernel \/ Controller \/ PressKey \/ MoveMouse


(***************************************************************************)
(* Types.                                                                  *)
(***************************************************************************)
Bytes == {NoByte, Ack, Mode} \union {Key(n) : n \in 1 .. MaxTyped}
            \union {Data(n, i) : n \in 1 .. MaxPackets, i \in 0 .. 2}

Ps2TypeOK ==
    /\ boot \in Boots
    /\ main \in {"cmd_A8", "cmd_20", "read_mode", "cmd_60", "mode", "D4_F6", "F6", "ack_F6",
                 "D4_F4", "F4", "ack_F4", "install_1", "install_12", "done"}
    /\ status \subseteq {0, 1} /\ mode \subseteq {0, 1}
    /\ acks \in Seq(Bytes) /\ Len(acks) <= 2
    /\ routines \subseteq {1, 12} /\ irr \subseteq {1, 12} /\ running \in {0, 1, 12}
    /\ mouse_cycle \in 0 .. 2
    /\ mouse_byte \in [0 .. 2 -> Bytes] /\ packet \in [0 .. 2 -> Bytes]
    /\ {buttons, obf, stale} \subseteq Bytes
    /\ ibf \in {"none", "A8", "20", "60", "mode", "D4", "F6", "F4"}
    /\ expect \in {"keyboard", "controller", "mouse"}

(***************************************************************************)
(* Safety, of a quiet boot.  In a noisy one install_mouse reads whatever   *)
(* byte came first, for the mode byte and for an acknowledgement.          *)
(***************************************************************************)
\* keyb reads only keys, and mouse only bytes of packets, each at its place in
\* the packet mouse_cycle says; the pointer moves by, and the buttons are those
\* of, one packet the mouse sent, not the end of one and the beginning of the
\* next; and install_mouse adds the mouse's interrupt to the controller's mode
\* byte and changes no other bit of it (main.cc:61-64,118-169,274-281).
WholePacket ==
    /\ Ps2TypeOK
    /\ boot = "quiet" =>
        /\ running = 1 => obf.what = "key"
        /\ running = 12 => obf.what = "data" /\ obf.i = mouse_cycle
        /\ \A i \in 0 .. 2 : packet[i] # NoByte => packet[i] = Data(packet[0].n, i)
        /\ mode \in {{0}, {0, 1}}
        /\ main = "done" => mode = {0, 1}

(***************************************************************************)
(* Liveness.                                                               *)
(***************************************************************************)
\* Every byte that reaches the output buffer is read, so that no key and no
\* movement waits for ever behind another (main.cc:61-64,118-147).
BytesAreRead == boot = "quiet" /\ obf # NoByte ~> obf = NoByte

\* The boot ends whatever the user does: no interrupt that finds no routine,
\* and no byte that is missing or not the one expected, holds install_mouse
\* up for good (main.cc:229-290, idt.cc:215-219).
BootEnds == <>(main = "done")
=============================================================================
