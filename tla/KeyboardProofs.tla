--------------------------- MODULE KeyboardProofs ---------------------------
(***************************************************************************)
(* Proofs about Keyboard: for any number of keys and packets, the bytes    *)
(* that pass through the one output buffer keep their order and reach the  *)
(* routine they are for, so that packets are whole and the caller of       *)
(* keyb_read gets the keys that were typed.                                *)
(***************************************************************************)
EXTENDS Keyboard, TLAPS

(***************************************************************************)
(* keyb_read's two flags, for any number of keys (KeybRead).               *)
(***************************************************************************)
LEMMA IndInit == Init => IInv
<1> SUFFICES ASSUME Init PROVE IInv
  OBVIOUS
<1>1. TypeOK
  <2>1. keyb_reading \in BOOLEAN /\ keyb_received \in BOOLEAN
    BY DEF Init
  <2>2. 0 \in 0 .. MaxKeys
    BY KeybAssumption
  <2> QED
    BY <2>1, <2>2 DEF Init, TypeOK
<1>2. Flags
  BY DEF Init, Flags
<1>3. Keys
  BY DEF Init, Keys
<1> QED
  BY <1>1, <1>2, <1>3 DEF IInv

LEMMA IndNext == IInv /\ [Next]_vars => IInv'
<1> SUFFICES ASSUME IInv, [Next]_vars PROVE IInv'
  OBVIOUS
<1> USE KeybAssumption DEF IInv, TypeOK, Flags, Keys, shared
<1>1. CASE StartReading
  BY <1>1 DEF StartReading
<1>2. CASE SeeReceived
  BY <1>2 DEF SeeReceived
<1>3. CASE StopReading
  BY <1>3 DEF StopReading
<1>4. CASE ResetReceived
  BY <1>4 DEF ResetReceived
<1>5. CASE ReturnKey
  BY <1>5 DEF ReturnKey
<1>6. CASE Keyb
  <2>1. pressed' = pressed + 1 /\ pressed' \in 0 .. MaxKeys
    BY <1>6 DEF Keyb
  <2>2. CASE keyb_reading
    BY <1>6, <2>1, <2>2 DEF Keyb
  <2>3. CASE ~keyb_reading
    BY <1>6, <2>1, <2>3 DEF Keyb
  <2> QED
    BY <2>2, <2>3
<1>7. CASE UNCHANGED vars
  BY <1>7 DEF vars
<1> QED
  BY <1>1, <1>2, <1>3, <1>4, <1>5, <1>6, <1>7 DEF Next, Reader

\* Which flags are up at which statement, and what keyb_out holds there.
THEOREM KeybInvariant == Spec => []IInv
  BY IndInit, IndNext, PTL DEF Spec

LEMMA StepReturns ==
  ASSUME IInv, [Next]_vars, pc = "return", pc' = "idle"
  PROVE  got' = keyb_out /\ got' = last /\ got' > before /\ got' > got
<1>1. ReturnKey
  BY DEF Next, Reader, StartReading, SeeReceived, StopReading, ResetReceived, Keyb, vars
<1> QED
  BY <1>1 DEF ReturnKey, IInv, Keys, TypeOK

\* keyb_read returns a key of its own call, the last one of it, and never the
\* same key twice.
THEOREM AlwaysLast == Spec => ReturnsLastKey
<1>1. IInv /\ [Next]_vars => [pc = "return" /\ pc' = "idle" => got' = last /\ got' > before /\ got' > got]_vars
  BY StepReturns
<1> QED
  BY <1>1, KeybInvariant, PTL DEF Spec, ReturnsLastKey

(***************************************************************************)
(* The inductive invariant.  First what holds in every boot.               *)
(***************************************************************************)
AckCount ==
    IF main \in {"install_1", "install_12", "done"} THEN 2
    ELSE IF main \in {"D4_F4", "F4", "ack_F4"} THEN 1 ELSE 0

Types ==
    /\ Ps2TypeOK
    /\ ctlq \in Seq(Bytes) /\ kbdq \in Seq(Bytes) /\ auxq \in Seq(Bytes)
    /\ Len(acks) = AckCount
    /\ streaming \in BOOLEAN /\ keys \in 0 .. MaxTyped /\ packets \in 0 .. MaxPackets

(***************************************************************************)
(* A quiet boot: at each place of install_mouse, what has been written and *)
(* not been taken yet, and what the controller will answer.                *)
(***************************************************************************)
Still == obf = NoByte /\ ctlq = <<>> /\ auxq = <<>>
Written(cmd, then) == Still /\ (ibf = cmd \/ (ibf = "none" /\ expect = then))
Answered(cmd, b) ==
    \/ Still /\ ibf = cmd
    \/ /\ ibf = "none" /\ obf = NoByte
       /\ IF b = Mode THEN ctlq = <<b>> /\ auxq = <<>> ELSE ctlq = <<>> /\ auxq = <<b>>
    \/ ibf = "none" /\ obf = b /\ ctlq = <<>> /\ auxq = <<>>

Installing ==
    /\ main \in {"cmd_A8", "cmd_60", "D4_F4", "install_1", "install_12"} => Still /\ ibf = "none"
    /\ main = "cmd_20" => Still /\ ibf \in {"A8", "none"}
    /\ main = "read_mode" => Answered("20", Mode)
    /\ main = "mode" => Written("60", "controller")
    /\ main = "D4_F6" => Still /\ ibf \in {"mode", "none"} /\ (ibf = "mode" => expect = "controller")
    /\ main \in {"F6", "F4"} => Written("D4", "mouse")
    /\ main = "ack_F6" => Answered("F6", Ack) /\ (ibf = "F6" => expect = "mouse")
    /\ main = "ack_F4" => Answered("F4", Ack) /\ (ibf = "F4" => expect = "mouse")
    /\ main \in {"install_1", "install_12"} => irr = {}
    /\ main # "done"

Modes ==
    /\ main \in {"cmd_A8", "cmd_20", "read_mode", "cmd_60", "mode"} => mode = {0}
    /\ main \in {"cmd_60", "mode", "D4_F6"} => status = {0, 1}
    /\ main = "D4_F6" => mode = (IF ibf = "none" THEN {0, 1} ELSE {0})
    /\ main \notin {"cmd_A8", "cmd_20", "read_mode", "cmd_60", "mode", "D4_F6"} => mode = {0, 1}

Untouched ==
    /\ routines = IF main = "install_12" THEN {1} ELSE {}
    /\ running = 0 /\ keys = 0 /\ kbdq = <<>> /\ bytes = <<>> /\ pressed = 0
    /\ mouse_cycle = 0 /\ \A i \in 0 .. 2 : packet[i] = NoByte

Booting == Installing /\ Modes /\ Untouched

(***************************************************************************)
(* After it: who holds the byte in the buffer.                             *)
(***************************************************************************)
Served ==
    /\ mode = {0, 1} /\ routines = {1, 12}
    /\ ibf = "none" /\ ctlq = <<>>
    /\ obf.what \in {"none", "key", "data"}
    /\ running = 0 => irr = IF obf.what = "key" THEN {1} ELSE IF obf.what = "data" THEN {12} ELSE {}
    /\ running # 0 => irr = {}
    /\ running = 1 => obf.what = "key"
    /\ running = 12 => obf.what = "data"

(***************************************************************************)
(* The keys on their way, and the bytes of the packets.                    *)
(***************************************************************************)
OnTheWay == Len(bytes) + (IF obf.what = "key" THEN 1 ELSE 0)
KeysInOrder ==
    /\ \A k \in 1 .. Len(bytes) : bytes[k] = Key(k)
    /\ obf.what = "key" => obf = Key(Len(bytes) + 1)
    /\ \A k \in 1 .. Len(kbdq) : kbdq[k] = Key(OnTheWay + k)
    /\ keys = OnTheWay + Len(kbdq)
    /\ pressed = Len(bytes)

\* b follows a in the mouse's stream.
Follows(a, b) == IF a.i = 2 THEN b.i = 0 ELSE b = Data(a.n, a.i + 1)
\* b is what mouse, with mouse_cycle, reads next.
Expected(b) ==
    /\ b.i = mouse_cycle
    /\ mouse_cycle > 0 => b = Data(mouse_byte[0].n, mouse_cycle)

PacketsInOrder ==
    /\ \A k \in 1 .. Len(auxq) : auxq[k].what = "data"
    /\ \A k \in 1 .. Len(auxq) - 1 : Follows(auxq[k], auxq[k + 1])
    /\ obf.what = "data" => Expected(obf)
    /\ auxq # <<>> => /\ IF obf.what = "data" THEN Follows(obf, auxq[1]) ELSE Expected(auxq[1])
                      /\ auxq[Len(auxq)].i = 2
    /\ auxq = <<>> => IF obf.what = "data" THEN obf.i = 2 ELSE mouse_cycle = 0
    /\ \A i \in 0 .. mouse_cycle - 1 : mouse_byte[i] = Data(mouse_byte[0].n, i)
    /\ \A i \in 0 .. 2 : packet[i] # NoByte => packet[i] = Data(packet[0].n, i)

Serving == Served /\ KeysInOrder /\ PacketsInOrder

KeyboardIInv ==
    /\ Types /\ bytes \in Seq(Bytes)
    /\ boot = "quiet" => IF main = "done" THEN Serving ELSE Booting

(***************************************************************************)
(* Bytes and queues.                                                       *)
(***************************************************************************)
LEMMA ByteIs ==
  /\ NoByte.what = "none" /\ Ack.what = "ack" /\ Mode.what = "mode"
  /\ \A n : Key(n).what = "key" /\ Key(n).n = n
  /\ \A n, i : Data(n, i).what = "data" /\ Data(n, i).n = n /\ Data(n, i).i = i
  /\ NoByte \in Bytes /\ Ack \in Bytes /\ Mode \in Bytes
  /\ \A n \in 1 .. MaxTyped : Key(n) \in Bytes
  /\ \A n \in 1 .. MaxPackets, i \in 0 .. 2 : Data(n, i) \in Bytes
<1>1. NoByte.what = "none" /\ Ack.what = "ack" /\ Mode.what = "mode"
  BY DEF Byte, NoByte, Ack, Mode
<1>2. \A n : Key(n).what = "key" /\ Key(n).n = n
  BY DEF Byte, Key
<1>3. \A n, i : Data(n, i).what = "data" /\ Data(n, i).n = n /\ Data(n, i).i = i
  BY DEF Byte, Data
<1>4. NoByte \in Bytes /\ Ack \in Bytes /\ Mode \in Bytes
  BY DEF Bytes
<1>5. \A n \in 1 .. MaxTyped : Key(n) \in Bytes
  BY DEF Bytes
<1>6. \A n \in 1 .. MaxPackets, i \in 0 .. 2 : Data(n, i) \in Bytes
  BY DEF Bytes
<1> QED
  BY <1>1, <1>2, <1>3, <1>4, <1>5, <1>6

LEMMA IsByte ==
  ASSUME NEW b \in Bytes
  PROVE  /\ b.what \in {"none", "ack", "mode", "key", "data"}
         /\ b.what = "none" => b = NoByte
         /\ b.what = "data" => b = Data(b.n, b.i) /\ b.i \in 0 .. 2 /\ b.n \in 1 .. MaxPackets
BY DEF Bytes, Byte, NoByte, Ack, Mode, Key, Data

LEMMA Queue ==
  ASSUME NEW S, NEW q \in Seq(S)
  PROVE  /\ q # <<>> => /\ Head(q) \in S /\ Head(q) = q[1] /\ Len(q) \in Nat \ {0}
                        /\ Tail(q) \in Seq(S) /\ Len(Tail(q)) = Len(q) - 1
                        /\ \A k \in 1 .. Len(q) - 1 : Tail(q)[k] = q[k + 1]
         /\ \A b \in S : /\ Append(q, b) \in Seq(S) /\ Len(Append(q, b)) = Len(q) + 1
                          /\ Append(q, b)[Len(q) + 1] = b
                          /\ \A k \in 1 .. Len(q) : Append(q, b)[k] = q[k]
         /\ \A k \in 1 .. Len(q) : q[k] \in S
         /\ Len(q) \in Nat /\ (Len(q) = 0 <=> q = <<>>)
OBVIOUS

LEMMA OneByte ==
  ASSUME NEW b
  PROVE  Head(<<b>>) = b /\ Tail(<<b>>) = <<>> /\ Append(<<>>, b) = <<b>> /\ <<b>> # <<>>
OBVIOUS

LEMMA Packet ==
  ASSUME NEW S, NEW q \in Seq(S), NEW a \in S, NEW b \in S, NEW c \in S
  PROVE  LET r == q \o <<a, b, c>>
         IN /\ r \in Seq(S) /\ Len(r) = Len(q) + 3 /\ r # <<>>
            /\ \A k \in 1 .. Len(q) : r[k] = q[k]
            /\ r[Len(q) + 1] = a /\ r[Len(q) + 2] = b /\ r[Len(q) + 3] = c
OBVIOUS

(***************************************************************************)
(* The lines.                                                              *)
(***************************************************************************)
LEMMA NothingLatched ==
  ASSUME Latch, obf' = NoByte \/ UNCHANGED <<obf, mode>>
  PROVE  irr' = irr
BY ByteIs DEF Latch, KbdLine, AuxLine, FromMouse

LEMMA OnlyTwoLines ==
  ASSUME Latch, irr \subseteq {1, 12}
  PROVE  irr' \subseteq {1, 12}
BY DEF Latch

LEMMA ByteLatched ==
  ASSUME Latch, obf = NoByte, mode = {0, 1}, mode' = mode, irr = {}
  PROVE  /\ obf'.what = "key" => irr' = {1}
         /\ obf'.what = "data" => irr' = {12}
BY ByteIs DEF Latch, KbdLine, AuxLine, FromMouse

(***************************************************************************)
(* Types, in every boot.                                                   *)
(***************************************************************************)
LEMMA TypesInit == KeyboardInit => Types
<1> SUFFICES ASSUME KeyboardInit PROVE Types
  OBVIOUS
<1> USE DEF KeyboardInit, Ps2Init
<1>1. <<>> \in Seq(Bytes) /\ Len(<<>>) = 0
  OBVIOUS
<1>2. Ps2TypeOK
  BY <1>1, ByteIs DEF Ps2TypeOK
<1>3. 0 \in 0 .. MaxTyped /\ 0 \in 0 .. MaxPackets
  BY Ps2Assumption
<1>4. AckCount = 0 /\ Len(acks) = 0
  BY <1>1 DEF AckCount
<1> QED
  BY <1>1, <1>2, <1>3, <1>4 DEF Types

LEMMA InBufferIsByte == Types => InBuffer \in Bytes
  BY DEF Types, Ps2TypeOK, InBuffer

LEMMA OutportTypes ==
  ASSUME Types, NEW place, NEW byte, NEW next, Outport(place, byte, next),
         byte \in {"A8", "20", "60", "mode", "D4", "F6", "F4"},
         <<place, next>> \in {<<"cmd_A8", "cmd_20">>, <<"cmd_20", "read_mode">>, <<"cmd_60", "mode">>, <<"mode", "D4_F6">>,
                             <<"D4_F6", "F6">>, <<"F6", "ack_F6">>, <<"D4_F4", "F4">>, <<"F4", "ack_F4">>}
  PROVE  Types'
BY DEF Types, Ps2TypeOK, AckCount, Outport, AtMain, devices, mouseVars

LEMMA ReadTypes ==
  ASSUME Types, ReadMode \/ ReadAck("ack_F6", "D4_F4") \/ ReadAck("ack_F4", "install_1")
  PROVE  Types'
<1>1. InBuffer \in Bytes /\ NoByte \in Bytes
  BY InBufferIsByte, ByteIs
<1>2. CASE ReadMode
  <2>1. status' \subseteq {0, 1}
    BY <1>2 DEF ReadMode, Types, Ps2TypeOK
  <2> QED
    BY <1>1, <1>2, <2>1 DEF ReadMode, Types, Ps2TypeOK, AckCount, AtMain, TakeByte, devices, mouseVars
<1>3. ASSUME NEW place, NEW next, ReadAck(place, next), <<place, next>> \in {<<"ack_F6", "D4_F4">>, <<"ack_F4", "install_1">>}
      PROVE  Types'
  <2>1. acks' \in Seq(Bytes) /\ Len(acks') = Len(acks) + 1
    BY <1>1, <1>3, Queue DEF ReadAck, Types, Ps2TypeOK
  <2>2. Len(acks) = AckCount /\ main = place
    BY <1>3 DEF Types, ReadAck, AtMain
  <2> QED
    BY <1>1, <1>3, <2>1, <2>2 DEF ReadAck, Types, Ps2TypeOK, AckCount, TakeByte, devices, mouseVars
<1> QED
  BY <1>2, <1>3

LEMMA InstallTypes ==
  ASSUME Types, InstallInts
  PROVE  Types'
BY DEF Types, Ps2TypeOK, AckCount, InstallInts, Install, AtMain, i8042, devices, mouseVars

LEMMA InterruptTypes ==
  ASSUME Types, NEW n \in {1, 12}, Interrupt(n)
  PROVE  Types'
BY DEF Types, Ps2TypeOK, AckCount, Interrupt, i8042, devices, mouseVars

LEMMA KeybTypes ==
  ASSUME Types, KeybByte
  PROVE  Types'
<1>1. /\ obf' = NoByte /\ stale' = InBuffer /\ running' = 0 /\ Latch
      /\ UNCHANGED <<main, status, acks, routines, mouseVars, ibf, expect, mode, ctlq, devices>>
  BY DEF KeybByte, TakeByte
<1>2. irr' = irr
  BY <1>1, NothingLatched
<1>3. {buttons', obf', stale'} \subseteq Bytes
  BY <1>1, InBufferIsByte, ByteIs DEF Types, Ps2TypeOK, mouseVars
<1>4. Ps2TypeOK'
  BY <1>1, <1>2, <1>3 DEF Types, Ps2TypeOK, devices, mouseVars
<1> QED
  BY <1>1, <1>4 DEF Types, AckCount, devices, mouseVars

LEMMA MouseTypes ==
  ASSUME Types, Mouse
  PROVE  Types'
<1>1. mouse_cycle' \in 0 .. 2
  BY DEF Mouse, NextCycle, Types, Ps2TypeOK
<1>2. mouse_byte' \in [0 .. 2 -> Bytes] /\ packet' \in [0 .. 2 -> Bytes] /\ buttons' \in Bytes
  BY InBufferIsByte DEF Mouse, Types, Ps2TypeOK
<1>3. obf' \in Bytes /\ stale' \in Bytes /\ irr' = irr
  BY InBufferIsByte, ByteIs, NothingLatched DEF Mouse, TakeByte
<1> QED
  BY <1>1, <1>2, <1>3 DEF Mouse, Types, Ps2TypeOK, AckCount, devices

LEMMA ConsumeTypes ==
  ASSUME Types, Consume
  PROVE  Types'
<1>1. ctlq' \in Seq(Bytes) /\ auxq' \in Seq(Bytes)
  <2>1. Append(ctlq, Mode) \in Seq(Bytes) /\ Append(auxq, Ack) \in Seq(Bytes)
    BY ByteIs DEF Types
  <2> QED
    BY <2>1 DEF Consume, Types
<1>2. irr' \subseteq {1, 12}
  BY OnlyTwoLines DEF Consume, Types, Ps2TypeOK
<1>3. mode' \subseteq {0, 1} /\ streaming' \in BOOLEAN /\ expect' \in {"keyboard", "controller", "mouse"}
  BY DEF Consume, Types, Ps2TypeOK
<1> QED
  BY <1>1, <1>2, <1>3 DEF Consume, Types, Ps2TypeOK, AckCount, kernel, mouseVars

LEMMA LoadTypes ==
  ASSUME Types, LoadCtl \/ LoadKbd \/ LoadAux
  PROVE  Types'
<1>1. irr' \subseteq {1, 12}
  BY OnlyTwoLines DEF LoadCtl, LoadKbd, LoadAux, Types, Ps2TypeOK
<1>2. CASE LoadCtl
  <2>1. obf' \in Bytes /\ ctlq' \in Seq(Bytes)
    BY <1>2 DEF LoadCtl, Offer, Types
  <2> QED
    BY <1>1, <1>2, <2>1, ZenonT(40) DEF LoadCtl, Types, Ps2TypeOK, AckCount, kernel, mouseVars, devices
<1>3. CASE LoadKbd
  <2>1. obf' \in Bytes /\ kbdq' \in Seq(Bytes)
    BY <1>3 DEF LoadKbd, Offer, Types
  <2> QED
    BY <1>1, <1>3, <2>1, ZenonT(40) DEF LoadKbd, Types, Ps2TypeOK, AckCount, kernel, mouseVars
<1>4. CASE LoadAux
  <2>1. obf' \in Bytes /\ auxq' \in Seq(Bytes)
    BY <1>4 DEF LoadAux, Offer, Types
  <2> QED
    BY <1>1, <1>4, <2>1, ZenonT(40) DEF LoadAux, Types, Ps2TypeOK, AckCount, kernel, mouseVars
<1> QED
  BY <1>2, <1>3, <1>4

LEMMA UserTypes ==
  ASSUME Types, PressKey \/ MoveMouse
  PROVE  Types'
<1>1. CASE PressKey
  <2>1. keys' \in 1 .. MaxTyped /\ keys' \in 0 .. MaxTyped
    BY <1>1, Ps2Assumption DEF PressKey, Types
  <2>2. kbdq' \in Seq(Bytes)
    BY <1>1, <2>1, ByteIs DEF PressKey, Types
  <2> QED
    BY <1>1, <2>1, <2>2, ZenonT(40) DEF PressKey, Types, Ps2TypeOK, AckCount, kernel, mouseVars, i8042
<1>2. CASE MoveMouse
  <2>1. packets' \in 1 .. MaxPackets /\ packets' \in 0 .. MaxPackets
    BY <1>2, Ps2Assumption DEF MoveMouse, Types
  <2>2. auxq' \in Seq(Bytes)
    <3>1. \A i \in 0 .. 2 : Data(packets', i) \in Bytes
      BY <2>1, ByteIs
    <3>2. auxq' = auxq \o <<Data(packets', 0), Data(packets', 1), Data(packets', 2)>>
      BY <1>2 DEF MoveMouse
    <3> QED
      BY <3>1, <3>2, Packet DEF Types
  <2> QED
    BY <1>2, <2>1, <2>2 DEF MoveMouse, Types, Ps2TypeOK, AckCount, kernel, mouseVars, i8042
<1> QED
  BY <1>1, <1>2

LEMMA TypesNext == Types /\ [Ps2Next]_ps2Vars => Types'
<1> SUFFICES ASSUME Types, [Ps2Next]_ps2Vars PROVE Types'
  OBVIOUS
<1>1. CASE InstallMouse
  BY <1>1, OutportTypes, ReadTypes DEF InstallMouse
<1>2. CASE Kernel /\ ~InstallMouse
  BY <1>2, InstallTypes, InterruptTypes, KeybTypes, MouseTypes DEF Kernel
<1>3. CASE Controller
  BY <1>3, ConsumeTypes, LoadTypes DEF Controller
<1>4. CASE PressKey \/ MoveMouse
  BY <1>4, UserTypes
<1>5. CASE UNCHANGED ps2Vars
  <2>1. UNCHANGED <<main, status, acks, routines, running, mouse_cycle, mouse_byte, buttons, packet, obf, stale,
                    ibf, expect, mode, ctlq, kbdq, auxq, streaming, keys, packets, boot, irr>>
    BY <1>5 DEF ps2Vars, kernel, mouseVars, i8042, devices
  <2>2. Ps2TypeOK'
    BY <2>1 DEF Types, Ps2TypeOK
  <2> QED
    BY <2>1, <2>2 DEF Types, AckCount
<1> QED
  BY <1>1, <1>2, <1>3, <1>4, <1>5 DEF Ps2Next

(***************************************************************************)
(* A quiet boot, step by step.                                             *)
(***************************************************************************)
LEMMA BootInit == KeyboardInit => Booting
  BY DEF KeyboardInit, Init, Ps2Init, Booting, Installing, Modes, Untouched, Still

LEMMA BootOutport ==
  ASSUME Types, Booting, UNCHANGED <<bytes, pressed>>, InstallMouse,
         ~ReadMode, ~ReadAck("ack_F6", "D4_F4"), ~ReadAck("ack_F4", "install_1")
  PROVE  Booting'
<1> USE DEF Booting, Installing, Modes, Untouched, Still, Written, Answered, Outport, AtMain, CanWrite, mouseVars, devices
<1>1. CASE Outport("cmd_A8", "A8", "cmd_20")
  BY <1>1
<1>2. CASE Outport("cmd_20", "20", "read_mode")
  BY <1>2
<1>3. CASE Outport("cmd_60", "60", "mode")
  BY <1>3
<1>4. CASE Outport("mode", "mode", "D4_F6")
  BY <1>4
<1>5. CASE Outport("D4_F6", "D4", "F6")
  BY <1>5
<1>6. CASE Outport("F6", "F6", "ack_F6")
  BY <1>6
<1>7. CASE Outport("D4_F4", "D4", "F4")
  BY <1>7
<1>8. CASE Outport("F4", "F4", "ack_F4")
  BY <1>8
<1> QED
  BY <1>1, <1>2, <1>3, <1>4, <1>5, <1>6, <1>7, <1>8 DEF InstallMouse

\* The byte that comes is the one that was asked for.
LEMMA BootRead ==
  ASSUME Types, Booting, UNCHANGED <<bytes, pressed>>,
         ReadMode \/ ReadAck("ack_F6", "D4_F4") \/ ReadAck("ack_F4", "install_1")
  PROVE  Booting'
<1>1. ASSUME NEW cmd, cmd # "none", NEW b, b # NoByte, Answered(cmd, b), CanRead
      PROVE  obf = b /\ ibf = "none" /\ ctlq = <<>> /\ auxq = <<>>
  BY <1>1, OneByte DEF Answered, CanRead, NothingComing, Still
<1> USE DEF Booting, Installing, Modes, Untouched, Still, AtMain, TakeByte, mouseVars, devices
<1>2. CASE ReadMode
  <2>1. obf = Mode /\ ibf = "none" /\ ctlq = <<>> /\ auxq = <<>>
    BY <1>1, <1>2, ByteIs DEF ReadMode
  <2>2. InBuffer = Mode
    BY <2>1, ByteIs DEF InBuffer
  <2> QED
    BY <1>2, <2>1, <2>2 DEF ReadMode
<1>3. CASE ReadAck("ack_F6", "D4_F4")
  <2>1. obf = Ack /\ ibf = "none" /\ ctlq = <<>> /\ auxq = <<>>
    BY <1>1, <1>3, ByteIs DEF ReadAck
  <2> QED
    BY <1>3, <2>1 DEF ReadAck
<1>4. CASE ReadAck("ack_F4", "install_1")
  <2>1. obf = Ack /\ ibf = "none" /\ ctlq = <<>> /\ auxq = <<>>
    BY <1>1, <1>4, ByteIs DEF ReadAck
  <2> QED
    BY <1>4, <2>1 DEF ReadAck
<1> QED
  BY <1>2, <1>3, <1>4

LEMMA BootInterrupt ==
  ASSUME Types, Booting, UNCHANGED <<bytes, pressed>>, NEW n \in {1, 12}, Interrupt(n)
  PROVE  Booting'
BY DEF Booting, Installing, Modes, Untouched, Still, Written, Answered, Interrupt, mouseVars, i8042, devices

LEMMA BootConsume ==
  ASSUME Types, Booting, UNCHANGED <<bytes, pressed>>, Consume
  PROVE  Booting'
<1> USE OneByte, ByteIs DEF Booting, Installing, Modes, Untouched, Still, Written, Answered, Consume, kernel, mouseVars
<1>0. Still
  BY DEF Types, Ps2TypeOK
<1>1. Append(ctlq, Mode) = <<Mode>> /\ Append(auxq, Ack) = <<Ack>>
  BY <1>0
<1>2. Installing'
  BY <1>1
<1>3. Modes'
  <2>1. main # "D4_F6" => ibf # "mode"
    BY DEF Types, Ps2TypeOK
  <2>2. main = "D4_F6" => ibf = "mode" /\ mode' = {0, 1} /\ ibf' = "none"
    OBVIOUS
  <2>3. main # "D4_F6" => mode' = mode
    BY <2>1
  <2>4. main' = main /\ status' = status
    OBVIOUS
  <2> QED
    BY <2>2, <2>3, <2>4 DEF Modes
<1>4. Untouched'
  OBVIOUS
<1> QED
  BY <1>2, <1>3, <1>4

LEMMA BootLoad ==
  ASSUME Types, Booting, UNCHANGED <<bytes, pressed>>, LoadCtl \/ LoadKbd \/ LoadAux
  PROVE  Booting'
<1> USE OneByte, ByteIs DEF Booting, Installing, Modes, Untouched, Still, Written, Answered, Offer, kernel, mouseVars, devices
<1>1. CASE LoadCtl
  BY <1>1 DEF LoadCtl
<1>2. CASE LoadKbd
  BY <1>2 DEF LoadKbd
<1>3. CASE LoadAux
  BY <1>3 DEF LoadAux
<1> QED
  BY <1>1, <1>2, <1>3

LEMMA BootInstall ==
  ASSUME Types, Booting, UNCHANGED <<bytes, pressed>>, InstallInts
  PROVE  IF main' = "done" THEN Serving' ELSE Booting'
<1> USE DEF Booting, Installing, Modes, Untouched, Still, InstallInts, Install, AtMain, mouseVars, i8042, devices
<1>1. CASE main = "install_1"
  BY <1>1
<1>2. CASE main = "install_12"
  <2>1. Served'
    BY <1>2, ByteIs DEF Served
  <2>2. KeysInOrder'
    BY <1>2, ByteIs DEF KeysInOrder, OnTheWay
  <2>3. PacketsInOrder'
    BY <1>2, ByteIs DEF PacketsInOrder
  <2> QED
    BY <1>2, <2>1, <2>2, <2>3 DEF Serving
<1> QED
  BY <1>1, <1>2

(***************************************************************************)
(* After the boot.                                                         *)
(***************************************************************************)
LEMMA ServeInterrupt ==
  ASSUME Types, Serving, UNCHANGED <<bytes, pressed>>, NEW n \in {1, 12}, Interrupt(n)
  PROVE  Serving'
<1>1. Served'
  BY DEF Serving, Served, Interrupt, i8042
<1>2. KeysInOrder' /\ PacketsInOrder'
  BY DEF Serving, KeysInOrder, OnTheWay, PacketsInOrder, Expected, Interrupt, i8042, devices, mouseVars
<1> QED
  BY <1>1, <1>2 DEF Serving

LEMMA ServeKeyb ==
  ASSUME Types, bytes \in Seq(Bytes), Serving, KeybByte, bytes' = Append(bytes, InBuffer), pressed' = pressed + 1
  PROVE  Serving'
<1> USE DEF KeybByte, TakeByte
<1>1. obf.what = "key" /\ obf \in Bytes /\ obf # NoByte /\ obf' = NoByte /\ irr' = {}
  <2>1. obf.what = "key" /\ obf \in Bytes /\ irr = {}
    BY DEF Types, Ps2TypeOK, Serving, Served
  <2>2. obf' = NoByte /\ irr' = irr
    BY NothingLatched
  <2> QED
    BY <2>1, <2>2, ByteIs
<1>2. Served'
  BY <1>1, ByteIs DEF Serving, Served
<1>3. KeysInOrder'
  <2>1. InBuffer = obf /\ obf = Key(Len(bytes) + 1)
    BY <1>1 DEF InBuffer, Serving, KeysInOrder
  <2>2. /\ Len(bytes') = Len(bytes) + 1 /\ Len(bytes) \in Nat
        /\ bytes'[Len(bytes) + 1] = obf /\ \A k \in 1 .. Len(bytes) : bytes'[k] = bytes[k]
    BY <1>1, <2>1, Queue
  <2>3. OnTheWay' = OnTheWay /\ kbdq' = kbdq /\ keys' = keys
    BY <1>1, <2>2, ByteIs DEF OnTheWay, devices
  <2>4. \A k \in 1 .. Len(bytes') : bytes'[k] = Key(k)
    BY <2>1, <2>2 DEF Serving, KeysInOrder
  <2> QED
    BY <1>1, <2>2, <2>3, <2>4, ByteIs DEF Serving, KeysInOrder
<1>4. PacketsInOrder'
  BY <1>1, ByteIs DEF Serving, PacketsInOrder, Expected, devices, mouseVars
<1> QED
  BY <1>2, <1>3, <1>4 DEF Serving

LEMMA ServeMouse ==
  ASSUME Types, Serving, UNCHANGED <<bytes, pressed>>, Mouse
  PROVE  Serving'
<1> USE DEF Mouse, TakeByte
<1>1. obf.what = "data" /\ obf \in Bytes /\ obf # NoByte /\ obf' = NoByte /\ irr' = {}
  <2>1. obf.what = "data" /\ obf \in Bytes /\ irr = {}
    BY DEF Types, Ps2TypeOK, Serving, Served
  <2>2. obf' = NoByte /\ irr' = irr
    BY NothingLatched
  <2> QED
    BY <2>1, <2>2, ByteIs
<1>2. Served'
  BY <1>1, ByteIs DEF Serving, Served
<1>3. KeysInOrder'
  BY <1>1, ByteIs DEF Serving, KeysInOrder, OnTheWay, devices
<1>4. InBuffer = obf /\ obf = Data(obf.n, mouse_cycle) /\ mouse_cycle \in 0 .. 2
  BY <1>1, IsByte DEF InBuffer, Serving, PacketsInOrder, Expected, Types, Ps2TypeOK
<1>5. mouse_byte'[mouse_cycle] = obf /\ \A i \in 0 .. mouse_cycle - 1 : mouse_byte'[i] = mouse_byte[i]
  BY <1>4 DEF Types, Ps2TypeOK
<1>6. mouse_byte'[0].n = obf.n
  BY <1>1, <1>4, <1>5, ByteIs DEF Serving, PacketsInOrder, Expected
<1>7. \A i \in 0 .. mouse_cycle : mouse_byte'[i] = Data(mouse_byte'[0].n, i)
  <2>1. mouse_cycle > 0 => mouse_byte[0].n = obf.n
    BY <1>1, <1>4, ByteIs DEF Serving, PacketsInOrder, Expected
  <2> QED
    BY <1>4, <1>5, <1>6, <2>1 DEF Serving, PacketsInOrder
<1>8. obf.i = mouse_cycle
  BY <1>1 DEF Serving, PacketsInOrder, Expected
<1>9. auxq' = auxq /\ mouse_cycle' = IF mouse_cycle = 2 THEN 0 ELSE mouse_cycle + 1
  BY DEF devices, NextCycle
<1>10. ASSUME auxq # <<>> PROVE Expected(auxq[1])'
  <2>1. Follows(obf, auxq[1])
    BY <1>1, <1>10 DEF Serving, PacketsInOrder
  <2>2. CASE mouse_cycle = 2
    BY <2>1, <2>2, <1>8, <1>9 DEF Follows, Expected
  <2>3. CASE mouse_cycle # 2
    BY <2>1, <2>3, <1>4, <1>6, <1>8, <1>9, ByteIs DEF Follows, Expected
  <2> QED
    BY <2>2, <2>3
<1>11. \A i \in 0 .. 2 : packet'[i] # NoByte => packet'[i] = Data(packet'[0].n, i)
  BY <1>4, <1>7 DEF Serving, PacketsInOrder
<1>12. \A i \in 0 .. mouse_cycle' - 1 : mouse_byte'[i] = Data(mouse_byte'[0].n, i)
  BY <1>4, <1>7, <1>9
<1>13. auxq = <<>> => mouse_cycle' = 0
  BY <1>1, <1>8, <1>9 DEF Serving, PacketsInOrder
<1>14. PacketsInOrder'
  BY <1>1, <1>9, <1>10, <1>11, <1>12, <1>13, ByteIs DEF Serving, PacketsInOrder
<1> QED
  BY <1>2, <1>3, <1>14 DEF Serving

LEMMA ServeLoadKbd ==
  ASSUME Types, bytes \in Seq(Bytes), Serving, UNCHANGED <<bytes, pressed>>, LoadKbd
  PROVE  Serving'
<1> USE DEF LoadKbd, Offer, kernel, mouseVars
<1>1. /\ obf = NoByte /\ kbdq # <<>> /\ obf' = kbdq[1] /\ kbdq' = Tail(kbdq)
      /\ Len(kbdq) \in Nat \ {0} /\ Len(bytes) \in Nat
      /\ Len(kbdq') = Len(kbdq) - 1 /\ \A k \in 1 .. Len(kbdq) - 1 : kbdq'[k] = kbdq[k + 1]
  BY Queue DEF Types
<1>2. obf' = Key(Len(bytes) + 1) /\ obf'.what = "key" /\ obf.what = "none"
  BY <1>1, ByteIs DEF Serving, KeysInOrder, OnTheWay
<1>3. irr = {} /\ running = 0 /\ irr' = {1}
  BY <1>1, <1>2, ByteLatched DEF Serving, Served, Types, Ps2TypeOK
<1>4. Served'
  BY <1>2, <1>3 DEF Serving, Served
<1>5. KeysInOrder'
  BY <1>1, <1>2 DEF Serving, KeysInOrder, OnTheWay
<1>6. PacketsInOrder'
  BY <1>2 DEF Serving, PacketsInOrder, Expected
<1> QED
  BY <1>4, <1>5, <1>6 DEF Serving

LEMMA ServeLoadAux ==
  ASSUME Types, Serving, UNCHANGED <<bytes, pressed>>, LoadAux
  PROVE  Serving'
<1> USE DEF LoadAux, Offer, kernel, mouseVars
<1>1. /\ obf = NoByte /\ auxq # <<>> /\ obf' = auxq[1] /\ auxq' = Tail(auxq)
      /\ Len(auxq) \in Nat \ {0}
      /\ Len(auxq') = Len(auxq) - 1 /\ \A k \in 1 .. Len(auxq) - 1 : auxq'[k] = auxq[k + 1]
      /\ auxq' \in Seq(Bytes) /\ (Len(auxq') = 0 <=> auxq' = <<>>)
  BY Queue DEF Types
<1>2. obf'.what = "data" /\ obf.what = "none"
  BY <1>1, ByteIs DEF Serving, PacketsInOrder
<1>3. irr = {} /\ running = 0 /\ irr' = {12}
  BY <1>1, <1>2, ByteLatched DEF Serving, Served, Types, Ps2TypeOK
<1>4. Served'
  BY <1>2, <1>3 DEF Serving, Served
<1>5. KeysInOrder'
  BY <1>2 DEF Serving, KeysInOrder, OnTheWay
<1>6. PacketsInOrder'
  BY <1>1, <1>2 DEF Serving, PacketsInOrder, Expected, Follows
<1> QED
  BY <1>4, <1>5, <1>6 DEF Serving

LEMMA ServePressKey ==
  ASSUME Types, bytes \in Seq(Bytes), Serving, UNCHANGED <<bytes, pressed>>, PressKey
  PROVE  Serving'
<1> USE DEF PressKey, kernel, mouseVars, i8042
<1>1. Served' /\ PacketsInOrder'
  BY DEF Serving, Served, PacketsInOrder, Expected
<1>2. /\ Len(kbdq) \in Nat /\ Len(bytes) \in Nat /\ keys' = keys + 1
      /\ Len(kbdq') = Len(kbdq) + 1 /\ kbdq'[Len(kbdq) + 1] = Key(keys')
      /\ \A k \in 1 .. Len(kbdq) : kbdq'[k] = kbdq[k]
  <2>1. keys' \in 1 .. MaxTyped
    BY Ps2Assumption DEF Types
  <2> QED
    BY <2>1, Queue, ByteIs DEF Types
<1>3. OnTheWay' = OnTheWay /\ OnTheWay \in Nat
  BY <1>2 DEF OnTheWay
<1>4. KeysInOrder /\ keys' = OnTheWay + (Len(kbdq) + 1)
  BY <1>2, <1>3 DEF Serving, KeysInOrder
<1>5. \A k \in 1 .. Len(kbdq') : kbdq'[k] = Key(OnTheWay + k)
  <2> SUFFICES ASSUME NEW k \in 1 .. Len(kbdq') PROVE kbdq'[k] = Key(OnTheWay + k)
    OBVIOUS
  <2>1. CASE k <= Len(kbdq)
    BY <1>2, <1>4, <2>1 DEF KeysInOrder
  <2>2. CASE k = Len(kbdq) + 1
    BY <1>2, <1>4, <2>2
  <2> QED
    BY <1>2, <2>1, <2>2
<1>6. KeysInOrder'
  BY <1>2, <1>3, <1>4, <1>5 DEF KeysInOrder
<1> QED
  BY <1>1, <1>6 DEF Serving

LEMMA ServeMoveMouse ==
  ASSUME Types, Serving, UNCHANGED <<bytes, pressed>>, MoveMouse
  PROVE  Serving'
<1> USE DEF MoveMouse, kernel, mouseVars, i8042
<1>1. Served' /\ KeysInOrder'
  BY DEF Serving, Served, KeysInOrder, OnTheWay
<1>2. \A i \in 0 .. 2 : Data(packets', i) \in Bytes
  BY Ps2Assumption, ByteIs DEF Types
<1>3. /\ Len(auxq') = Len(auxq) + 3 /\ Len(auxq) \in Nat /\ auxq' # <<>>
      /\ \A k \in 1 .. Len(auxq) : auxq'[k] = auxq[k]
      /\ auxq'[Len(auxq) + 1] = Data(packets', 0)
      /\ auxq'[Len(auxq) + 2] = Data(packets', 1)
      /\ auxq'[Len(auxq) + 3] = Data(packets', 2)
  <2>1. auxq \in Seq(Bytes) /\ auxq' = auxq \o <<Data(packets', 0), Data(packets', 1), Data(packets', 2)>>
    BY DEF Types
  <2> QED
    BY <1>2, <2>1, Packet, Queue
<1>4. auxq = <<>> <=> Len(auxq) = 0
  BY Queue DEF Types
<1>5. \A k \in 1 .. Len(auxq') : auxq'[k].what = "data"
  BY <1>3, ByteIs DEF Serving, PacketsInOrder
<1>6. \A k \in 1 .. Len(auxq') - 1 : Follows(auxq'[k], auxq'[k + 1])
  <2> SUFFICES ASSUME NEW k \in 1 .. Len(auxq') - 1 PROVE Follows(auxq'[k], auxq'[k + 1])
    OBVIOUS
  <2>1. CASE k < Len(auxq)
    BY <1>3, <2>1 DEF Serving, PacketsInOrder
  <2>2. CASE k = Len(auxq)
    <3>1. auxq'[k].i = 2 /\ auxq'[k + 1] = Data(packets', 0)
      BY <1>3, <1>4, <2>2 DEF Serving, PacketsInOrder
    <3> QED
      BY <3>1, ByteIs DEF Follows
  <2>3. CASE k = Len(auxq) + 1
    <3>1. auxq'[k] = Data(packets', 0) /\ auxq'[k + 1] = Data(packets', 1)
      BY <1>3, <2>3
    <3> QED
      BY <3>1, ByteIs DEF Follows
  <2>4. CASE k = Len(auxq) + 2
    <3>1. auxq'[k] = Data(packets', 1) /\ auxq'[k + 1] = Data(packets', 2)
      BY <1>3, <2>4
    <3> QED
      BY <3>1, ByteIs DEF Follows
  <2> QED
    BY <1>3, <2>1, <2>2, <2>3, <2>4
<1>7. IF obf.what = "data" THEN Follows(obf, auxq'[1]) ELSE Expected(auxq'[1])
  <2>1. CASE auxq = <<>>
    BY <1>3, <1>4, <2>1, ByteIs DEF Serving, PacketsInOrder, Follows, Expected
  <2>2. CASE auxq # <<>>
    BY <1>3, <1>4, <2>2 DEF Serving, PacketsInOrder
  <2> QED
    BY <2>1, <2>2
<1>8. auxq'[Len(auxq')].i = 2
  BY <1>3, ByteIs
<1>9. PacketsInOrder'
  BY <1>3, <1>5, <1>6, <1>7, <1>8 DEF Serving, PacketsInOrder, Expected
<1> QED
  BY <1>1, <1>9 DEF Serving

(***************************************************************************)
(* The invariant.                                                          *)
(***************************************************************************)
LEMMA KeyboardInitIInv == KeyboardInit => KeyboardIInv
<1> SUFFICES ASSUME KeyboardInit PROVE KeyboardIInv
  OBVIOUS
<1>1. bytes \in Seq(Bytes) /\ main # "done"
  BY DEF KeyboardInit, Ps2Init
<1> QED
  BY <1>1, TypesInit, BootInit DEF KeyboardIInv

\* Only keyb's step hands a byte over.
LEMMA OnlyKeyb ==
  ASSUME Ps2Next
  PROVE  /\ boot' = boot
         /\ KeybByte \/ ~(running = 1 /\ running' = 0)
         /\ KeybByte => running = 1 /\ running' = 0
<1> USE DEF AtMain, devices, kernel
<1>1. ASSUME InstallMouse PROVE boot' = boot /\ running = 0
  BY <1>1 DEF InstallMouse, Outport, ReadMode, ReadAck
<1>2. ASSUME InstallInts PROVE boot' = boot /\ running = 0
  BY <1>2 DEF InstallInts, Install
<1>3. ASSUME NEW n \in {1, 12}, Interrupt(n) PROVE boot' = boot /\ running = 0
  BY <1>3 DEF Interrupt
<1>4. ASSUME KeybByte PROVE boot' = boot /\ running = 1 /\ running' = 0
  BY <1>4 DEF KeybByte
<1>5. ASSUME Mouse PROVE boot' = boot /\ running = 12
  BY <1>5 DEF Mouse
<1>6. ASSUME Controller PROVE boot' = boot /\ running' = running
  BY <1>6 DEF Controller, Consume, LoadCtl, LoadKbd, LoadAux
<1>7. ASSUME PressKey \/ MoveMouse PROVE boot' = boot /\ running' = running
  BY <1>7 DEF PressKey, MoveMouse
<1> QED
  BY <1>1, <1>2, <1>3, <1>4, <1>5, <1>6, <1>7 DEF Ps2Next, Kernel

LEMMA BootNext ==
  ASSUME Types, Booting, boot = "quiet", UNCHANGED <<bytes, pressed>>, Ps2Next, ~KeybByte
  PROVE  IF main' = "done" THEN Serving' ELSE Booting'
<1>0. main # "done" /\ running = 0
  BY DEF Booting, Installing, Untouched
<1>1. Booting' => main' # "done"
  BY DEF Booting, Installing
<1>2. CASE InstallMouse
  BY <1>1, <1>2, BootOutport, BootRead
<1>3. CASE InstallInts
  BY <1>3, BootInstall
<1>4. ASSUME NEW n \in {1, 12}, Interrupt(n) PROVE Booting'
  BY <1>4, BootInterrupt
<1>5. CASE Controller
  BY <1>1, <1>5, BootConsume, BootLoad DEF Controller
<1>6. ~Mouse /\ ~PressKey /\ ~MoveMouse
  BY <1>0 DEF Mouse, PressKey, MoveMouse, HandsOff
<1> QED
  BY <1>1, <1>2, <1>3, <1>4, <1>5, <1>6 DEF Ps2Next, Kernel

LEMMA ServeNext ==
  ASSUME Types, bytes \in Seq(Bytes), Serving, main = "done", UNCHANGED <<bytes, pressed>>, Ps2Next, ~KeybByte
  PROVE  Serving' /\ main' = "done"
<1>1. ~InstallMouse /\ ~InstallInts
  BY DEF InstallMouse, InstallInts, Install, Outport, ReadMode, ReadAck, AtMain
<1>2. ASSUME NEW n \in {1, 12}, Interrupt(n) PROVE Serving' /\ main' = "done"
  BY <1>2, ServeInterrupt DEF Interrupt
<1>3. CASE Mouse
  BY <1>3, ServeMouse DEF Mouse
<1>4. CASE Controller
  BY <1>4, ServeLoadKbd, ServeLoadAux DEF Controller, Consume, LoadCtl, LoadKbd, LoadAux, Offer, Serving, Served, kernel
<1>5. CASE PressKey \/ MoveMouse
  BY <1>5, ServePressKey, ServeMoveMouse DEF PressKey, MoveMouse, kernel
<1> QED
  BY <1>1, <1>2, <1>3, <1>4, <1>5 DEF Ps2Next, Kernel

LEMMA KeyboardStutter ==
  ASSUME KeyboardIInv, UNCHANGED <<ps2Vars, bytes, pressed>>
  PROVE  KeyboardIInv'
<1> USE DEF ps2Vars, kernel, mouseVars, i8042, devices
<1>1. Types'
  BY TypesNext DEF KeyboardIInv
<1>2. boot = "quiet" /\ main = "done" => Serving'
  BY DEF KeyboardIInv, Serving, Served, KeysInOrder, OnTheWay, PacketsInOrder, Expected
<1>3. boot = "quiet" /\ main # "done" => Booting'
  BY DEF KeyboardIInv, Booting, Installing, Modes, Untouched, Still, Written, Answered
<1> QED
  BY <1>1, <1>2, <1>3 DEF KeyboardIInv

LEMMA KeyboardNextIInv == KeyboardIInv /\ [KeyboardNext]_keyboardVars => KeyboardIInv'
<1> SUFFICES ASSUME KeyboardIInv, [KeyboardNext]_keyboardVars PROVE KeyboardIInv'
  OBVIOUS
<1>1. CASE HardwareStep
  <2>1. Ps2Next /\ Types' /\ boot' = boot
    BY <1>1, TypesNext, OnlyKeyb DEF HardwareStep, KeyboardIInv
  <2>2. CASE KeybByte
    <3>1. bytes' = Append(bytes, InBuffer) /\ pressed' = pressed + 1 /\ main' = main
      BY <1>1, <2>1, <2>2, OnlyKeyb DEF HardwareStep, Keyb, KeybByte
    <3>2. bytes' \in Seq(Bytes)
      BY <3>1, InBufferIsByte DEF KeyboardIInv
    <3>3. boot = "quiet" => main = "done"
      BY <2>2 DEF KeyboardIInv, KeybByte, Booting, Untouched
    <3> QED
      BY <2>1, <2>2, <3>1, <3>2, <3>3, ServeKeyb DEF KeyboardIInv
  <2>3. CASE ~KeybByte
    <3>1. UNCHANGED <<bytes, pressed>>
      BY <1>1, <2>1, <2>3, OnlyKeyb DEF HardwareStep, vars
    <3> QED
      BY <2>1, <2>3, <3>1, BootNext, ServeNext DEF KeyboardIInv
  <2> QED
    BY <2>2, <2>3
<1>2. CASE CallerStep
  BY <1>2, KeyboardStutter DEF CallerStep, Reader, StartReading, SeeReceived, StopReading, ResetReceived, ReturnKey
<1>3. CASE UNCHANGED keyboardVars
  BY <1>3, KeyboardStutter DEF keyboardVars, vars
<1> QED
  BY <1>1, <1>2, <1>3 DEF KeyboardNext

\* Every byte in the order of its source, on its way to the routine it is for,
\* for any number of keys and packets (main.cc:61-64,118-181,274-290).
THEOREM KeyboardInvariant == KeyboardSpec => []KeyboardIInv
  BY KeyboardInitIInv, KeyboardNextIInv, PTL DEF KeyboardSpec

\* In a quiet boot keyb reads keys and mouse reads packets, each from its first
\* byte to its third (main.cc:61-64,118-169,274-281).
THEOREM PacketsAreWhole == KeyboardSpec => []WholePacket
<1>1. KeyboardIInv => WholePacket
  <2> SUFFICES ASSUME KeyboardIInv PROVE WholePacket
    OBVIOUS
  <2>1. Ps2TypeOK
    BY DEF KeyboardIInv, Types
  <2>2. ASSUME boot = "quiet", main = "done" PROVE WholePacket
    BY <2>1, <2>2 DEF KeyboardIInv, Serving, Served, PacketsInOrder, Expected, WholePacket
  <2>3. ASSUME boot = "quiet", main # "done" PROVE WholePacket
    BY <2>1, <2>3 DEF KeyboardIInv, Booting, Modes, Untouched, WholePacket
  <2> QED
    BY <2>1, <2>2, <2>3 DEF WholePacket
<1> QED
  BY <1>1, KeyboardInvariant, PTL

\* The n-th byte keyb takes is the n-th key that was typed (main.cc:49-71,260-264).
THEOREM TypedKeysArrive == KeyboardSpec => []KeysAreTyped
<1>1. KeyboardIInv => KeysAreTyped
  <2> SUFFICES ASSUME KeyboardIInv, boot = "quiet" PROVE KeysAreTyped
    BY DEF KeysAreTyped
  <2>1. CASE main = "done"
    <3>1. Len(bytes) \in Nat /\ Len(kbdq) \in Nat
      BY DEF KeyboardIInv, Types
    <3> QED
      BY <2>1, <3>1 DEF KeyboardIInv, Serving, KeysInOrder, OnTheWay, KeysAreTyped
  <2>2. CASE main # "done"
    BY <2>2 DEF KeyboardIInv, Booting, Untouched, KeysAreTyped
  <2> QED
    BY <2>1, <2>2
<1> QED
  BY <1>1, KeyboardInvariant, PTL

(***************************************************************************)
(* The handshake on a real keyboard is the handshake of KeybRead.          *)
(***************************************************************************)
LEMMA HandshakeStep == [KeyboardNext]_keyboardVars => [Next]_vars
<1>1. HardwareStep => [Next]_vars
  BY DEF HardwareStep, Next
<1>2. CallerStep => [Next]_vars
  BY DEF CallerStep, Next
<1> QED
  BY <1>1, <1>2 DEF KeyboardNext, keyboardVars

\* keyb_read returns the last key that came while it was reading also when the
\* keys come through the controller, in any boot (main.cc:43-71).
THEOREM LastKeyThroughController == KeyboardSpec => ReturnsLastKey
<1>1. Init /\ [][Next]_vars => []IInv
  BY IndInit, IndNext, PTL
<1>2. KeyboardSpec => Init /\ [][Next]_vars
  BY HandshakeStep, PTL DEF KeyboardSpec, KeyboardInit
<1> QED
  BY <1>1, <1>2, StepReturns, PTL DEF ReturnsLastKey
=============================================================================
