----------------------------- MODULE VgaProofs -----------------------------
(***************************************************************************)
(* Proofs about Vga: for any number of texts and any positions of the      *)
(* cursor, planes and registers stay apart as stated, and the kernel ends  *)
(* up in the mode and the font of its terminal.                            *)
(***************************************************************************)
EXTENDS Vga, FiniteSetTheorems, TLAPS

(***************************************************************************)
(* The inductive invariant.                                                *)
(***************************************************************************)
Tables == {"80x25", "modex", "80x50"}
InFont == {"set_plane", "glyphs", "restore"}
InRegs == {"unlock_index", "unlock_read", "unlock_data", "index", "data", "graphics"}

\* Where each call of kernel_main is made, and its places.
Places ==
    /\ at \in InFont => call \in {1, 3, 5, 8}
    /\ at \in InRegs => call \in {2, 13, 14}
    /\ at \notin {"index", "data"} => n = 1

\* No routine runs before the last font has been written.
Interrupts == iflag = 1 => call > 11

\* Text at 0xB8000 does not arrive in plane 2: between the calls, and with the
\* registers that write_font will restore.
TextSafe(planes, misc) ==
    2 \in planes => ~ ({2, 3} \subseteq misc) /\ {2, 3} \cap misc # {}
Planes ==
    /\ at = "enter" => TextSafe(seq[2], gc[6])
    /\ at \in InFont => TextSafe(saved[1], saved[5])
    /\ at \in {"set_plane", "glyphs"} => 2 \in seq[4]
    /\ at = "glyphs" => seq[2] = {2}
    /\ at \in InRegs => seq[2] = Seq2(kernel_main[call].arg)

\* A register is lost when it was written with another value, and will be when
\* update_cursor changed the index just before; register 4 also with the lock.
Now(i) == at = "data" /\ n = i
Written(i) == at = "graphics" \/ (at \in {"index", "data"} /\ n > i)
Wrong(r) == crtc[r] # Unlocked(kernel_main[call].arg)[r]
LockStays ==
    \/ at \in {"unlock_read", "unlock_data"} /\ index # 17
    \/ at \in {"index", "data"} /\ n = 1 /\ crtc[17] >= 128
Lost4 == LockStays \/ (Now(1) /\ index # 4) \/ (Written(1) /\ Wrong(4))
Lost9 == (Now(2) /\ index # 9) \/ (Written(2) /\ Wrong(9))
Lost17 == (Now(5) /\ index # 17) \/ (Written(5) /\ Wrong(17))
Count(lost) == IF lost THEN 1 ELSE 0

Registers ==
    /\ at \in {"unlock_read", "unlock_data"} => index \in {17, 15}
    /\ at = "data" => index \in {CrtcRegs[n], 15}
    /\ at \in InRegs => Count(Lost4) + Count(Lost9) + Count(Lost17) <= keys - before
    /\ at \in InRegs /\ keys = before =>
           /\ Now(3) => index = 14
           /\ Written(3) => ~Wrong(14)
           /\ Written(4) => ~Wrong(15)

\* What the kernel ends up with.
Ends ==
    /\ call > 8 \/ (call = 8 /\ at = "restore") => font[0][0] = "8x8"
    /\ call > 14 /\ keys = 0 => crtc[9] = 71

IInv == TypeOK /\ Places /\ Interrupts /\ Planes /\ Registers /\ Ends

(***************************************************************************)
(* The calls of kernel_main.                                               *)
(***************************************************************************)

LEMMA Length == Len(kernel_main) = 15
  BY DEF kernel_main, font512, set_text_mode_0

LEMMA Calls ==
    /\ kernel_main[1] = WriteFont(g_8x16_font, 0)
    /\ kernel_main[2] = WriteRegs("80x25")
    /\ kernel_main[3] = WriteFont(g_8x16_font, 0)
    /\ kernel_main[4] = PokeText
    /\ kernel_main[5] = WriteFont(reverse_bits(g_8x16_font), 1)
    /\ kernel_main[6] = ChooseFonts
    /\ kernel_main[7] = PokeText
    /\ kernel_main[8] = WriteFont(g_8x8_font, 0)
    /\ kernel_main[9] = PokeText
    /\ kernel_main[10] = WriteString
    /\ kernel_main[11] = EnableInterrupts
    /\ kernel_main[12] = WriteString
    /\ kernel_main[13] = WriteRegs("modex")
    /\ kernel_main[14] = WriteRegs("80x50")
    /\ kernel_main[15] = WriteString
  BY DEF kernel_main, font512, set_text_mode_0

LEMMA Ops ==
  ASSUME NEW i \in 1 .. 15
  PROVE  /\ kernel_main[i].op = "write_font" => i \in {1, 3, 5, 8}
         /\ kernel_main[i].op = "write_regs" => i \in {2, 13, 14}
         /\ kernel_main[i].op \in {"poke", "string", "select_fonts", "sti"} =>
                i \notin {1, 2, 3, 5, 8, 13, 14}
         /\ kernel_main[i].op = "sti" => i = 11
  BY Calls DEF WriteFont, WriteRegs, PokeText, ChooseFonts, WriteString, EnableInterrupts

LEMMA FontArgs ==
  ASSUME NEW i \in {1, 3, 5, 8}
  PROVE  /\ kernel_main[i].arg.name \in {"8x16", "8x8", "backward"}
         /\ kernel_main[i].arg.height \in {8, 16}
         /\ kernel_main[i].slot \in 0 .. 1
         /\ i = 8 => kernel_main[i].arg.name = "8x8" /\ kernel_main[i].slot = 0
  BY Calls DEF WriteFont, g_8x16_font, g_8x8_font, reverse_bits

LEMMA RegsArgs ==
  /\ kernel_main[2].arg = "80x25" /\ kernel_main[13].arg = "modex" /\ kernel_main[14].arg = "80x50"
  /\ \A i \in {2, 13, 14} : kernel_main[i].arg \in Tables
  BY Calls DEF WriteRegs, Tables

\* What write_regs puts in the registers of the CRT controller.
LEMMA UnlockedTables ==
  ASSUME NEW table \in Tables
  PROVE  /\ Unlocked(table) \in [{4, 9, 14, 15, 17} -> 0 .. 255]
         /\ Unlocked(table)[17] < 128
         /\ Unlocked("80x50")[9] = 71
<1> DEFINE D == {4, 9, 14, 15, 17}
           T(f, a, b, c, d, e) ==
               /\ DOMAIN f = D /\ f = [x \in D |-> f[x]]
               /\ f[4] = a /\ f[9] = b /\ f[14] = c /\ f[15] = d /\ f[17] = e
<1>1. \A a, b, c, d, e : T(Controller(a, b, c, d, e), a, b, c, d, e)
  BY DEF Controller
<1>2. /\ T(Crtc("80x25"), 85, 79, 0, 80, 14)
      /\ T(Crtc("modex"), 84, 65, 0, 0, 14)
      /\ T(Crtc("80x50"), 85, 71, 1, 64, 142)
  BY <1>1 DEF Crtc
<1>3. \A f : T(f, f[4], f[9], f[14], f[15], f[17]) /\ f[17] \in Nat
          => T([f EXCEPT ![17] = @ % 128], f[4], f[9], f[14], f[15], f[17] % 128)
  OBVIOUS
<1> HIDE DEF T
<1>4. /\ T(Unlocked("80x25"), 85, 79, 0, 80, 14)
      /\ T(Unlocked("modex"), 84, 65, 0, 0, 14)
      /\ T(Unlocked("80x50"), 85, 71, 1, 64, 14)
  <2>1. 14 % 128 = 14 /\ 142 % 128 = 14
    OBVIOUS
  <2>2. ASSUME NEW f, NEW a \in Nat, NEW b \in Nat, NEW c \in Nat, NEW d \in Nat, NEW e \in Nat,
               T(f, a, b, c, d, e)
        PROVE  T([f EXCEPT ![17] = @ % 128], a, b, c, d, e % 128)
    BY <1>3, <2>2 DEF T
  <2>3. T([Crtc("80x25") EXCEPT ![17] = @ % 128], 85, 79, 0, 80, 14 % 128)
    BY <1>2, <2>2
  <2>4. T([Crtc("modex") EXCEPT ![17] = @ % 128], 84, 65, 0, 0, 14 % 128)
    BY <1>2, <2>2
  <2>5. T([Crtc("80x50") EXCEPT ![17] = @ % 128], 85, 71, 1, 64, 142 % 128)
    BY <1>2, <2>2
  <2> QED
    BY <2>1, <2>3, <2>4, <2>5 DEF Unlocked
<1> DEFINE Byte == 0 .. 255
<1>5. ASSUME NEW f, NEW a \in Byte, NEW b \in Byte, NEW c \in Byte, NEW d \in Byte, NEW e \in Byte,
             T(f, a, b, c, d, e)
      PROVE  f \in [D -> Byte]
  <2>1. \A x \in D : f[x] \in Byte
    BY <1>5 DEF T
  <2> QED
    BY <1>5, <2>1 DEF T
<1>6. \A a \in Nat : a < 256 => a \in Byte
  OBVIOUS
<1> HIDE DEF Byte
<1>7. table = "80x25" \/ table = "modex" \/ table = "80x50"
  BY DEF Tables
<1>8. 85 \in Byte /\ 79 \in Byte /\ 0 \in Byte /\ 80 \in Byte /\ 14 \in Byte /\ 84 \in Byte
       /\ 65 \in Byte /\ 71 \in Byte /\ 1 \in Byte /\ 64 \in Byte
  BY <1>6
<1> HIDE DEF D
<1>9. /\ Unlocked("80x25") \in [D -> Byte]
      /\ Unlocked("modex") \in [D -> Byte]
      /\ Unlocked("80x50") \in [D -> Byte]
  <2>1. Unlocked("80x25") \in [D -> Byte]
    BY <1>4, <1>5, <1>8, Zenon
  <2>2. Unlocked("modex") \in [D -> Byte]
    BY <1>4, <1>5, <1>8, Zenon
  <2>3. Unlocked("80x50") \in [D -> Byte]
    BY <1>4, <1>5, <1>8, Zenon
  <2> QED
    BY <2>1, <2>2, <2>3
<1>10. Unlocked(table)[17] = 14 /\ Unlocked("80x50")[9] = 71
  BY <1>4, <1>7 DEF T, D
<1> QED
  BY <1>7, <1>9, <1>10 DEF Byte, D

LEMMA TableSafe ==
  ASSUME NEW table \in Tables
  PROVE  /\ Seq2(table) \in SUBSET (0 .. 3) /\ Seq4(table) \in SUBSET (0 .. 3)
         /\ Gc5(table) \in SUBSET (0 .. 6) /\ Gc6(table) \in SUBSET (0 .. 6)
         /\ TextSafe(Seq2(table), Gc6(table))
  BY DEF Tables, Seq2, Seq4, Gc5, Gc6, TextSafe

LEMMA CrtcRegsIs ==
  /\ Len(CrtcRegs) = 5 /\ DOMAIN CrtcRegs = 1 .. 5
  /\ CrtcRegs[1] = 4 /\ CrtcRegs[2] = 9 /\ CrtcRegs[3] = 14 /\ CrtcRegs[4] = 15 /\ CrtcRegs[5] = 17
  BY DEF CrtcRegs

LEMMA CallRange ==
  ASSUME TypeOK
  PROVE  call \in 1 .. 16 /\ (call <= Len(kernel_main) => call \in 1 .. 15)
  BY Length DEF TypeOK

(***************************************************************************)
(* The invariant, action by action.                                        *)
(***************************************************************************)
LEMMA IndInit == Init => IInv
<1> SUFFICES ASSUME Init PROVE IInv
  OBVIOUS
<1> USE DEF Init
<1>1. TypeOK
  <2>1. seq \in [2 .. 4 -> SUBSET (0 .. 3)] /\ gc \in [4 .. 6 -> SUBSET (0 .. 6)]
    BY DEF Sequencer, Graphics
  <2>2. crtc \in [{4, 9, 14, 15, 17} -> 0 .. 255]
    BY DEF Controller
  <2>3. /\ call \in 1 .. Len(kernel_main) + 1 /\ n \in DOMAIN CrtcRegs
        /\ \A i \in 1 .. 5 : saved[i] \subseteq 0 .. IF i <= 2 THEN 3 ELSE 6
        /\ index \in DOMAIN crtc /\ byte \in 0 .. 255 /\ keys \in 0 .. MaxKeys /\ before \in 0 .. keys
    BY VgaAssumption, Length, CrtcRegsIs, <2>2
  <2>4. font \in [0 .. 1 -> [Half -> {"bios", "8x16", "8x8", "backward"}]]
    OBVIOUS
  <2> QED
    BY <2>1, <2>2, <2>3, <2>4 DEF TypeOK
<1>2. Places /\ Interrupts
  BY DEF Places, Interrupts, InFont, InRegs
<1>3. Planes
  BY DEF Planes, TextSafe, Sequencer, Graphics, InFont, InRegs
<1>4. Registers /\ Ends
  BY DEF Registers, Ends, InRegs
<1> QED
  BY <1>1, <1>2, <1>3, <1>4 DEF IInv

LEMMA PokeKeeps == IInv /\ Poke => IInv'
<1> SUFFICES ASSUME IInv, Poke PROVE IInv'
  OBVIOUS
<1> USE DEF Poke, Return, In, IInv
<1>1. call \in 1 .. 15 /\ call \notin {1, 2, 3, 5, 8, 13, 14}
  BY CallRange, Ops
<1>2. TypeOK'
  BY <1>1, Length, VgaAssumption DEF TypeOK, PutText, registers
<1>3. Places' /\ Interrupts'
  BY <1>1 DEF Places, Interrupts, InFont, InRegs
<1>4. Planes'
  BY <1>1 DEF Planes, InFont, InRegs, registers
<1>5. Registers' /\ Ends'
  BY <1>1, CallRange DEF Registers, Ends, InRegs, registers
<1> QED
  BY <1>2, <1>3, <1>4, <1>5

LEMMA CursorMoves ==
  ASSUME TypeOK, UpdateCursor
  PROVE  /\ index' = 15 /\ crtc' \in [{4, 9, 14, 15, 17} -> 0 .. 255]
         /\ crtc'[4] = crtc[4] /\ crtc'[9] = crtc[9] /\ crtc'[17] = crtc[17]
<1>1. PICK high \in Positions, low \in Positions : crtc' = [crtc EXCEPT ![14] = high, ![15] = low]
  BY DEF UpdateCursor
<1>2. high \in 0 .. 255 /\ low \in 0 .. 255
  BY VgaAssumption
<1>3. DOMAIN crtc = {4, 9, 14, 15, 17} /\ crtc \in [{4, 9, 14, 15, 17} -> 0 .. 255]
  BY DEF TypeOK
<1> HIDE DEF TypeOK
<1> QED
  BY <1>1, <1>2, <1>3 DEF UpdateCursor

LEMMA WriteKeeps == IInv /\ Write => IInv'
<1> SUFFICES ASSUME IInv, Write PROVE IInv'
  OBVIOUS
<1> USE DEF Write, Return, In, IInv
<1>1. call \in 1 .. 15 /\ call \notin {1, 2, 3, 5, 8, 13, 14}
  BY CallRange, Ops
<1>0. /\ index' = 15 /\ crtc' \in [{4, 9, 14, 15, 17} -> 0 .. 255]
      /\ crtc'[4] = crtc[4] /\ crtc'[9] = crtc[9] /\ crtc'[17] = crtc[17]
  BY CursorMoves
<1>2. TypeOK'
  BY <1>0, <1>1, Length, VgaAssumption DEF TypeOK, PutText
<1>3. Places' /\ Interrupts'
  BY <1>1 DEF Places, Interrupts, InFont, InRegs
<1>4. Planes'
  BY <1>1 DEF Planes, InFont, InRegs
<1>5. Registers' /\ Ends'
  BY <1>0, <1>1, CallRange DEF Registers, Ends, InRegs
<1> QED
  BY <1>2, <1>3, <1>4, <1>5

LEMMA SelectFontsKeeps == IInv /\ SelectFonts => IInv'
<1> SUFFICES ASSUME IInv, SelectFonts PROVE IInv'
  OBVIOUS
<1> USE DEF SelectFonts, Return, In, IInv
<1>1. call \in 1 .. 15 /\ call \notin {1, 2, 3, 5, 8, 13, 14}
  BY CallRange, Ops
<1>0. seq' \in [2 .. 4 -> SUBSET (0 .. 3)] /\ seq'[2] = seq[2]
  BY DEF TypeOK
<1>2. TypeOK'
  BY <1>0, <1>1, Length DEF TypeOK
<1>3. Places' /\ Interrupts'
  BY <1>1 DEF Places, Interrupts, InFont, InRegs
<1>4. Planes'
  BY <1>0, <1>1 DEF Planes, InFont, InRegs
<1>5. Registers' /\ Ends'
  BY <1>1, CallRange DEF Registers, Ends, InRegs
<1> QED
  BY <1>2, <1>3, <1>4, <1>5

LEMMA StiKeeps == IInv /\ Sti => IInv'
<1> SUFFICES ASSUME IInv, Sti PROVE IInv'
  OBVIOUS
<1> USE DEF Sti, Return, In, IInv, registers
<1>1. call = 11
  BY CallRange, Ops
<1>2. TypeOK'
  BY <1>1, Length DEF TypeOK
<1>3. Places' /\ Interrupts'
  BY <1>1 DEF Places, Interrupts, InFont, InRegs
<1>4. Planes'
  BY <1>1 DEF Planes, InFont, InRegs
<1>5. Registers' /\ Ends'
  BY <1>1, CallRange DEF Registers, Ends, InRegs
<1> QED
  BY <1>2, <1>3, <1>4, <1>5

LEMMA SaveRegistersKeeps == IInv /\ SaveRegisters => IInv'
<1> SUFFICES ASSUME IInv, SaveRegisters PROVE IInv'
  OBVIOUS
<1> USE DEF SaveRegisters, Goto, In, IInv
<1>1. call \in {1, 3, 5, 8}
  BY CallRange, Ops
<1>0. /\ seq' \in [2 .. 4 -> SUBSET (0 .. 3)] /\ 2 \in seq'[4]
      /\ gc' \in [4 .. 6 -> SUBSET (0 .. 6)]
      /\ saved'[1] = seq[2] /\ saved'[5] = gc[6]
      /\ \A i \in 1 .. 5 : saved'[i] \subseteq 0 .. IF i <= 2 THEN 3 ELSE 6
  <2>1. seq' \in [2 .. 4 -> SUBSET (0 .. 3)] /\ 2 \in seq'[4]
    BY DEF TypeOK
  <2>2. gc' \in [4 .. 6 -> SUBSET (0 .. 6)]
    BY DEF TypeOK
  <2>3. /\ seq[2] \subseteq 0 .. 3 /\ seq[4] \subseteq 0 .. 3
        /\ gc[4] \subseteq 0 .. 6 /\ gc[5] \subseteq 0 .. 6 /\ gc[6] \subseteq 0 .. 6
    BY DEF TypeOK
  <2>4. saved'[1] = seq[2] /\ saved'[2] = seq[4] /\ \A i \in 3 .. 5 : saved'[i] \in {gc[4], gc[5], gc[6]}
    OBVIOUS
  <2> QED
    BY <2>1, <2>2, <2>3, <2>4
<1>2. TypeOK'
  BY <1>0, <1>1, Length DEF TypeOK
<1>3. Places' /\ Interrupts'
  BY <1>1 DEF Places, Interrupts, InFont, InRegs
<1>4. Planes'
  BY <1>0, <1>1 DEF Planes, InFont, InRegs
<1>5. Registers' /\ Ends'
  BY <1>1, CallRange DEF Registers, Ends, InRegs
<1> QED
  BY <1>2, <1>3, <1>4, <1>5

LEMMA SetPlaneKeeps == IInv /\ SetPlane => IInv'
<1> SUFFICES ASSUME IInv, SetPlane PROVE IInv'
  OBVIOUS
<1> USE DEF SetPlane, Goto, In, IInv
<1>1. call \in {1, 3, 5, 8}
  BY CallRange, Ops
<1>0. /\ seq' \in [2 .. 4 -> SUBSET (0 .. 3)] /\ seq'[4] = seq[4] /\ seq'[2] = {2}
      /\ gc' \in [4 .. 6 -> SUBSET (0 .. 6)]
  BY DEF TypeOK
<1>2. TypeOK'
  BY <1>0, <1>1, Length DEF TypeOK
<1>3. Places' /\ Interrupts'
  BY <1>1 DEF Places, Interrupts, InFont, InRegs
<1>4. Planes'
  BY <1>0, <1>1 DEF Planes, InFont, InRegs
<1>5. Registers' /\ Ends'
  BY <1>1, CallRange DEF Registers, Ends, InRegs
<1> QED
  BY <1>2, <1>3, <1>4, <1>5

LEMMA WriteGlyphsKeeps == IInv /\ WriteGlyphs => IInv'
<1> SUFFICES ASSUME IInv, WriteGlyphs PROVE IInv'
  OBVIOUS
<1> USE DEF WriteGlyphs, Goto, In, IInv, registers
<1>1. call \in {1, 3, 5, 8}
  BY CallRange, Ops
<1>0. /\ font' \in [0 .. 1 -> [Half -> {"bios", "8x16", "8x8", "backward"}]]
      /\ call = 8 => font'[0][0] = "8x8"
  <2> DEFINE f == kernel_main[call].arg
             s == kernel_main[call].slot
             g == [half \in Half |-> IF half < f.height THEN f.name ELSE font[s][half]]
  <2>1. font' = [font EXCEPT ![s] = g]
    OBVIOUS
  <2>2. /\ f.name \in {"8x16", "8x8", "backward"} /\ f.height \in {8, 16} /\ s \in 0 .. 1
        /\ call = 8 => f.name = "8x8" /\ s = 0
    BY <1>1, FontArgs
  <2>3. g \in [Half -> {"bios", "8x16", "8x8", "backward"}]
    <3>1. \A half \in Half : font[s][half] \in {"bios", "8x16", "8x8", "backward"}
      BY <2>2 DEF TypeOK
    <3> HIDE DEF f, s
    <3> QED
      BY <2>2, <3>1
  <2>4. call = 8 => g[0] = "8x8"
    BY <2>2 DEF Half
  <2>5. font \in [0 .. 1 -> [Half -> {"bios", "8x16", "8x8", "backward"}]]
    BY DEF TypeOK
  <2> HIDE DEF f, s, g
  <2> QED
    BY <2>1, <2>2, <2>3, <2>4, <2>5
<1>2. TypeOK'
  BY <1>0, <1>1, Length DEF TypeOK
<1>3. Places' /\ Interrupts'
  BY <1>1 DEF Places, Interrupts, InFont, InRegs
<1>4. Planes'
  BY <1>1 DEF Planes, InFont, InRegs
<1>5. Registers' /\ Ends'
  BY <1>0, <1>1, CallRange DEF Registers, Ends, InRegs
<1> QED
  BY <1>2, <1>3, <1>4, <1>5

LEMMA RestoreRegistersKeeps == IInv /\ RestoreRegisters => IInv'
<1> SUFFICES ASSUME IInv, RestoreRegisters PROVE IInv'
  OBVIOUS
<1> USE DEF RestoreRegisters, Return, In, IInv
<1>1. call \in {1, 3, 5, 8}
  BY CallRange, Ops
<1>0. /\ seq' \in [2 .. 4 -> SUBSET (0 .. 3)] /\ seq'[2] = saved[1]
      /\ gc' \in [4 .. 6 -> SUBSET (0 .. 6)] /\ gc'[6] = saved[5]
  <2>1. /\ saved[1] \subseteq 0 .. 3 /\ saved[2] \subseteq 0 .. 3
        /\ saved[3] \subseteq 0 .. 6 /\ saved[4] \subseteq 0 .. 6 /\ saved[5] \subseteq 0 .. 6
    BY DEF TypeOK
  <2>2. seq \in [2 .. 4 -> SUBSET (0 .. 3)] /\ gc \in [4 .. 6 -> SUBSET (0 .. 6)]
    BY DEF TypeOK
  <2> QED
    BY <2>1, <2>2
<1>2. TypeOK'
  BY <1>0, <1>1, Length DEF TypeOK
<1>3. Places' /\ Interrupts'
  BY <1>1 DEF Places, Interrupts, InFont, InRegs
<1>4. Planes'
  BY <1>0, <1>1 DEF Planes, InFont, InRegs
<1>5. Registers' /\ Ends'
  BY <1>1, CallRange DEF Registers, Ends, InRegs
<1> QED
  BY <1>2, <1>3, <1>4, <1>5

LEMMA WriteSequencerKeeps == IInv /\ WriteSequencer => IInv'
<1> SUFFICES ASSUME IInv, WriteSequencer PROVE IInv'
  OBVIOUS
<1> USE DEF WriteSequencer, Goto, In, IInv
<1> DEFINE table == kernel_main[call].arg
<1>1. call \in {2, 13, 14} /\ table \in Tables
  BY CallRange, Ops, RegsArgs
<1>0. seq' \in [2 .. 4 -> SUBSET (0 .. 3)] /\ seq'[2] = Seq2(table)
  BY <1>1, TableSafe DEF Sequencer
<1>2. TypeOK'
  BY <1>0, <1>1, Length DEF TypeOK
<1>3. Places' /\ Interrupts'
  BY <1>1 DEF Places, Interrupts, InFont, InRegs
<1>4. Planes'
  BY <1>0, <1>1 DEF Planes, InFont, InRegs
<1>5. Ends'
  BY <1>1 DEF Ends
<1>6. Registers'
  <2>1. ~Lost4' /\ ~Lost9' /\ ~Lost17' /\ ~Now(3)' /\ ~Written(3)' /\ ~Written(4)'
    BY DEF Lost4, Lost9, Lost17, LockStays, Now, Written
  <2>2. keys' - before' >= 0
    BY DEF TypeOK
  <2> QED
    BY <2>1, <2>2 DEF Registers, Count
<1> QED
  BY <1>2, <1>3, <1>4, <1>5, <1>6

\* The steps of write_regs on the CRT controller, apart from what they cost.
LEMMA CrtcStepKeeps ==
  ASSUME IInv, at \in InRegs, at' \in InRegs, call \in 1 .. 15, UNCHANGED <<call, before, keys>>,
         UNCHANGED <<seq, gc, saved, font, iflag, spoiled>>,
         n' \in DOMAIN CrtcRegs, at' \notin {"index", "data"} => n' = 1,
         index' \in {4, 9, 14, 15, 17}, byte' \in 0 .. 255,
         crtc' \in [{4, 9, 14, 15, 17} -> 0 .. 255]
  PROVE  TypeOK' /\ Places' /\ Interrupts' /\ Planes' /\ Ends'
<1> USE DEF IInv
<1>1. call \in {2, 13, 14}
  BY DEF Places
<1>2. TypeOK'
  BY DEF TypeOK, InRegs
<1>3. Places' /\ Interrupts'
  BY DEF Places, Interrupts, InFont, InRegs
<1>4. Planes'
  BY DEF Planes, InFont, InRegs
<1>5. Ends'
  BY <1>1 DEF Ends
<1> QED
  BY <1>2, <1>3, <1>4, <1>5

LEMMA CrtcDataWrites ==
  ASSUME TypeOK, NEW value \in 0 .. 255, CrtcData(value)
  PROVE  /\ crtc' \in [{4, 9, 14, 15, 17} -> 0 .. 255]
         /\ \A r \in {4, 9, 14, 15, 17} : r # index => crtc'[r] = crtc[r]
         /\ index >= 8 \/ crtc[17] < 128 => crtc'[index] = value
<1>1. index \in {4, 9, 14, 15, 17} /\ crtc \in [{4, 9, 14, 15, 17} -> 0 .. 255]
  BY DEF TypeOK
<1> HIDE DEF TypeOK
<1> QED
  BY <1>1 DEF CrtcData

LEMMA UnlockKeeps == IInv /\ Unlock => IInv'
<1> SUFFICES ASSUME IInv, Unlock PROVE IInv'
  OBVIOUS
<1>0. call \in 1 .. 15 /\ call = call' /\ keys' = keys /\ before' = before /\ n = 1 /\ n' = 1
  BY CallRange DEF IInv, Unlock, CrtcIndex, In, Goto, Places
<1>1. index \in {4, 9, 14, 15, 17} /\ crtc \in [{4, 9, 14, 15, 17} -> 0 .. 255] /\ byte \in 0 .. 255
      /\ keys \in Nat /\ before \in 0 .. keys /\ n \in DOMAIN CrtcRegs
  BY DEF IInv, TypeOK
<1>2. ~Now(3)' /\ ~Written(3)' /\ ~Written(4)' /\ ~Lost9' /\ ~Lost17' /\ ~Now(1)' /\ ~Written(1)'
  BY <1>0 DEF Unlock, CrtcIndex, Goto, Now, Written, Lost9, Lost17
<1>3. CASE CrtcIndex("unlock_index", 17, "unlock_read")
  <2>1. TypeOK' /\ Places' /\ Interrupts' /\ Planes' /\ Ends'
    BY <1>0, <1>1, <1>3, CrtcStepKeeps DEF CrtcIndex, Goto, In, InRegs
  <2>2. ~Lost4'
    BY <1>2, <1>3 DEF CrtcIndex, Goto, Lost4, LockStays
  <2>3. Registers'
    BY <1>0, <1>1, <1>2, <1>3, <2>2 DEF Registers, Count, CrtcIndex, Goto
  <2> QED
    BY <2>1, <2>3 DEF IInv
<1>4. CASE /\ In("write_regs", "unlock_read") /\ byte' = crtc[index] /\ Goto("unlock_data")
           /\ UNCHANGED <<n, registers, saved, font, iflag, spoiled>>
  <2>1. TypeOK' /\ Places' /\ Interrupts' /\ Planes' /\ Ends'
    BY <1>0, <1>1, <1>4, CrtcStepKeeps DEF registers, Goto, In, InRegs
  <2>2. Lost4' => Lost4
    BY <1>2, <1>4 DEF registers, Goto, In, Lost4, LockStays
  <2>3. at \in InRegs /\ (Lost4 => keys - before >= 1)
    BY <1>1, <1>4 DEF In, InRegs, IInv, Registers, Count
  <2>4. index \in {15, 17}
    BY <1>4 DEF IInv, Registers, In
  <2>5. Registers'
    BY <1>0, <1>1, <1>2, <1>4, <2>2, <2>3, <2>4 DEF Registers, Count, Goto, registers
  <2> QED
    BY <2>1, <2>5 DEF IInv
<1>5. CASE /\ In("write_regs", "unlock_data") /\ CrtcData(byte % 128) /\ Goto("index")
           /\ UNCHANGED <<n, seq, gc, index, byte, saved, font, iflag, spoiled>>
  <2>0. byte % 128 \in 0 .. 127 /\ byte % 128 \in 0 .. 255
    BY <1>1
  <2>1. /\ crtc' \in [{4, 9, 14, 15, 17} -> 0 .. 255]
        /\ index = 17 => crtc'[17] = byte % 128
    <3>1. TypeOK /\ CrtcData(byte % 128)
      BY <1>5 DEF IInv
    <3>2. /\ crtc' \in [{4, 9, 14, 15, 17} -> 0 .. 255]
          /\ index >= 8 \/ crtc[17] < 128 => crtc'[index] = byte % 128
      BY <2>0, <3>1, CrtcDataWrites
    <3> QED
      BY <3>2
  <2>2. TypeOK' /\ Places' /\ Interrupts' /\ Planes' /\ Ends'
    BY <1>0, <1>1, <1>5, <2>1, CrtcStepKeeps DEF Goto, In, InRegs
  <2>3. Lost4' => Lost4
    <3>1. index' = index /\ n' = 1 /\ at = "unlock_data"
      BY <1>0, <1>5 DEF In
    <3>2. index = 17 => crtc'[17] < 128
      BY <2>0, <2>1
    <3>4. crtc'[17] \in 0 .. 255
      BY <2>1
    <3>5. crtc'[17] >= 128 => index # 17
      BY <3>2, <3>4
    <3>3. LockStays' => LockStays
      BY <3>1, <3>5, <1>5 DEF LockStays, Goto
    <3> QED
      BY <1>2, <3>3 DEF Lost4
  <2>4. at \in InRegs /\ (Lost4 => keys - before >= 1)
    BY <1>1, <1>5 DEF In, InRegs, IInv, Registers, Count
  <2>5. Registers'
    BY <1>0, <1>1, <1>2, <1>5, <2>3, <2>4 DEF Registers, Count, Goto
  <2> QED
    BY <2>2, <2>5 DEF IInv
<1> QED
  BY <1>3, <1>4, <1>5 DEF Unlock

LEMMA RoutineKeeps == IInv /\ Routine => IInv'
<1> SUFFICES ASSUME IInv, Routine PROVE IInv'
  OBVIOUS
<1> USE DEF Routine, IInv
<1>1. /\ index' = 15 /\ crtc' \in [{4, 9, 14, 15, 17} -> 0 .. 255]
      /\ crtc'[4] = crtc[4] /\ crtc'[9] = crtc[9] /\ crtc'[17] = crtc[17]
  BY CursorMoves
<1>2. keys \in Nat /\ before \in 0 .. keys /\ keys' = keys + 1 /\ keys' \in 0 .. MaxKeys
  BY VgaAssumption DEF TypeOK
<1>3. TypeOK'
  BY <1>1, <1>2 DEF TypeOK, PutText
<1>4. Places' /\ Interrupts' /\ Planes'
  BY DEF Places, Interrupts, Planes
<1>5. Ends'
  BY <1>1, <1>2 DEF Ends
<1>6. at \in InRegs => Count(Lost4)' + Count(Lost9)' + Count(Lost17)'
                           <= Count(Lost4) + Count(Lost9) + Count(Lost17) + 1
  <2>1. Wrong(4)' = Wrong(4) /\ Wrong(9)' = Wrong(9) /\ Wrong(17)' = Wrong(17)
    BY <1>1 DEF Wrong
  <2>2. \A i \in 1 .. 5 : Written(i)' = Written(i) /\ Now(i)' = Now(i)
    BY DEF Written, Now
  <2>3. Lost4' => Lost4 \/ at \in {"unlock_read", "unlock_data"} \/ Now(1)
    BY <1>1, <2>1, <2>2 DEF Lost4, LockStays
  <2>4. (Lost9' => Lost9 \/ Now(2)) /\ (Lost17' => Lost17 \/ Now(5))
    BY <2>1, <2>2 DEF Lost9, Lost17
  <2>5. /\ ~(Now(1) /\ Now(2)) /\ ~(Now(1) /\ Now(5)) /\ ~(Now(2) /\ Now(5))
        /\ at \in {"unlock_read", "unlock_data"} => ~Now(1) /\ ~Now(2) /\ ~Now(5)
    BY DEF Now
  <2> QED
    BY <2>3, <2>4, <2>5 DEF Count
<1>7. Registers'
  BY <1>1, <1>2, <1>6 DEF Registers, Count
<1> QED
  BY <1>3, <1>4, <1>5, <1>7

LEMMA IndexKeeps ==
  ASSUME IInv, CrtcIndex("index", CrtcRegs[n], "data")
  PROVE  IInv'
<1> USE DEF IInv
<1>0. call \in 1 .. 15 /\ call' = call /\ keys' = keys /\ before' = before /\ n' = n
  BY CallRange DEF CrtcIndex, In, Goto
<1>1. /\ index' = CrtcRegs[n] /\ CrtcRegs[n] \in {4, 9, 14, 15, 17} /\ n \in 1 .. 5
      /\ crtc' = crtc /\ byte' = byte
  BY CrtcRegsIs DEF CrtcIndex, TypeOK
<1>2. TypeOK' /\ Places' /\ Interrupts' /\ Planes' /\ Ends'
  <2>1. crtc \in [{4, 9, 14, 15, 17} -> 0 .. 255] /\ byte \in 0 .. 255
    BY DEF TypeOK
  <2> QED
    BY <1>0, <1>1, <2>1, CrtcRegsIs, CrtcStepKeeps DEF CrtcIndex, Goto, In, InRegs
<1>3. at = "index" /\ at' = "data"
  BY DEF CrtcIndex, In, Goto
<1>4. Wrong(4)' = Wrong(4) /\ Wrong(9)' = Wrong(9) /\ Wrong(17)' = Wrong(17)
      /\ Wrong(14)' = Wrong(14) /\ Wrong(15)' = Wrong(15)
  BY <1>0, <1>1 DEF Wrong
<1>5. \A i \in 1 .. 5 : Written(i)' = Written(i)
  BY <1>0, <1>3 DEF Written
<1>6. /\ (Now(1)' => index' = 4) /\ (Now(2)' => index' = 9) /\ (Now(3)' => index' = 14)
      /\ (Now(5)' => index' = 17)
  BY <1>0, <1>1, CrtcRegsIs DEF Now
<1>7. (Lost4' => Lost4) /\ (Lost9' => Lost9) /\ (Lost17' => Lost17)
  BY <1>0, <1>1, <1>3, <1>4, <1>5, <1>6, CrtcRegsIs DEF Lost4, Lost9, Lost17, LockStays, Now
<1>8. keys \in Nat /\ before \in 0 .. keys
  BY DEF TypeOK
<1>9. Registers'
  <2>1. (Count(Lost4) + Count(Lost9) + Count(Lost17) <= keys - before)'
    BY <1>0, <1>3, <1>7, <1>8 DEF Registers, Count, InRegs
  <2>2. (keys = before => /\ Now(3) => index = 14
                          /\ Written(3) => ~Wrong(14)
                          /\ Written(4) => ~Wrong(15))'
    <3>1. keys = before => (Written(3) => ~Wrong(14)) /\ (Written(4) => ~Wrong(15))
      BY <1>3 DEF Registers, InRegs
    <3> QED
      BY <1>0, <1>4, <1>5, <1>6, <3>1
  <2>3. index' \in {CrtcRegs[n'], 15} /\ at' \notin {"unlock_read", "unlock_data"}
    BY <1>0, <1>1, <1>3
  <2> QED
    BY <2>1, <2>2, <2>3 DEF Registers
<1> QED
  BY <1>2, <1>9

WriteData ==
    /\ In("write_regs", "data")
    /\ CrtcData(Unlocked(kernel_main[call].arg)[CrtcRegs[n]])
    /\ IF n < Len(CrtcRegs) THEN n' = n + 1 /\ Goto("index") ELSE n' = 1 /\ Goto("graphics")
    /\ UNCHANGED <<seq, gc, index, byte, saved, font, iflag, spoiled>>

LEMMA DataKeeps ==
  ASSUME IInv, WriteData
  PROVE  IInv'
<1> USE DEF IInv
<1> DEFINE u == Unlocked(kernel_main[call].arg)
<1>0. call \in 1 .. 15 /\ call' = call /\ keys' = keys /\ before' = before /\ index' = index /\ byte' = byte
  BY CallRange DEF WriteData, In, Goto
<1>1. /\ n \in 1 .. 5 /\ index \in {CrtcRegs[n], 15} /\ at = "data"
      /\ n < 5 => n' = n + 1 /\ at' = "index"
      /\ n = 5 => n' = 1 /\ at' = "graphics"
      /\ n' \in 1 .. 5
  BY CrtcRegsIs DEF WriteData, In, Goto, TypeOK, Registers
<1>2. u \in [{4, 9, 14, 15, 17} -> 0 .. 255] /\ CrtcRegs[n] \in {4, 9, 14, 15, 17}
  <2>1. call \in {2, 13, 14}
    BY <1>1 DEF Places, InRegs
  <2>2. kernel_main[call].arg \in Tables
    BY <2>1, RegsArgs
  <2>3. CrtcRegs[n] \in {4, 9, 14, 15, 17}
    BY <1>1, CrtcRegsIs
  <2> QED
    BY <2>2, <2>3, UnlockedTables
<1>3. /\ crtc' \in [{4, 9, 14, 15, 17} -> 0 .. 255]
      /\ \A r \in {4, 9, 14, 15, 17} : r # index => crtc'[r] = crtc[r]
      /\ index >= 8 \/ crtc[17] < 128 => crtc'[index] = u[CrtcRegs[n]]
  <2>1. TypeOK /\ CrtcData(u[CrtcRegs[n]])
    BY DEF WriteData
  <2>2. u[CrtcRegs[n]] \in 0 .. 255
    BY <1>2
  <2> HIDE DEF u
  <2> QED
    BY <2>1, <2>2, CrtcDataWrites
<1>4. index \in {4, 9, 14, 15, 17} /\ byte \in 0 .. 255
  BY DEF TypeOK
<1>5. TypeOK' /\ Places' /\ Interrupts' /\ Planes' /\ Ends'
  <2>1. at \in InRegs /\ at' \in InRegs /\ (at' \notin {"index", "data"} => n' = 1)
        /\ n' \in DOMAIN CrtcRegs
    BY <1>1, CrtcRegsIs DEF InRegs
  <2>2. UNCHANGED <<call, before, keys>> /\ UNCHANGED <<seq, gc, saved, font, iflag, spoiled>>
    BY <1>0 DEF WriteData
  <2> QED
    BY <1>0, <1>3, <1>4, <2>1, <2>2, CrtcStepKeeps
<1>6. /\ Wrong(4) <=> crtc[4] # u[4]
      /\ Wrong(9) <=> crtc[9] # u[9]
      /\ Wrong(14) <=> crtc[14] # u[14]
      /\ Wrong(15) <=> crtc[15] # u[15]
      /\ Wrong(17) <=> crtc[17] # u[17]
      /\ Wrong(4)' <=> crtc'[4] # u[4]
      /\ Wrong(9)' <=> crtc'[9] # u[9]
      /\ Wrong(14)' <=> crtc'[14] # u[14]
      /\ Wrong(15)' <=> crtc'[15] # u[15]
      /\ Wrong(17)' <=> crtc'[17] # u[17]
  BY <1>0 DEF Wrong
<1>7. keys \in Nat /\ before \in 0 .. keys /\ at \in InRegs /\ crtc[17] \in 0 .. 255
  BY <1>1 DEF TypeOK, InRegs
<1> HIDE DEF u
<1>8. (Lost4' => Lost4) /\ (Lost9' => Lost9) /\ (Lost17' => Lost17)
  <2>1. CASE n = 1
    <3>1. ~Lost9' /\ ~Lost17' /\ ~LockStays' /\ ~Now(1)'
      BY <1>1, <2>1 DEF Lost9, Lost17, LockStays, Now, Written
    <3>2. index = 4 /\ crtc[17] < 128 => ~Wrong(4)'
      BY <1>3, <1>6, <2>1, CrtcRegsIs
    <3>3. Lost4' => Lost4
      BY <1>1, <1>7, <2>1, <3>1, <3>2 DEF Lost4, LockStays, Now
    <3> QED
      BY <3>1, <3>3
  <2>2. CASE n > 1
    <3>1. index \in {9, 14, 15, 17} /\ crtc'[4] = crtc[4] /\ crtc'[index] = u[CrtcRegs[n]]
      BY <1>1, <1>3, <2>2, CrtcRegsIs
    <3>2. Lost4' => Lost4
      BY <1>1, <1>6, <2>2, <3>1 DEF Lost4, LockStays, Now, Written
    <3>3. n = 2 /\ index = 9 => ~Wrong(9)'
      BY <1>6, <3>1, CrtcRegsIs
    <3>4. n > 2 => crtc'[9] = crtc[9]
      BY <1>1, <1>3, CrtcRegsIs
    <3>5. Lost9' => Lost9
      BY <1>1, <1>6, <2>2, <3>3, <3>4 DEF Lost9, Now, Written
    <3>6. n = 5 /\ index = 17 => ~Wrong(17)'
      BY <1>6, <3>1, CrtcRegsIs
    <3>7. Lost17' => Lost17
      BY <1>1, <1>6, <3>6 DEF Lost17, Now, Written
    <3> QED
      BY <3>2, <3>5, <3>7
  <2> QED
    BY <1>1, <2>1, <2>2
<1>9. keys = before => ~Lost4 /\ ~Lost9 /\ ~Lost17
  BY <1>7 DEF Registers, Count
<1>10. ASSUME keys = before
       PROVE  ~Now(3)' /\ (Written(3)' => ~Wrong(14)') /\ (Written(4)' => ~Wrong(15)')
  <2>1. /\ n = 5 => index = 17
        /\ n = 3 => index = 14
        /\ n > 3 => ~Wrong(14)
        /\ n > 4 => ~Wrong(15)
    BY <1>1, <1>7, <1>9, <1>10 DEF Registers, Lost17, Now, Written
  <2>2. (n = 4 => index = 15) /\ (n > 2 => crtc'[index] = u[CrtcRegs[n]])
    BY <1>1, <1>3, CrtcRegsIs
  <2>3. ~Now(3)' /\ (Written(3)' => n >= 3) /\ (Written(4)' => n >= 4)
    BY <1>1 DEF Now, Written
  <2>4. n = 3 => ~Wrong(14)'
    BY <1>6, <2>1, <2>2, CrtcRegsIs
  <2>5. n > 3 => ~Wrong(14)'
    BY <1>1, <1>3, <1>6, <2>1, <2>2, CrtcRegsIs
  <2>6. n = 4 => ~Wrong(15)'
    BY <1>6, <2>2, CrtcRegsIs
  <2>7. n = 5 => ~Wrong(15)'
    BY <1>3, <1>6, <2>1, CrtcRegsIs
  <2> QED
    BY <1>1, <2>3, <2>4, <2>5, <2>6, <2>7
<1>11. Registers'
  BY <1>0, <1>1, <1>7, <1>8, <1>10 DEF Registers, Count
<1> QED
  BY <1>5, <1>11

LEMMA HeightIsSet ==
  ASSUME IInv, call = 14, at = "graphics", keys = 0
  PROVE  crtc[9] = 71
<1>1. before \in 0 .. keys /\ keys \in Int
  BY DEF IInv, TypeOK
<1>2. before \in Int /\ before >= 0 /\ before <= keys
  BY <1>1
<1>3. keys = 0
  OBVIOUS
<1>4. before = 0
  BY <1>2, <1>3
<1>5. keys - before = 0
  BY <1>3, <1>4
<1>6. ~Lost9
  BY <1>5 DEF IInv, Registers, Count, InRegs
<1>7. ~Wrong(9)
  BY <1>6 DEF Lost9, Written
<1> QED
  BY <1>7, RegsArgs, UnlockedTables DEF Wrong

LEMMA WriteGraphicsKeeps == IInv /\ WriteGraphics => IInv'
<1> SUFFICES ASSUME IInv, WriteGraphics PROVE IInv'
  OBVIOUS
<1> USE DEF WriteGraphics, Return, In, IInv
<1> DEFINE table == kernel_main[call].arg
<1>1. call \in {2, 13, 14} /\ table \in Tables
  BY CallRange, Ops, RegsArgs
<1>0. gc' \in [4 .. 6 -> SUBSET (0 .. 6)] /\ gc'[6] = Gc6(table)
  BY <1>1, TableSafe DEF Graphics
<1>2. TypeOK'
  BY <1>0, <1>1, Length DEF TypeOK
<1>3. Places' /\ Interrupts'
  BY <1>1 DEF Places, Interrupts, InFont, InRegs
<1>4. Planes'
  BY <1>0, <1>1, TableSafe DEF Planes, InFont, InRegs
<1>5. Registers'
  BY DEF Registers, InRegs
<1>6. Ends'
  <2>1. call = 14 /\ keys = 0 => crtc[9] = 71
    BY HeightIsSet
  <2> QED
    BY <1>1, <2>1 DEF Ends
<1> QED
  BY <1>2, <1>3, <1>4, <1>5, <1>6

LEMMA IndNext == IInv /\ [Next]_vars => IInv'
<1> SUFFICES ASSUME IInv, [Next]_vars PROVE IInv'
  OBVIOUS
<1>1. CASE WriteCrtc
  <2>1. CASE CrtcIndex("index", CrtcRegs[n], "data")
    BY <2>1, IndexKeeps
  <2>2. CASE WriteData
    BY <2>2, DataKeeps
  <2> QED
    BY <1>1, <2>1, <2>2 DEF WriteCrtc, WriteData
<1>2. CASE UNCHANGED vars
  BY <1>2 DEF vars, registers, IInv, TypeOK, Places, Interrupts, Planes, Registers, Ends, Lost4, Lost9,
              Lost17, LockStays, Now, Written, Wrong, Count
<1> QED
  BY <1>1, <1>2, PokeKeeps, WriteKeeps, SelectFontsKeeps, StiKeeps, SaveRegistersKeeps, SetPlaneKeeps,
     WriteGlyphsKeeps, RestoreRegistersKeeps, WriteSequencerKeeps, UnlockKeeps, WriteGraphicsKeeps,
     RoutineKeeps DEF Next

\* Where text and glyphs go at each place of each call, what a text has cost
\* write_regs, and what has been set for good.
THEOREM VgaInvariant == Spec => []IInv
  BY IndInit, IndNext, PTL DEF Spec

(***************************************************************************)
(* The properties.                                                         *)
(***************************************************************************)
\* Without a text in between, the kernel ends up in a text mode of 8 lines to
\* a character, as high as its 8x8 font and as many as fill 50 rows; whatever
\* comes in between, every variable has its type.
THEOREM ScreenFits == Spec => []ScreenFitsTerminal
<1>1. IInv => ScreenFitsTerminal
  <2> SUFFICES ASSUME IInv PROVE ScreenFitsTerminal
    OBVIOUS
  <2> DEFINE lines == (crtc[9] % 32) + 1
             shown(s) == {font[s][half] : half \in {h \in Half : h < lines}}
  <2>1. TypeOK
    BY DEF IInv
  <2>2. ASSUME call > Len(kernel_main), keys = 0
        PROVE  lines = 400 \div VGA_HEIGHT /\ shown(0) = {"8x8"}
    <3>1. crtc[9] = 71 /\ font[0][0] = "8x8"
      BY <2>1, <2>2, Length DEF IInv, Ends, TypeOK
    <3>2. lines = 8 /\ 400 \div VGA_HEIGHT = 8
      BY <3>1 DEF VGA_HEIGHT
    <3>3. {h \in Half : h < lines} = {0}
      BY <3>2 DEF Half
    <3> QED
      BY <3>1, <3>2, <3>3
  <2> QED
    BY <2>1, <2>2 DEF ScreenFitsTerminal
<1> QED
  BY <1>1, VgaInvariant, PTL

LEMMA StepPlanesApart ==
  ASSUME IInv, [Next]_vars, ~spoiled, spoiled'
  PROVE  keys' > keys /\ kernel_main[call].op = "write_regs" /\ at # "enter"
<1> USE DEF IInv
<1>1. CASE PutText /\ at = "enter"
  BY <1>1 DEF PutText, MapsText, Planes, TextSafe
<1>2. CASE Poke \/ Write
  BY <1>1, <1>2 DEF Poke, Write, In
<1>3. CASE WriteGlyphs
  BY <1>3 DEF WriteGlyphs, Planes, In
<1>4. CASE Routine
  <2>1. keys' > keys /\ PutText /\ call > 11
    BY <1>4 DEF Routine, Interrupts, TypeOK
  <2>2. at \in InRegs
    BY <1>1, <2>1 DEF Places, InFont, InRegs, TypeOK
  <2>3. kernel_main[call].op = "write_regs"
    BY <2>2, Calls DEF Places, WriteRegs
  <2> QED
    BY <2>1, <2>2, <2>3 DEF InRegs
<1>5. CASE SelectFonts \/ Sti \/ SaveRegisters \/ SetPlane \/ RestoreRegisters
           \/ WriteSequencer \/ Unlock \/ WriteCrtc \/ WriteGraphics \/ UNCHANGED vars
  BY <1>5 DEF SelectFonts, Sti, SaveRegisters, SetPlane, RestoreRegisters, WriteSequencer, Unlock,
              CrtcIndex, WriteCrtc, WriteGraphics, vars
<1> QED
  BY <1>2, <1>3, <1>4, <1>5 DEF Next

\* Text never goes to the fonts nor glyphs to the text, but for a text printed
\* by keyb or mouse in the middle of a write_regs.
THEOREM TextAndFontsApart == Spec => PlanesApart
<1>1. IInv /\ [Next]_vars =>
          [~spoiled /\ spoiled' => keys' > keys /\ kernel_main[call].op = "write_regs" /\ at # "enter"]_vars
  BY StepPlanesApart
<1> QED
  BY <1>1, VgaInvariant, PTL DEF Spec, PlanesApart

\* At the last step of write_regs.
LEMMA WrongAreCounted ==
  ASSUME IInv, In("write_regs", "graphics")
  PROVE  LET wrong == {r \in DOMAIN crtc : crtc[r] # Unlocked(kernel_main[call].arg)[r]}
         IN IF keys = before THEN wrong = {} ELSE Cardinality(wrong \ {14, 15}) <= keys - before
<1> DEFINE wrong == {r \in DOMAIN crtc : crtc[r] # Unlocked(kernel_main[call].arg)[r]}
           others == wrong \ {14, 15}
           One(r) == IF r \in others THEN {r} ELSE {}
<1>1. /\ at = "graphics" /\ at \in InRegs /\ DOMAIN crtc = {4, 9, 14, 15, 17}
      /\ keys \in Nat /\ before \in 0 .. keys
  BY DEF In, IInv, TypeOK, InRegs
<1>2. /\ Wrong(4) <=> 4 \in others
      /\ Wrong(9) <=> 9 \in others
      /\ Wrong(17) <=> 17 \in others
      /\ 14 \in wrong <=> Wrong(14)
      /\ 15 \in wrong <=> Wrong(15)
      /\ wrong \subseteq {4, 9, 14, 15, 17}
  BY <1>1 DEF Wrong
<1>3. (Wrong(4) => Lost4) /\ (Wrong(9) => Lost9) /\ (Wrong(17) => Lost17)
  BY <1>1 DEF Lost4, Lost9, Lost17, Written
<1>4. Count(Lost4) + Count(Lost9) + Count(Lost17) <= keys - before
  BY <1>1 DEF IInv, Registers
<1> HIDE DEF wrong
<1>5. ASSUME keys = before PROVE wrong = {}
  <2>1. ~Lost4 /\ ~Lost9 /\ ~Lost17
    BY <1>1, <1>4, <1>5 DEF Count
  <2>2. ~Wrong(14) /\ ~Wrong(15)
    BY <1>1, <1>5 DEF IInv, Registers, Written
  <2> QED
    BY <1>2, <1>3, <2>1, <2>2
<1>6. /\ Cardinality(others) \in Nat
      /\ Cardinality(others) <= Count(Wrong(4)) + Count(Wrong(9)) + Count(Wrong(17))
  <2>1. \A r : IsFiniteSet(One(r)) /\ Cardinality(One(r)) = IF r \in others THEN 1 ELSE 0
    BY FS_EmptySet, FS_Singleton
  <2> HIDE DEF One
  <2>2. ASSUME NEW S, NEW T, IsFiniteSet(S), IsFiniteSet(T)
        PROVE  /\ IsFiniteSet(S \cup T)
               /\ Cardinality(S \cup T) \in Nat
               /\ Cardinality(S \cup T) <= Cardinality(S) + Cardinality(T)
    <3>1. /\ IsFiniteSet(S \cup T)
          /\ Cardinality(S \cup T) = Cardinality(S) + Cardinality(T) - Cardinality(S \cap T)
      BY <2>2, FS_Union
    <3>2. IsFiniteSet(S \cap T)
      BY <2>2, FS_Intersection
    <3>3. Cardinality(S) \in Nat /\ Cardinality(T) \in Nat /\ Cardinality(S \cap T) \in Nat
      BY <2>2, <3>2, FS_CardinalityType
    <3>4. Cardinality(S \cup T) \in Nat
      BY <3>1, FS_CardinalityType
    <3> QED
      BY <3>1, <3>3, <3>4
  <2>3. others = (One(4) \cup One(9)) \cup One(17)
    BY <1>2 DEF One
  <2>4. /\ IsFiniteSet(One(4)) /\ IsFiniteSet(One(9)) /\ IsFiniteSet(One(17))
        /\ Cardinality(One(4)) = Count(Wrong(4))
        /\ Cardinality(One(9)) = Count(Wrong(9))
        /\ Cardinality(One(17)) = Count(Wrong(17))
    BY <1>2, <2>1 DEF Count
  <2>5. /\ IsFiniteSet(One(4) \cup One(9)) /\ Cardinality(One(4) \cup One(9)) \in Nat
        /\ Cardinality(One(4) \cup One(9)) <= Count(Wrong(4)) + Count(Wrong(9))
    BY <2>2, <2>4
  <2>6. /\ Cardinality((One(4) \cup One(9)) \cup One(17)) \in Nat
        /\ Cardinality((One(4) \cup One(9)) \cup One(17))
               <= Cardinality(One(4) \cup One(9)) + Count(Wrong(17))
    BY <2>2, <2>4, <2>5
  <2>7. Cardinality(others) \in Nat
    BY <2>3, <2>6
  <2>8. Count(Wrong(4)) \in Nat /\ Count(Wrong(9)) \in Nat /\ Count(Wrong(17)) \in Nat
    BY DEF Count
  <2> HIDE DEF others
  <2> QED
    BY <2>3, <2>5, <2>6, <2>7, <2>8
<1> HIDE DEF others
<1>7. Cardinality(others) <= keys - before
  BY <1>1, <1>3, <1>4, <1>6 DEF Count
<1> QED
  BY <1>5, <1>7 DEF wrong, others

\* A text of keyb or mouse in the middle of a write_regs costs it one register
\* besides the cursor's at the most, and without one all of them arrive.
THEOREM RegistersArrive == Spec => OneTextOneRegister
<1>1. IInv /\ [Next]_vars =>
          [In("write_regs", "graphics") /\ call' # call =>
              LET wrong == {r \in DOMAIN crtc : crtc[r] # Unlocked(kernel_main[call].arg)[r]}
              IN IF keys = before THEN wrong = {}
                 ELSE Cardinality(wrong \ {14, 15}) <= keys - before]_vars
  BY WrongAreCounted
<1> QED
  BY <1>1, VgaInvariant, PTL DEF Spec, OneTextOneRegister
=============================================================================
