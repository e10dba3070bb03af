-------------------------------- MODULE Vga --------------------------------
(***************************************************************************)
(* The video modes and fonts of src/drivers/vga.cc, in the order in which  *)
(* kernel_main sets them: two fonts and a text mode before interrupts are  *)
(* enabled, then a graphics mode and another text mode with interrupts on, *)
(* when keyb or mouse can come in between and print a text, whose          *)
(* update_cursor uses the same index register of the CRT controller.       *)
(*                                                                         *)
(* Of the registers, those are modelled that say where memory is written,  *)
(* one of the CRT controller for those that its lock protects (4: 5 has    *)
(* different values too), the character height (9), the cursor (14, 15)    *)
(* and the lock (17).  Registers of the sequencer and the graphics         *)
(* controller are sets of bits.  A font takes one of two slots in plane 2, *)
(* which have 32 bytes for a glyph: a slot is known by the font the upper  *)
(* and the lower half of a 16-line glyph are of.                           *)
(***************************************************************************)
EXTENDS Integers, Sequences, FiniteSets

CONSTANTS
    MaxKeys,        \* bound on the texts keyb and mouse print
    Positions       \* bytes of a cursor position

VGA_HEIGHT == 50    \* rows of the terminal

ASSUME VgaAssumption == MaxKeys \in Nat /\ Positions \subseteq 0 .. 255

(***************************************************************************)
(* The tables g_80x25_text, g_320x200x256_modex and g_80x50_text.          *)
(***************************************************************************)
Seq2(table) == IF table = "modex" THEN 0 .. 3 ELSE {0, 1}
Seq4(table) == IF table = "modex" THEN {1, 2} ELSE {1}
Gc5(table) == IF table = "modex" THEN {6} ELSE {4}
Gc6(table) == IF table = "modex" THEN {0, 2} ELSE {1, 2, 3}

\* These registers of the sequencer, of the graphics controller and of the CRT
\* controller, as a table gives them.
Sequencer(planes, fonts, mode) == [r \in 2 .. 4 |-> <<planes, fonts, mode>>[r - 1]]
Graphics(plane, mode, misc) == [r \in 4 .. 6 |-> <<plane, mode, misc>>[r - 3]]
CrtcRegs == <<4, 9, 14, 15, 17>>
Controller(retrace, height, high, low, lock) ==
    [r \in {4, 9, 14, 15, 17} |->
        CASE r = 4 -> retrace [] r = 9 -> height [] r = 14 -> high [] r = 15 -> low [] r = 17 -> lock]
Crtc(table) ==
    CASE table = "80x25" -> Controller(85, 79, 0, 80, 14)
      [] table = "modex" -> Controller(84, 65, 0, 0, 14)
      [] table = "80x50" -> Controller(85, 71, 1, 64, 142)

(***************************************************************************)
(* The fonts of vga_font.h: the lines of a glyph.                          *)
(***************************************************************************)
g_8x16_font == [name |-> "8x16", height |-> 16]
g_8x8_font == [name |-> "8x8", height |-> 8]
\* Each byte of a font mirrored.
reverse_bits(f) == [f EXCEPT !.name = "backward"]

Half == {0, 8}      \* the first line of each half of a glyph

(***************************************************************************)
(* The calls of kernel_main, font512 and set_text_mode taken apart.        *)
(***************************************************************************)
WriteRegs(table) == [op |-> "write_regs", arg |-> table]
WriteFont(f, slot) == [op |-> "write_font", arg |-> f, slot |-> slot]
PokeText == [op |-> "poke"]
WriteString == [op |-> "string"]
ChooseFonts == [op |-> "select_fonts"]
EnableInterrupts == [op |-> "sti"]

set_text_mode_0 == <<WriteRegs("80x25"), WriteFont(g_8x16_font, 0), PokeText>>
font512 == set_text_mode_0 \o <<WriteFont(reverse_bits(g_8x16_font), 1), ChooseFonts, PokeText>>
\* Mutant: font512, with the font of set_text_mode, comes last.
kernel_main_FontLost ==
    <<WriteFont(g_8x16_font, 0), WriteFont(g_8x8_font, 0)>> \o font512
        \o <<PokeText, WriteString, EnableInterrupts, WriteString,
             WriteRegs("modex"), WriteRegs("80x50"), WriteString>>
kernel_main ==
    <<WriteFont(g_8x16_font, 0)>> \o font512
        \o <<WriteFont(g_8x8_font, 0), PokeText, WriteString, EnableInterrupts, WriteString,
             WriteRegs("modex"), WriteRegs("80x50"), WriteString>>

VARIABLES
    call,       \* which of these calls is next
    at,         \* where it is
    n,          \* the register write_regs is at
    seq, gc, crtc, index,
    byte,       \* what write_regs read from the CRT controller
    saved,      \* write_font's seq2, seq4, gc4, gc5 and gc6
    font,       \* the font each half of the glyphs in each slot is of
    iflag,
    before,     \* history: keys when the call began
    spoiled,    \* history: text went to the font's plane or glyphs to the text's
    keys        \* history: the texts keyb and mouse printed

registers == <<seq, gc, crtc, index>>
vars == <<call, at, n, registers, byte, saved, font, iflag, before, spoiled, keys>>

\* The machine starts in a text mode of the BIOS, the CRT controller locked.
Init ==
    /\ call = 1 /\ at = "enter" /\ n = 1
    /\ seq = Sequencer({0, 1}, {}, {1})
    /\ gc = Graphics({}, {4}, {1, 2, 3})
    /\ crtc = Controller(95, 79, 0, 0, 142)
    /\ index = 4
    /\ byte = 0 /\ saved = <<{}, {}, {}, {}, {}>>
    /\ font = [s \in 0 .. 1 |-> [half \in Half |-> "bios"]]
    /\ iflag = 0
    /\ keys = 0 /\ before = keys /\ spoiled = FALSE

In(op, place) ==
    call <= Len(kernel_main) /\ kernel_main[call].op = op /\ at = place
Return ==
    /\ call' = call + 1 /\ at' = "enter"
    /\ keys' = keys
    /\ before' = keys
Goto(place) == at' = place /\ UNCHANGED <<call, before, keys>>

(***************************************************************************)
(* Memory.  Writes at 0xB8000 arrive when the graphics controller maps it, *)
(* and in the planes of the sequencer's mask.                              *)
(***************************************************************************)
MapsText == {2, 3} \subseteq gc[6] \/ {2, 3} \cap gc[6] = {}
PutText == spoiled' = (spoiled \/ (MapsText /\ 2 \in seq[2]))

UpdateCursor ==
    /\ index' = 15
    /\ \E high, low \in Positions : crtc' = [crtc EXCEPT ![14] = high, ![15] = low]

\* The messages of font512, the attributes of set_text_mode, terminal_initialize.
Poke ==
    /\ In("poke", "enter")
    /\ PutText
    /\ UNCHANGED <<n, registers, byte, saved, font, iflag>>
    /\ Return

\* The kernel's lines on the terminal.
Write ==
    /\ In("string", "enter")
    /\ PutText
    /\ UpdateCursor
    /\ UNCHANGED <<n, seq, gc, byte, saved, font, iflag>>
    /\ Return

(***************************************************************************)
(* write_font, and the same lines in font512.                              *)
(***************************************************************************)
\* Save, and turn off even-odd addressing.
SaveRegisters ==
    /\ In("write_font", "enter")
    /\ saved' = <<seq[2], seq[4], gc[4], gc[5], gc[6]>>
    /\ seq' = [seq EXCEPT ![4] = @ \union {2}]
    /\ gc' = [gc EXCEPT ![5] = @ \ {4}, ![6] = @ \ {1}]
    /\ Goto("set_plane")
    /\ UNCHANGED <<n, crtc, index, byte, font, iflag, spoiled>>

\* Mutant: only the plane to be read is set.
SetPlane_ReadOnly ==
    /\ In("write_font", "set_plane")
    /\ gc' = [gc EXCEPT ![4] = {1}]
    /\ Goto("glyphs")
    /\ UNCHANGED <<n, seq, crtc, index, byte, saved, font, iflag, spoiled>>
\* set_plane(2)
SetPlane ==
    /\ In("write_font", "set_plane")
    /\ gc' = [gc EXCEPT ![4] = {1}]
    /\ seq' = [seq EXCEPT ![2] = {2}]
    /\ Goto("glyphs")
    /\ UNCHANGED <<n, crtc, index, byte, saved, font, iflag, spoiled>>

\* A font of 8 lines leaves the lower half of the glyphs as it is.
WriteGlyphs ==
    /\ In("write_font", "glyphs")
    /\ LET f == kernel_main[call].arg
       IN font' = [font EXCEPT ![kernel_main[call].slot] =
                      [half \in Half |-> IF half < f.height THEN f.name ELSE @[half]]]
    /\ spoiled' = (spoiled \/ seq[2] # {2} \/ 2 \notin seq[4])
    /\ Goto("restore")
    /\ UNCHANGED <<n, registers, byte, saved, iflag>>

RestoreRegisters ==
    /\ In("write_font", "restore")
    /\ seq' = [seq EXCEPT ![2] = saved[1], ![4] = saved[2]]
    /\ gc' = [gc EXCEPT ![4] = saved[3], ![5] = saved[4], ![6] = saved[5]]
    /\ UNCHANGED <<n, crtc, index, byte, saved, font, iflag, spoiled>>
    /\ Return

\* "use it to select characters 256-511 in the second font"
SelectFonts ==
    /\ In("select_fonts", "enter")
    /\ seq' = [seq EXCEPT ![3] = {2}]
    /\ UNCHANGED <<n, gc, crtc, index, byte, saved, font, iflag, spoiled>>
    /\ Return

\* callConstructors enables interrupts.
Sti ==
    /\ In("sti", "enter")
    /\ iflag' = 1
    /\ UNCHANGED <<n, registers, byte, saved, font, spoiled>>
    /\ Return

(***************************************************************************)
(* write_regs.                                                             *)
(***************************************************************************)
\* The data port of the CRT controller: locked registers keep their values.
CrtcData(value) ==
    crtc' = IF index < 8 /\ crtc[17] >= 128 THEN crtc ELSE [crtc EXCEPT ![index] = value]

WriteSequencer ==
    /\ In("write_regs", "enter")
    /\ seq' = Sequencer(Seq2(kernel_main[call].arg), {}, Seq4(kernel_main[call].arg))
    /\ Goto("unlock_index")
    /\ UNCHANGED <<n, gc, crtc, index, byte, saved, font, iflag, spoiled>>

CrtcIndex(place, r, next) ==
    /\ In("write_regs", place)
    /\ index' = r
    /\ Goto(next)
    /\ UNCHANGED <<n, seq, gc, crtc, byte, saved, font, iflag, spoiled>>

\* Mutant: the lock is not opened.
Unlock_Forgotten ==
    /\ In("write_regs", "unlock_index")
    /\ Goto("index")
    /\ UNCHANGED <<n, registers, byte, saved, font, iflag, spoiled>>
\* What comes before, the same with register 3, is left out: 3 is not kept, and a
\* text in between sends the byte to register 15, the cursor's (vga.cc:49-50).
Unlock ==
    \/ CrtcIndex("unlock_index", 17, "unlock_read")
    \/ /\ In("write_regs", "unlock_read")
       /\ byte' = crtc[index]
       /\ Goto("unlock_data")
       /\ UNCHANGED <<n, registers, saved, font, iflag, spoiled>>
    \/ /\ In("write_regs", "unlock_data")
       /\ CrtcData(byte % 128)
       /\ Goto("index")
       /\ UNCHANGED <<n, seq, gc, index, byte, saved, font, iflag, spoiled>>

\* "make sure they remain unlocked"
Unlocked(table) == [Crtc(table) EXCEPT ![17] = @ % 128]

WriteCrtc ==
    \/ CrtcIndex("index", CrtcRegs[n], "data")
    \/ /\ In("write_regs", "data")
       /\ CrtcData(Unlocked(kernel_main[call].arg)[CrtcRegs[n]])
       /\ IF n < Len(CrtcRegs) THEN n' = n + 1 /\ Goto("index") ELSE n' = 1 /\ Goto("graphics")
       /\ UNCHANGED <<seq, gc, index, byte, saved, font, iflag, spoiled>>

WriteGraphics ==
    /\ In("write_regs", "graphics")
    /\ gc' = Graphics({}, Gc5(kernel_main[call].arg), Gc6(kernel_main[call].arg))
    /\ UNCHANGED <<n, seq, crtc, index, byte, saved, font, iflag, spoiled>>
    /\ Return

(***************************************************************************)
(* keyb and mouse: a text, with its update_cursor.                         *)
(***************************************************************************)
Routine ==
    /\ iflag = 1
    /\ keys < MaxKeys
    /\ keys' = keys + 1
    /\ PutText
    /\ UpdateCursor
    /\ UNCHANGED <<call, at, n, seq, gc, byte, saved, font, iflag, before>>

Next ==
    \/ Poke \/ Write \/ SelectFonts \/ Sti
    \/ SaveRegisters \/ SetPlane \/ WriteGlyphs \/ RestoreRegisters
    \/ WriteSequencer \/ Unlock \/ WriteCrtc \/ WriteGraphics
    \/ Routine

Spec == Init /\ [][Next]_vars

(***************************************************************************)
(* Types.                                                                  *)
(***************************************************************************)
TypeOK ==
    /\ call \in 1 .. Len(kernel_main) + 1
    /\ at \in {"enter", "set_plane", "glyphs", "restore", "unlock_index", "unlock_read",
               "unlock_data", "index", "data", "graphics"}
    /\ n \in DOMAIN CrtcRegs
    /\ seq \in [2 .. 4 -> SUBSET (0 .. 3)]
    /\ gc \in [4 .. 6 -> SUBSET (0 .. 6)]
    /\ crtc \in [{4, 9, 14, 15, 17} -> 0 .. 255]
    /\ index \in DOMAIN crtc /\ byte \in 0 .. 255
    /\ \A i \in 1 .. 5 : saved[i] \subseteq 0 .. IF i <= 2 THEN 3 ELSE 6
    /\ font \in [0 .. 1 -> [Half -> {"bios", "8x16", "8x8", "backward"}]]
    /\ iflag \in {0, 1} /\ spoiled \in BOOLEAN
    /\ keys \in 0 .. MaxKeys /\ before \in 0 .. keys

(***************************************************************************)
(* Properties.                                                             *)
(***************************************************************************)
\* Text is never written into the plane of the fonts, nor glyphs into the
\* planes of the text; only a text that keyb or mouse prints in the middle of a
\* write_regs can do it, between its sequencer and its graphics registers.
PlanesApart ==
    [][~spoiled /\ spoiled' => keys' > keys /\ kernel_main[call].op = "write_regs" /\ at # "enter"]_vars

\* write_regs and update_cursor share the CRT controller's index register.  A
\* text costs write_regs one register at the most besides the cursor's, which
\* keeps another mode's value then; without one all of them arrive, also if the
\* controller was locked (vga.cc:48-62, tty.cc:109-117).
OneTextOneRegister ==
    [][In("write_regs", "graphics") /\ call' # call =>
          LET wrong == {r \in DOMAIN crtc : crtc[r] # Unlocked(kernel_main[call].arg)[r]}
          IN IF keys = before THEN wrong = {}
             ELSE Cardinality(wrong \ {14, 15}) <= keys - before]_vars

\* The mode and the font the kernel ends up with belong together, and show the
\* rows of the terminal: 400 lines, of characters that are whole glyphs of the
\* 8x8 font, without the lines of the 8x16 font that are still below them.
ScreenFitsTerminal ==
    LET lines == (crtc[9] % 32) + 1
        shown(s) == {font[s][half] : half \in {h \in Half : h < lines}}
    IN /\ TypeOK
       /\ call > Len(kernel_main) /\ keys = 0 => lines = 400 \div VGA_HEIGHT /\ shown(0) = {"8x8"}
=============================================================================
