-------------------------------- MODULE Sb16 --------------------------------
(***************************************************************************)
(* play_simple_sound, reset_sb16, transfer and sb16_irq_handler of         *)
(* src/drivers/sb16.cc, for every module the boot loader passed.  At this  *)
(* commit its call in kernel_main is commented out, and init_sb16 returns  *)
(* in its first statement; the model is of the functions as written.       *)
(*                                                                         *)
(* The card and the second DMA controller are external.  The card plays,   *)
(* and interrupts at the end of a block, when it has been started and the  *)
(* DMA channel lets it have data.  The channel's registers are words       *)
(* written in two halves, which one flip-flop tells apart.                 *)
(***************************************************************************)
EXTENDS Integers, Sequences

CONSTANTS
    Mods,       \* the modules: a sequence of [mod_start, data_len]
    Bufs,       \* where buf may be linked, even
    Cards,      \* "good", "old" (a version before 4), "absent"
    MaxIrqs     \* bound on the card's interrupts

\* The kernel is linked where the DMA controller's 24 address lines reach.
ASSUME Sb16Assumption == \A b \in Bufs : b \in Nat /\ b < 16777216 /\ b % 2 = 0

VARIABLES
    card, busy, answer,   \* bit 7 of port 0x22C, and the bytes to be read at 0x22A
    playing,              \* what the card has been told: [rate, block, on]
    line,                 \* its interrupt 5
    dma, flipflop,        \* channel 5, and which half comes next
    sbPc, mod, step,      \* where play_simple_sound is, its i, and the byte it is at
    failed,               \* reset_sb16 has printed that it failed
    routine,              \* irq_routines[5]
    position, sbCur,      \* position and cur, 0 for a null pointer
    arg,                  \* the second argument of its memset
    buf,                  \* the byte buf is filled with
    at0,                  \* where it is
    irqs                  \* the card's interrupts so far

cardVars == <<card, busy, answer, playing, line, irqs>>
dmaVars == <<dma, flipflop>>
playVars == <<mod, step, failed, routine, arg, at0>>
soundVars == <<position, sbCur, buf>>
sb16Vars == <<cardVars, dmaVars, sbPc, playVars, soundVars>>

Low(n) == n % 256
High(n) == (n \div 256) % 256

mods_count == Len(Mods)
\* The header at the module's start, and where that is.
data_len(m) == Mods[m].data_len
mod_start(m) == Mods[m].mod_start
\* A uint16_t.
sample_count(m) == ((data_len(m) \div 2) - 1) % 65536
DSP == [SET_RATE |-> 65, PROG_16_AUTO_INIT |-> 182, SIGNED_STEREO |-> 48, ON |-> 209, ON_16 |-> 214]
set_sample_rate(hz) == <<DSP.SET_RATE, High(hz), Low(hz)>>
\* What is written to the card for module m.
Commands(m) ==
    set_sample_rate(48000)
        \o <<DSP.PROG_16_AUTO_INIT, DSP.SIGNED_STEREO, Low(sample_count(m)), High(sample_count(m)),
             DSP.ON, DSP.ON_16>>
Started == 7    \* the command that completes the program, at which the card begins

(***************************************************************************)
(* The card and the channel.                                               *)
(***************************************************************************)
Silent == [rate |-> 0, block |-> 0, on |-> FALSE]

CardReady ==
    /\ busy /\ card # "absent"
    /\ busy' = FALSE
    /\ UNCHANGED <<card, answer, playing, line, irqs, dmaVars, sbPc, playVars, soundVars>>

\* A block has been played.
EndOfBlock ==
    /\ playing.on /\ ~dma.masked /\ ~line /\ irqs < MaxIrqs
    /\ line' = TRUE
    /\ irqs' = irqs + 1
    /\ UNCHANGED <<card, busy, answer, playing, dmaVars, sbPc, playVars, soundVars>>

\* What the card makes of the n-th command for module m.
Obey(n, m) ==
    [playing EXCEPT !.rate = IF n = 3 THEN Commands(m)[2] * 256 + Commands(m)[3] ELSE @,
                    !.block = IF n = Started THEN Commands(m)[n] * 256 + Commands(m)[n - 1] + 1 ELSE @,
                    !.on = (@ \/ n = Started)]

\* One half of a register of the channel.
Half(old, b) == IF flipflop = 0 THEN High(old) * 256 + b ELSE b * 256 + Low(old)

Version(c) == IF c = "old" THEN 3 ELSE 4

\* Where the k-th word it gives out is, from 0: the page has no bit for an odd
\* 64K, the offset counts words, and the page does not change when it wraps.
Given(k) == (dma.page - (dma.page % 2)) * 65536 + ((dma.offset + k) % 65536) * 2
GivenOut == {Given(k) : k \in 0 .. dma.count}

(***************************************************************************)
(* play_simple_sound.                                                      *)
(***************************************************************************)
At(place, next) == sbPc = place /\ sbPc' = next

NextModule ==
    /\ At("loop", IF mod < mods_count THEN "reset" ELSE "done")
    /\ mod' = IF mod < mods_count THEN mod + 1 ELSE mod
    /\ UNCHANGED <<step, failed, routine, arg, at0, cardVars, dmaVars, soundVars>>

\* reset_sb16, first half: the card stops, and answers 0xAA in time or not.
Reset ==
    /\ At("reset", "status")
    /\ IF card = "absent" THEN UNCHANGED cardVars
       ELSE /\ playing' = Silent /\ line' = FALSE /\ busy' = FALSE
            /\ answer' \in {"late", "0xAA"}
            /\ UNCHANGED <<card, irqs>>
    /\ UNCHANGED <<playVars, dmaVars, soundVars>>

\* reset_sb16, second half: the status, the 0xAA and the version are read
\* without polling.  Whatever they are, its caller goes on.
ReadStatus ==
    /\ At("status", "install")
    /\ failed' = (answer # "0xAA" \/ Version(card) < 4)
    /\ UNCHANGED <<mod, step, routine, arg, at0, cardVars, dmaVars, soundVars>>

\* irq_install_handler, and the mixer is told the interrupt.
InstallHandler ==
    /\ At("install", "dsp")
    /\ routine' = TRUE /\ step' = 1
    /\ UNCHANGED <<mod, failed, arg, at0, cardVars, dmaVars, soundVars>>

\* dsp_write: polled until the card is not busy.
DspWrite ==
    /\ ~busy
    /\ At("dsp", IF step < Len(Commands(mod)) THEN "dsp" ELSE "position")
    /\ step' = step + 1
    /\ busy' = TRUE
    /\ playing' = Obey(step, mod)
    /\ UNCHANGED <<mod, failed, routine, arg, at0, card, answer, line, irqs, dmaVars, soundVars>>

SetPosition ==
    /\ At("position", "cur")
    /\ position' = 1
    /\ UNCHANGED <<playVars, cardVars, dmaVars, sbCur, buf>>

SetCur ==
    /\ At("cur", "argument")
    /\ sbCur' = mod
    /\ UNCHANGED <<playVars, cardVars, dmaVars, position, buf>>

\* memset's parameter val is a char.
memset(val) == Low(val)
\* cur->mod_start + p
Sample(p) == IF sbCur = 0 THEN 0 ELSE mod_start(sbCur) + p

\* memset(buf, cur->mod_start + position, 40), the argument first.
Argument ==
    /\ At("argument", "fill")
    /\ arg' = Sample(position)
    /\ UNCHANGED <<mod, step, failed, routine, at0, cardVars, dmaVars, soundVars>>
Fill ==
    /\ At("fill", "transfer")
    /\ buf' = memset(arg)
    /\ step' = 1
    /\ UNCHANGED <<mod, failed, routine, arg, at0, cardVars, dmaVars, position, sbCur>>

(***************************************************************************)
(* transfer(buf, 26): one port after the other.                            *)
(***************************************************************************)
\* char buf[50], in words; transfer is told one more.
BufWords == 50 \div 2
Length == 26
Offset == (at0 \div 2) % 65536

\* Mutant: the byte pointer flip-flop is left as it is.
ClearFlipFlop_Forgotten == UNCHANGED flipflop
ClearFlipFlop == flipflop' = 0
ToOtherHalf == flipflop' = 1 - flipflop

Program ==
    CASE step = 1 -> dma' = [dma EXCEPT !.masked = TRUE] /\ UNCHANGED flipflop
      [] step = 2 -> UNCHANGED dma /\ ClearFlipFlop
      [] step = 3 -> dma' = [dma EXCEPT !.auto = TRUE] /\ UNCHANGED flipflop
      [] step = 4 -> dma' = [dma EXCEPT !.offset = Half(@, Low(Offset))] /\ ToOtherHalf
      [] step = 5 -> dma' = [dma EXCEPT !.offset = Half(@, High(Offset))] /\ ToOtherHalf
      [] step = 6 -> dma' = [dma EXCEPT !.count = Half(@, Low(Length - 1))] /\ ToOtherHalf
      [] step = 7 -> dma' = [dma EXCEPT !.count = Half(@, High(Length - 1))] /\ ToOtherHalf
      [] step = 8 -> dma' = [dma EXCEPT !.page = (at0 \div 65536) % 256] /\ UNCHANGED flipflop
      [] step = 9 -> dma' = [dma EXCEPT !.masked = FALSE] /\ UNCHANGED flipflop

Transfer ==
    /\ At("transfer", IF step < 9 THEN "transfer" ELSE "loop")
    /\ Program
    /\ step' = step + 1
    /\ UNCHANGED <<mod, failed, routine, arg, at0, cardVars, soundVars>>

\* sb16_irq_handler, with interrupts off; it reads both ports that acknowledge.
sb16_irq_handler ==
    /\ line /\ routine
    /\ position' = position + 1
    /\ buf' = memset(Sample(position + 1))
    /\ line' = FALSE
    /\ UNCHANGED <<card, busy, answer, playing, irqs, dmaVars, sbPc, playVars, sbCur>>

Play ==
    \/ NextModule \/ Reset \/ ReadStatus \/ InstallHandler \/ DspWrite
    \/ SetPosition \/ SetCur \/ Argument \/ Fill \/ Transfer

\* position and buf as they are initialised; the BIOS leaves every channel masked.
Sb16Init ==
    /\ card \in Cards /\ busy = (card = "absent") /\ answer = "none" /\ playing = Silent /\ line = FALSE
    /\ dma = [masked |-> TRUE, auto |-> FALSE, offset |-> 0, count |-> 0, page |-> 0]
    /\ flipflop \in {0, 1}
    /\ sbPc = "loop" /\ mod = 0 /\ step = 1 /\ failed = FALSE /\ routine = FALSE /\ arg = 0
    /\ position = 50 /\ sbCur = 0 /\ buf = 0 /\ at0 \in Bufs
    /\ irqs = 0

Sb16Next == Play \/ sb16_irq_handler \/ CardReady \/ EndOfBlock

(***************************************************************************)
(* Properties.                                                             *)
(***************************************************************************)
\* The words of buf, and of what lies right behind it.
Buf == {at0 + 2 * n : n \in 0 .. BufWords - 1}
Behind == at0 + 2 * BufWords
\* The controller stays in the 128K in which buf begins.
Wrapped(a) == LET end == at0 - (at0 % 131072) + 131072 IN IF a < end THEN a ELSE a - 131072

\* Whatever half-written registers, and whatever transfer, the controller was
\* left with: when the channel gives out data, over and over, it is the 25 words
\* of buf and the one behind them, for transfer is told 26; what lies beyond a
\* multiple of 128K is replaced by what is 128K lower.  Until then the channel is
\* masked: the card plays before cur points to a module, but does not interrupt,
\* so that sb16_irq_handler never reads through the null pointer cur was, nor
\* fails to be there (sb16.cc:113-139,166,172,219-235,278-294).
ChannelIsProgrammed ==
    /\ ~dma.masked => dma.auto /\ GivenOut = {Wrapped(a) : a \in Buf \cup {Behind}}
    /\ line => routine /\ sbCur # 0
=============================================================================
