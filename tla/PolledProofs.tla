---------------------------- MODULE PolledProofs ----------------------------
(***************************************************************************)
(* Proofs about Polled: whatever the time and whenever the clock updates   *)
(* itself, the date and time are read as those of one moment; whatever     *)
(* modules the boot loader passes, wherever buf is linked and whatever     *)
(* half of a register the DMA controller was left at, the channel gives    *)
(* out buf and the word behind it, within the 128K in which buf begins;    *)
(* and a network card's address is its own, whatever its EEPROM holds.     *)
(***************************************************************************)
EXTENDS Polled, TLAPS

(***************************************************************************)
(* Bytes and the two halves of a register.                                 *)
(***************************************************************************)
Word == {n \in Nat : n < 65536}

LEMMA Bytes ==
  ASSUME NEW w \in Word
  PROVE  /\ Low(w) \in 0 .. 255 /\ High(w) \in 0 .. 255 /\ High(w) * 256 + Low(w) = w
         /\ (w \div 256) % 256 = w \div 256
<1> DEFINE q == w \div 256
<1>1. q \in Nat /\ q < 256 /\ w % 256 \in 0 .. 255 /\ q * 256 + (w % 256) = w
  BY SMT DEF Word
<1> HIDE DEF q
<1>2. q % 256 = q
  BY <1>1, SMT
<1> QED
  BY <1>1, <1>2, SMTT(30) DEF q, Low, High

LEMMA Halves ==
  \A w \in Word, b \in 0 .. 255 :
         /\ High(w) * 256 + b \in Word /\ Low(High(w) * 256 + b) = b
         /\ b * 256 + Low(w) \in Word
<1> TAKE w \in Word, b \in 0 .. 255
<1>1. \A h, l \in 0 .. 255 : h * 256 + l \in Word /\ Low(h * 256 + l) = l
  BY SMT DEF Word, Low
<1>2. High(w) \in 0 .. 255 /\ Low(w) \in 0 .. 255
  BY Bytes
<1>3. High(w) * 256 + b \in Word /\ Low(High(w) * 256 + b) = b
  BY <1>1, <1>2
<1>4. b * 256 + Low(w) \in Word
  BY <1>1, <1>2
<1> QED
  BY <1>3, <1>4

\* The page and the offset are the address again, and so is each that follows,
\* up to a multiple of 128K.
LEMMA Placed ==
  ASSUME NEW a \in Nat, a < 16777216, a % 2 = 0, NEW n \in 0 .. 25
  PROVE  LET page == (a \div 65536) % 256
             end == a - (a % 131072) + 131072
         IN (page - (page % 2)) * 65536 + ((((a \div 2) % 65536) + n) % 65536) * 2
              = IF a + 2 * n < end THEN a + 2 * n ELSE (a + 2 * n) - 131072
<1> DEFINE q == a \div 131072
           r == a % 131072
           h == r \div 2
<1>1. q \in Nat /\ q < 128 /\ r \in Nat /\ r < 131072 /\ a = 131072 * q + r
  BY SMT
<1>2. h \in Nat /\ h < 65536 /\ r = 2 * h
  BY <1>1, SMT
<1>0. a - (a % 131072) = 131072 * q
  BY <1>1, SMT
<1> HIDE DEF q, r, h
<1>3. a \div 2 = 65536 * q + h
  BY <1>1, <1>2, SMT
<1>4. (a \div 2) % 65536 = h
  BY <1>1, <1>2, <1>3, SMT
<1>5. PICK t \in {0, 1} : a \div 65536 = 2 * q + t
  BY <1>1, <1>2, SMT
<1>6. (2 * q + t) % 256 = 2 * q + t /\ (2 * q + t) % 2 = t
  BY <1>1, <1>5, SMT
<1>7. (h + n) % 65536 = IF h + n < 65536 THEN h + n ELSE (h + n) - 65536
  BY <1>2, SMT
<1>8. a + 2 * n < 131072 * q + 131072 <=> h + n < 65536
  BY <1>1, <1>2, SMT
<1> QED
  BY <1>0, <1>1, <1>2, <1>4, <1>5, <1>6, <1>7, <1>8, SMT

(***************************************************************************)
(* The sound card and its channel.                                         *)
(***************************************************************************)
DmaRegisters == [masked : BOOLEAN, auto : BOOLEAN, offset : Word, count : Word, page : 0 .. 255]

\* What transfer has written before its step n.
Written(n) ==
    /\ n > 1 => dma.masked
    /\ n \in {3, 4, 6, 8, 9} => flipflop = 0
    /\ n \in {5, 7} => flipflop = 1
    /\ n > 3 => dma.auto
    /\ n = 5 => Low(dma.offset) = Low(Offset)
    /\ n > 5 => dma.offset = Offset
    /\ n = 7 => Low(dma.count) = Low(Length - 1)
    /\ n > 7 => dma.count = Length - 1
    /\ n > 8 => dma.page = (at0 \div 65536) % 256

Programmed ==
    dma.auto /\ dma.offset = Offset /\ dma.count = Length - 1 /\ dma.page = (at0 \div 65536) % 256

\* routine and sbCur are there from before the channel is first let loose.
SoundIInv ==
    /\ at0 \in Bufs /\ mod \in Nat /\ sbCur \in Nat
    /\ dma \in DmaRegisters /\ flipflop \in {0, 1}
    /\ sbPc \notin {"loop", "done"} => mod >= 1
    /\ sbPc \in {"dsp", "position", "cur", "argument", "fill", "transfer"} => routine
    /\ sbPc \in {"argument", "fill", "transfer"} => sbCur # 0
    /\ sbPc = "transfer" => step \in 1 .. 9 /\ Written(step)
    /\ ~dma.masked => Programmed /\ routine /\ sbCur # 0
    /\ line => routine /\ sbCur # 0

LEMMA OffsetIsAWord == SoundIInv => Offset \in Word /\ Length - 1 \in Word
<1>1. ASSUME NEW a \in Nat PROVE (a \div 2) % 65536 \in Word
  BY SMT DEF Word
<1>2. 26 - 1 \in Word
  BY SMT DEF Word
<1> QED
  BY <1>1, <1>2, Sb16Assumption DEF SoundIInv, Offset, Length

LEMMA SoundInit == Sb16Init => SoundIInv
<1>1. 0 \in Word
  BY SMT DEF Word
<1> QED
  BY <1>1 DEF Sb16Init, SoundIInv, DmaRegisters

\* transfer writes a register, or half of one.
LEMMA TransferStep == SoundIInv /\ Transfer => SoundIInv'
<1> SUFFICES ASSUME SoundIInv, Transfer PROVE SoundIInv'
  OBVIOUS
<1>1. /\ sbPc = "transfer" /\ sbPc' = (IF step < 9 THEN "transfer" ELSE "loop") /\ step' = step + 1
      /\ UNCHANGED <<mod, routine, at0, line, sbCur>> /\ Program
      /\ step \in 1 .. 9 /\ Written(step) /\ dma \in DmaRegisters /\ flipflop \in {0, 1}
      /\ mod >= 1 /\ routine /\ sbCur # 0 /\ (~dma.masked => Programmed)
  BY DEF Transfer, At, SoundIInv, cardVars, soundVars
<1>2. /\ Offset \in Word /\ Offset' = Offset /\ Length - 1 \in Word /\ Length' = Length
      /\ (at0 \div 65536) % 256 \in 0 .. 255 /\ at0 \in Nat
  <2>1. Offset' = Offset /\ Length' = Length
    BY <1>1 DEF Offset, Length
  <2>2. at0 \in Nat
    BY Sb16Assumption DEF SoundIInv
  <2> QED
    BY <2>1, <2>2, OffsetIsAWord
<1>3. /\ dma.offset \in Word /\ dma.count \in Word /\ dma.page \in 0 .. 255
      /\ dma.masked \in BOOLEAN /\ dma.auto \in BOOLEAN
  BY <1>1 DEF DmaRegisters
<1> DEFINE Goal == /\ dma' \in DmaRegisters /\ flipflop' \in {0, 1}
                   /\ step < 9 => Written(step)'
                   /\ ~dma'.masked => Programmed'
<1>4. Goal
  <2>1. ASSUME step = 1 PROVE Goal
    <3>1. dma' = [dma EXCEPT !.masked = TRUE] /\ flipflop' = flipflop
      BY <2>1, <1>1 DEF Program
    <3>2. dma' \in DmaRegisters
      BY <1>1, <3>1 DEF DmaRegisters
    <3>3. dma'.masked = TRUE /\ dma'.auto = dma.auto /\ dma'.offset = dma.offset /\ dma'.count = dma.count /\ dma'.page = dma.page
      BY <1>1, <3>1 DEF DmaRegisters
    <3> QED
      BY <1>1, <1>2, <2>1, <3>1, <3>2, <3>3 DEF Written
  <2>2. ASSUME step = 2 PROVE Goal
    <3>1. dma' = dma /\ flipflop' = 0
      BY <2>2, <1>1 DEF Program, ClearFlipFlop
    <3> QED
      BY <1>1, <1>3, <2>2, <3>1 DEF DmaRegisters, Written
  <2>3. ASSUME step = 3 PROVE Goal
    <3>1. dma' = [dma EXCEPT !.auto = TRUE] /\ flipflop' = flipflop
      BY <2>3, <1>1 DEF Program
    <3>2. dma' \in DmaRegisters
      BY <1>1, <3>1 DEF DmaRegisters
    <3>3. dma'.auto = TRUE /\ dma'.masked = dma.masked /\ dma'.offset = dma.offset /\ dma'.count = dma.count /\ dma'.page = dma.page
      BY <1>1, <3>1 DEF DmaRegisters
    <3> QED
      BY <1>1, <1>2, <2>3, <3>1, <3>2, <3>3 DEF Written
  <2>4. ASSUME step = 4 PROVE Goal
    <3>1. flipflop = 0 /\ dma.masked /\ dma.auto
      BY <1>1, <2>4 DEF Written
    <3>2. dma' = [dma EXCEPT !.offset = High(dma.offset) * 256 + Low(Offset)] /\ flipflop' = 1
      BY <2>4, <1>1, <3>1 DEF Program, ToOtherHalf, Half
    <3>3. High(dma.offset) * 256 + Low(Offset) \in Word /\ Low(High(dma.offset) * 256 + Low(Offset)) = Low(Offset)
      <4>1. Low(Offset) \in 0 .. 255 /\ dma.offset \in Word
        BY <1>2, <1>3, Bytes
      <4> DEFINE b == Low(Offset)
                 w == dma.offset
      <4>2. b \in 0 .. 255 /\ w \in Word
        BY <4>1
      <4> HIDE DEF b, w
      <4>3. High(w) * 256 + b \in Word /\ Low(High(w) * 256 + b) = b
        BY <4>2, Halves, ZenonT(40)
      <4> QED
        BY <4>3 DEF b, w
    <3>4. Low(Offset)' = Low(Offset)
      BY <1>2 DEF Low
    <3>5. dma' \in DmaRegisters
      BY <1>1, <1>2, <1>3, <3>2, <3>3 DEF DmaRegisters
    <3>6. dma'.offset = High(dma.offset) * 256 + Low(Offset) /\ dma'.masked = dma.masked /\ dma'.auto = dma.auto /\ dma'.count = dma.count /\ dma'.page = dma.page
      BY <1>1, <3>2, <3>3 DEF DmaRegisters
    <3>7. Low(dma.offset)' = Low(Offset)
      BY <3>3, <3>6 DEF Low
    <3> QED
      BY <1>1, <1>2, <2>4, <3>1, <3>2, <3>4, <3>5, <3>6, <3>7 DEF Written
  <2>5. ASSUME step = 5 PROVE Goal
    <3>1. flipflop = 1 /\ dma.masked /\ dma.auto /\ Low(dma.offset) = Low(Offset)
      BY <1>1, <2>5 DEF Written
    <3>2. dma' = [dma EXCEPT !.offset = High(Offset) * 256 + Low(dma.offset)] /\ flipflop' = 0
      BY <2>5, <1>1, <3>1 DEF Program, ToOtherHalf, Half
    <3>3. High(Offset) * 256 + Low(dma.offset) = Offset
      BY <1>2, <3>1, Bytes
    <3>5. dma' \in DmaRegisters
      BY <1>1, <1>2, <1>3, <3>2, <3>3 DEF DmaRegisters
    <3>6. dma'.offset = Offset /\ dma'.masked = dma.masked /\ dma'.auto = dma.auto /\ dma'.count = dma.count /\ dma'.page = dma.page
      BY <1>1, <3>2, <3>3 DEF DmaRegisters
    <3> QED
      BY <1>1, <1>2, <2>5, <3>1, <3>2, <3>5, <3>6 DEF Written
  <2>6. ASSUME step = 6 PROVE Goal
    <3>1. flipflop = 0 /\ dma.masked /\ dma.auto /\ dma.offset = Offset
      BY <1>1, <2>6 DEF Written
    <3>2. dma' = [dma EXCEPT !.count = High(dma.count) * 256 + Low(Length - 1)] /\ flipflop' = 1
      BY <2>6, <1>1, <3>1 DEF Program, ToOtherHalf, Half
    <3>3. High(dma.count) * 256 + Low(Length - 1) \in Word /\ Low(High(dma.count) * 256 + Low(Length - 1)) = Low(Length - 1)
      <4> DEFINE c == Length - 1
      <4>1. Low(c) \in 0 .. 255 /\ dma.count \in Word
        BY <1>2, <1>3, Bytes
      <4> HIDE DEF c
      <4> DEFINE b == Low(c)
                 w == dma.count
      <4>2. b \in 0 .. 255 /\ w \in Word
        BY <4>1
      <4> HIDE DEF b, w
      <4>3. High(w) * 256 + b \in Word /\ Low(High(w) * 256 + b) = b
        BY <4>2, Halves, ZenonT(40)
      <4> QED
        BY <4>3 DEF b, c, w
    <3>5. dma' \in DmaRegisters
      BY <1>1, <1>2, <1>3, <3>2, <3>3 DEF DmaRegisters
    <3>6. dma'.count = High(dma.count) * 256 + Low(Length - 1) /\ dma'.masked = dma.masked /\ dma'.auto = dma.auto /\ dma'.offset = dma.offset /\ dma'.page = dma.page
      BY <1>1, <3>2, <3>3 DEF DmaRegisters
    <3>7. Low(dma.count)' = Low(Length - 1)
      BY <3>3, <3>6 DEF Low
    <3> QED
      BY <1>1, <1>2, <2>6, <3>1, <3>2, <3>5, <3>6, <3>7 DEF Written
  <2>7. ASSUME step = 7 PROVE Goal
    <3>1. flipflop = 1 /\ dma.masked /\ dma.auto /\ dma.offset = Offset /\ Low(dma.count) = Low(Length - 1)
      BY <1>1, <2>7 DEF Written
    <3>2. dma' = [dma EXCEPT !.count = High(Length - 1) * 256 + Low(dma.count)] /\ flipflop' = 0
      BY <2>7, <1>1, <3>1 DEF Program, ToOtherHalf, Half
    <3>3. High(Length - 1) * 256 + Low(dma.count) = Length - 1
      BY <1>2, <3>1, Bytes
    <3>5. dma' \in DmaRegisters
      BY <1>1, <1>2, <1>3, <3>2, <3>3 DEF DmaRegisters
    <3>6. dma'.count = Length - 1 /\ dma'.masked = dma.masked /\ dma'.auto = dma.auto /\ dma'.offset = dma.offset /\ dma'.page = dma.page
      BY <1>1, <3>2, <3>3 DEF DmaRegisters
    <3> QED
      BY <1>1, <1>2, <2>7, <3>1, <3>2, <3>5, <3>6 DEF Written
  <2>8. ASSUME step = 8 PROVE Goal
    <3>1. dma' = [dma EXCEPT !.page = (at0 \div 65536) % 256] /\ flipflop' = flipflop
      BY <2>8, <1>1 DEF Program
    <3>2. dma' \in DmaRegisters
      BY <1>1, <1>2, <1>3, <3>1 DEF DmaRegisters
    <3>3. dma'.page = (at0 \div 65536) % 256 /\ dma'.masked = dma.masked /\ dma'.auto = dma.auto /\ dma'.offset = dma.offset /\ dma'.count = dma.count
      BY <1>1, <3>1 DEF DmaRegisters
    <3> QED
      BY <1>1, <1>2, <2>8, <3>1, <3>2, <3>3 DEF Written
  <2>9. ASSUME step = 9 PROVE Goal
    <3>1. dma' = [dma EXCEPT !.masked = FALSE] /\ flipflop' = flipflop
      BY <2>9, <1>1 DEF Program
    <3>2. dma' \in DmaRegisters
      BY <1>1, <3>1 DEF DmaRegisters
    <3>3. dma'.masked = FALSE /\ dma'.auto = dma.auto /\ dma'.offset = dma.offset /\ dma'.count = dma.count /\ dma'.page = dma.page
      BY <1>1, <3>1 DEF DmaRegisters
    <3> QED
      BY <1>1, <1>2, <2>9, <3>1, <3>2, <3>3 DEF Written, Programmed
  <2> QED
    BY <1>1, <2>1, <2>2, <2>3, <2>4, <2>5, <2>6, <2>7, <2>8, <2>9
<1>5. sbPc' = "transfer" => step' \in 1 .. 9 /\ Written(step)'
  BY <1>1, <1>4
<1> QED
  BY <1>1, <1>4, <1>5 DEF SoundIInv

\* Nothing else touches the channel.
LEMMA SoundStep == SoundIInv /\ Sb16Next => SoundIInv'
<1> SUFFICES ASSUME SoundIInv, Sb16Next PROVE SoundIInv'
  OBVIOUS
<1>1. CASE Transfer
  BY <1>1, TransferStep
<1>2. CASE NextModule
  BY <1>2 DEF NextModule, At, SoundIInv, Programmed, Offset, cardVars, dmaVars, soundVars
<1>3. CASE Reset
  BY <1>3 DEF Reset, At, SoundIInv, Programmed, Offset, cardVars, dmaVars, playVars, soundVars
<1>4. CASE ReadStatus
  BY <1>4 DEF ReadStatus, At, SoundIInv, Programmed, Offset, cardVars, dmaVars, soundVars
<1>5. CASE InstallHandler
  BY <1>5 DEF InstallHandler, At, SoundIInv, Programmed, Offset, cardVars, dmaVars, soundVars
<1>6. CASE DspWrite
  BY <1>6 DEF DspWrite, At, SoundIInv, Programmed, Offset, dmaVars, soundVars
<1>7. CASE SetPosition
  BY <1>7 DEF SetPosition, At, SoundIInv, Programmed, Offset, cardVars, dmaVars, playVars
<1>8. CASE SetCur
  BY <1>8 DEF SetCur, At, SoundIInv, Programmed, Offset, cardVars, dmaVars, playVars
<1>9. CASE Argument
  BY <1>9 DEF Argument, At, SoundIInv, Programmed, Offset, cardVars, dmaVars, soundVars
<1>10. CASE Fill
  BY <1>10 DEF Fill, At, SoundIInv, Programmed, Offset, Written, cardVars, dmaVars
<1>11. CASE sb16_irq_handler
  BY <1>11 DEF sb16_irq_handler, SoundIInv, Programmed, Offset, Written, dmaVars, playVars
<1>12. CASE CardReady
  BY <1>12 DEF CardReady, SoundIInv, Programmed, Offset, Written, dmaVars, playVars, soundVars
<1>13. CASE EndOfBlock
  BY <1>13 DEF EndOfBlock, SoundIInv, Programmed, Offset, Written, dmaVars, playVars, soundVars
<1> QED
  BY <1>1, <1>2, <1>3, <1>4, <1>5, <1>6, <1>7, <1>8, <1>9, <1>10, <1>11, <1>12, <1>13 DEF Sb16Next, Play

LEMMA SoundStutter == SoundIInv /\ UNCHANGED sb16Vars => SoundIInv'
  BY DEF SoundIInv, Programmed, Offset, Written, sb16Vars, cardVars, dmaVars, playVars, soundVars

(***************************************************************************)
(* The network card.                                                       *)
(***************************************************************************)
MacIInv ==
    /\ eeprom \in Eeproms /\ bar_type \in BarTypes
    /\ reg \in [asked : Int, done : BOOLEAN, data : Int]
    /\ reg.done => reg.asked \in 0 .. 2 /\ reg.data = eeprom[reg.asked]
    /\ word \in 0 .. 3
    /\ macPc \in {"write", "poll", "store", "done"}
    /\ macPc # "done" => word < 3
    /\ macPc = "poll" /\ bar_type = 0 => reg.asked = word
    /\ macPc = "store" => temp = eeprom[word]
    /\ mac \in [0 .. 5 -> Int]
    /\ MacIsTheCards

LEMMA MacInit == E1000Init => MacIInv
  BY SMT DEF E1000Init, MacIInv, MacIsTheCards

LEMMA MacStep == MacIInv /\ E1000Next => MacIInv'
<1> SUFFICES ASSUME MacIInv, E1000Next PROVE MacIInv'
  OBVIOUS
<1>0. eeprom \in [0 .. 2 -> Word] /\ bar_type \in {0, 1}
  BY E1000Assumption DEF MacIInv, Word
<1>1. CASE Answer
  <2>1. reg.asked \in 0 .. 2 /\ eeprom[reg.asked] \in Int
    BY <1>0, <1>1 DEF Answer, Word
  <2>2. reg' \in [asked : Int, done : BOOLEAN, data : Int]
    BY <1>1, <2>1 DEF Answer, MacIInv
  <2>3. reg'.asked = reg.asked /\ reg'.data = eeprom[reg.asked]
    BY <1>1 DEF Answer, MacIInv
  <2>4. UNCHANGED <<eeprom, bar_type, macPc, word, temp, mac>>
    BY <1>1 DEF Answer
  <2> QED
    BY <2>1, <2>2, <2>3, <2>4 DEF MacIInv, MacIsTheCards
<1>2. CASE AskEeprom
  <2>1. word \in 0 .. 2 /\ macPc' = "poll" /\ UNCHANGED <<eeprom, bar_type, word, temp, mac>>
    BY <1>2 DEF AskEeprom, MacIInv
  <2>2. reg \in [asked : Int, done : BOOLEAN, data : Int]
    BY DEF MacIInv
  <2>3. CASE bar_type = 0
    <3>1. reg' = [reg EXCEPT !.asked = word, !.done = FALSE]
      BY <1>2, <2>3 DEF AskEeprom, write_cmd
    <3>2. reg' \in [asked : Int, done : BOOLEAN, data : Int]
      <4>1. word \in Int
        BY <2>1
      <4> QED
        BY <2>2, <3>1, <4>1
    <3>3. reg'.asked = word /\ reg'.done = FALSE
      BY <2>2, <3>1
    <3> QED
      BY <2>1, <3>2, <3>3 DEF MacIInv, MacIsTheCards
  <2>4. CASE bar_type # 0
    <3>1. reg' = reg
      BY <1>2, <2>4 DEF AskEeprom, write_cmd
    <3> QED
      BY <2>1, <2>2, <2>4, <3>1 DEF MacIInv, MacIsTheCards
  <2> QED
    BY <2>3, <2>4
<1>3. CASE PollEeprom
  BY <1>0, <1>3 DEF PollEeprom, read_cmd, MacIInv, MacIsTheCards
<1>4. CASE StoreMac
  <2>1. word \in 0 .. 2 /\ temp = eeprom[word] /\ temp \in Word /\ mac \in [0 .. 5 -> Int]
    BY <1>0, <1>4 DEF StoreMac, MacIInv
  <2>2. /\ mac' = [mac EXCEPT ![2 * word] = temp % 256, ![2 * word + 1] = (temp \div 256) % 256]
        /\ word' = word + 1 /\ UNCHANGED <<eeprom, bar_type, reg>>
        /\ macPc' = IF word < 2 THEN "write" ELSE "done"
    BY <1>4 DEF StoreMac
  <2>3. temp % 256 \in Int /\ (temp \div 256) % 256 = temp \div 256 /\ temp \div 256 \in Int
    <3>1. temp \in Nat
      BY <2>1 DEF Word
    <3> QED
      BY <2>1, <3>1, Bytes
  <2>4. mac' \in [0 .. 5 -> Int]
    BY <2>1, <2>2, <2>3
  <2>5. ASSUME NEW n \in 0 .. 5
        PROVE  mac'[n] = IF n >= 2 * (word + 1) THEN 0
                         ELSE IF n % 2 = 0 THEN eeprom[n \div 2] % 256 ELSE eeprom[n \div 2] \div 256
    <3>1. mac[n] = IF n >= 2 * word THEN 0
                   ELSE IF n % 2 = 0 THEN eeprom[n \div 2] % 256 ELSE eeprom[n \div 2] \div 256
      BY DEF MacIInv, MacIsTheCards
    <3>2. CASE n = 2 * word
      <4>1. n % 2 = 0 /\ n \div 2 = word
        BY <2>1, <3>2, SMT
      <4>2. mac'[n] = temp % 256
        BY <2>1, <2>2, <3>2
      <4> QED
        BY <2>1, <3>2, <4>1, <4>2
    <3>3. CASE n = 2 * word + 1
      <4>1. n % 2 = 1 /\ n \div 2 = word
        BY <2>1, <3>3, SMT
      <4>2. mac'[n] = temp \div 256
        BY <2>1, <2>2, <2>3, <3>3
      <4> QED
        BY <2>1, <3>3, <4>1, <4>2
    <3>4. CASE n # 2 * word /\ n # 2 * word + 1
      <4>1. mac'[n] = mac[n]
        BY <2>1, <2>2, <3>4
      <4>2. n >= 2 * word <=> n >= 2 * (word + 1)
        BY <2>1, <3>4
      <4> QED
        BY <3>1, <4>1, <4>2
    <3> QED
      BY <3>2, <3>3, <3>4
  <2>6. MacIsTheCards'
    BY <2>2, <2>5 DEF MacIsTheCards
  <2> QED
    BY <1>0, <2>1, <2>2, <2>4, <2>6 DEF MacIInv
<1> QED
  BY <1>1, <1>2, <1>3, <1>4 DEF E1000Next, ReadMac

LEMMA MacStutter == MacIInv /\ UNCHANGED e1000Vars => MacIInv'
  BY DEF MacIInv, MacIsTheCards, e1000Vars

(***************************************************************************)
(* The clock.  An update takes a while to come back: whatever one of them  *)
(* disturbs, the next pass over the registers is left alone.               *)
(***************************************************************************)
\* What read_rtc has read of the clock since it began to wait for it.
Steps == CASE pc = "wait" -> 0 [] pc = "read" -> k [] pc = "convert" -> 8 [] OTHER -> 7

\* The registers of this pass are of the time that is on the clock.
Clean == \A j \in DOMAIN Fields : j < Steps => cur[Fields[j]] = Registers(mode, now)[Fields[j]]

ThisPass ==
    pc \in {"read", "copy", "compare"} => Clean \/ uip \/ reads <= Steps

\* Either the last pass was of one time, or this one is left alone.
LastPass ==
    pass = "again" /\ pc \in {"wait", "read", "compare"} =>
        \/ last = Registers(mode, now)
        \/ last = Registers(mode, Earlier(now)) /\ ~uip /\ reads <= Steps
        \/ pc = "wait" /\ uip
        \/ ~uip /\ reads <= Steps + 7 /\ Clean

Agreed ==
    pc \in {"register_b", "convert"} =>
        \/ cur = Registers(mode, now)
        \/ cur = Registers(mode, Earlier(now)) /\ ~uip /\ reads <= Steps

RtcIInv ==
    /\ mode \in Modes /\ now \in 1 .. Len(Calendar)
    /\ uip \in BOOLEAN /\ reads \in 0 .. ReadsPerSecond
    /\ pc \in {"wait", "read", "copy", "compare", "register_b", "convert", "done"}
    /\ k \in 1 .. 6 /\ (pc # "read" => k = 1)
    /\ pass \in {"first", "again"} /\ (pass = "first" => pc \in {"wait", "read", "copy"})
    /\ pc # "done" => cur = [f \in Field |-> cur[f]]
    /\ pc = "convert" => registerB = mode
    /\ ThisPass /\ LastPass /\ Agreed

LEMMA Calendars ==
  /\ Len(Calendar) \in Nat /\ Len(Calendar) > 0
  /\ \A n \in 1 .. Len(Calendar) :
        /\ Earlier(n) \in 1 .. Len(Calendar) /\ Later(n) \in 1 .. Len(Calendar)
        /\ Earlier(Later(n)) = n
<1>1. Len(Calendar) \in Nat /\ Len(Calendar) > 0
  BY RtcAssumption
<1>2. ASSUME NEW l \in Nat, l > 0 PROVE \A n \in 1 .. l : n % l = IF n = l THEN 0 ELSE n
  <2> TAKE n \in 1 .. l
  <2>1. CASE n = l
    BY <1>2, <2>1
  <2>2. CASE n < l
    BY <1>2, <2>2
  <2> QED
    BY <2>1, <2>2
<1> QED
  BY <1>1, <1>2 DEF Earlier, Later

\* The six registers are all there is.
LEMMA WholeClock ==
  ASSUME Clean, Steps = 7, cur = [f \in Field |-> cur[f]]
  PROVE  cur = Registers(mode, now)
<1>1. DOMAIN Fields = 1 .. 6
  BY DEF Fields
<1>2. ASSUME NEW f \in Field PROVE cur[f] = Registers(mode, now)[f]
  <2>1. PICK j \in 1 .. 6 : f = Fields[j]
    BY <1>1 DEF Field
  <2> QED
    BY <1>1, <2>1 DEF Clean
<1> QED
  BY <1>2 DEF Registers

LEMMA RtcInit == Init => RtcIInv
<1> SUFFICES ASSUME Init PROVE RtcIInv
  OBVIOUS
<1>1. Len(Calendar) \in Nat /\ ReadsPerSecond \in Nat
  BY RtcAssumption
<1> QED
  BY <1>1 DEF Init, RtcIInv, ThisPass, LastPass, Agreed

LEMMA RtcStep == RtcIInv /\ Next => RtcIInv'
<1> SUFFICES ASSUME RtcIInv, Next PROVE RtcIInv'
  OBVIOUS
<1>0. /\ ReadsPerSecond \in Nat /\ ReadsPerSecond >= 15 /\ reads \in Nat /\ reads <= ReadsPerSecond
      /\ k \in 1 .. 6 /\ Steps \in 0 .. 8 /\ (Steps = 8 => pc = "convert") /\ DOMAIN Fields = 1 .. 6
      /\ now \in 1 .. Len(Calendar) /\ Later(now) \in 1 .. Len(Calendar) /\ Earlier(Later(now)) = now
  <2>1. DOMAIN Fields = 1 .. 6
    BY DEF Fields
  <2>2. ReadsPerSecond \in Nat /\ ReadsPerSecond >= 15 /\ reads \in Nat /\ reads <= ReadsPerSecond
    BY RtcAssumption DEF RtcIInv
  <2>3. k \in 1 .. 6 /\ now \in 1 .. Len(Calendar)
    BY DEF RtcIInv
  <2>4. Steps \in 0 .. 8 /\ (Steps = 8 => pc = "convert")
    BY <2>3 DEF Steps
  <2>5. Later(now) \in 1 .. Len(Calendar) /\ Earlier(Later(now)) = now
    BY <2>3, Calendars
  <2> QED
    BY <2>1, <2>2, <2>3, <2>4, <2>5
<1>1. CASE BeginUpdate
  <2>1. /\ ~uip /\ reads = ReadsPerSecond /\ uip' = TRUE
        /\ UNCHANGED <<mode, now, reads, pc, k, pass, cur, last, registerB>>
    BY <1>1 DEF BeginUpdate
  <2>2. ThisPass'
    BY <2>1 DEF ThisPass
  <2>3. LastPass'
    BY <1>0, <2>1 DEF LastPass, RtcIInv
  <2>4. Agreed'
    BY <1>0, <2>1 DEF Agreed, RtcIInv
  <2> QED
    BY <2>1, <2>2, <2>3, <2>4 DEF RtcIInv
<1>2. CASE EndUpdate
  <2>1. /\ uip /\ uip' = FALSE /\ now' = Later(now) /\ reads' = 0
        /\ UNCHANGED <<mode, pc, k, pass, cur, last, registerB>>
    BY <1>2 DEF EndUpdate
  <2>2. /\ Steps' = Steps /\ Earlier(now)' = now
        /\ \A n : (Registers(mode, n))' = Registers(mode', n')
    BY <1>0, <2>1 DEF Steps, Earlier, Registers, HourRegister, Number
  <2>3. ThisPass'
    BY <1>0, <2>1, <2>2 DEF ThisPass
  <2>4. LastPass'
    BY <1>0, <2>1, <2>2 DEF LastPass, RtcIInv, Steps, Clean
  <2>5. Agreed'
    BY <1>0, <2>1, <2>2 DEF Agreed, RtcIInv
  <2>6. now' \in 1 .. Len(Calendar) /\ reads' \in 0 .. ReadsPerSecond
    BY <1>0, <2>1
  <2> QED
    BY <2>1, <2>3, <2>4, <2>5, <2>6 DEF RtcIInv
<1>3. CASE WaitForUpdate
  <2>1. /\ pc = "wait" /\ CountRead /\ pc' = (IF uip THEN "wait" ELSE "read")
        /\ UNCHANGED <<mode, now, uip, k, pass, cur, last, registerB>>
    BY <1>3 DEF WaitForUpdate, clock
  <2>2. reads' \in 0 .. ReadsPerSecond /\ reads' <= reads + 1 /\ (uip => reads' = reads)
    BY <1>0, <2>1 DEF CountRead
  <2>3. k = 1 /\ Steps = 0 /\ (~uip => Steps' = 1) /\ (uip => Steps' = 0)
    BY <2>1 DEF RtcIInv, Steps
  <2>4. Clean'
    BY <1>0, <2>3 DEF Clean
  <2>5. ThisPass'
    BY <2>4 DEF ThisPass
  <2>6. LastPass'
    BY <1>0, <2>1, <2>2, <2>3, <2>4 DEF LastPass, RtcIInv
  <2>7. Agreed'
    BY <2>1 DEF Agreed
  <2> QED
    BY <2>1, <2>2, <2>3, <2>5, <2>6, <2>7 DEF RtcIInv
<1>4. CASE GetRegister
  <2>1. /\ pc = "read" /\ CountRead /\ UNCHANGED <<mode, now, uip, pass, last, registerB>>
        /\ IF k < 6 THEN k' = k + 1 /\ pc' = pc
           ELSE k' = 1 /\ pc' = IF pass = "first" THEN "copy" ELSE "compare"
    BY <1>4 DEF GetRegister, clock, Fields
  <2>2. PICK v \in Shown(Fields[k]) : cur' = [cur EXCEPT ![Fields[k]] = v]
    BY <1>4 DEF GetRegister
  <2>3. reads' \in 0 .. ReadsPerSecond /\ reads' <= reads + 1 /\ (uip => reads' = reads)
    BY <1>0, <2>1 DEF CountRead
  <2>4. Steps = k /\ Steps' = k + 1
    BY <1>0, <2>1 DEF Steps
  <2>5. cur = [f \in Field |-> cur[f]] /\ cur' = [f \in Field |-> cur'[f]]
    BY <2>1, <2>2 DEF RtcIInv
  <2>6. ~uip /\ Clean => Clean'
    <3> SUFFICES ASSUME ~uip, Clean, NEW j \in 1 .. 6, j < k + 1
                 PROVE  cur'[Fields[j]] = Registers(mode, now)[Fields[j]]
      BY <1>0, <2>1, <2>4 DEF Clean
    <3>1. v = Registers(mode, now)[Fields[k]]
      BY <2>2 DEF Shown
    <3>2. Fields[j] \in Field
      BY <1>0 DEF Field
    <3>3. CASE Fields[j] = Fields[k]
      BY <2>2, <2>5, <3>1, <3>2, <3>3
    <3>4. CASE Fields[j] # Fields[k]
      <4>1. j < k
        BY <1>0, <3>4
      <4> QED
        BY <1>0, <2>2, <2>4, <2>5, <3>2, <3>4, <4>1 DEF Clean
    <3> QED
      BY <3>3, <3>4
  <2>7. ThisPass'
    BY <1>0, <2>1, <2>3, <2>4, <2>6 DEF ThisPass, RtcIInv
  <2>8. LastPass'
    <3> SUFFICES ASSUME pass = "again"
                 PROVE  \/ last = Registers(mode, now)
                        \/ last = Registers(mode, Earlier(now)) /\ ~uip /\ reads' <= Steps'
                        \/ ~uip /\ reads' <= Steps' + 7 /\ Clean'
      BY <2>1 DEF LastPass, Registers, Earlier
    <3>1. \/ last = Registers(mode, now)
          \/ last = Registers(mode, Earlier(now)) /\ ~uip /\ reads <= Steps
          \/ ~uip /\ reads <= Steps + 7 /\ Clean
      BY <2>1 DEF LastPass, RtcIInv
    <3>2. reads \in Int /\ reads' \in Int /\ Steps \in Int
      BY <1>0, <2>3
    <3>3. reads <= Steps => reads' <= Steps'
      BY <1>0, <2>3, <2>4, <3>2
    <3>4. reads <= Steps + 7 => reads' <= Steps' + 7
      BY <1>0, <2>3, <2>4, <3>2
    <3> QED
      BY <2>6, <3>1, <3>3, <3>4
  <2>9. Agreed'
    BY <1>0, <2>1 DEF Agreed
  <2> QED
    BY <1>0, <2>1, <2>3, <2>5, <2>7, <2>8, <2>9 DEF RtcIInv
<1>5. CASE CopyToLast
  <2>1. /\ pc = "copy" /\ last' = cur /\ pass' = "again" /\ pc' = "wait" /\ Steps = 7 /\ Steps' = 0
        /\ UNCHANGED <<mode, now, uip, reads, k, cur, registerB>>
    BY <1>5 DEF CopyToLast, clock, Steps
  <2>2. Clean => last' = Registers(mode, now)
    BY <1>0, <2>1, WholeClock DEF RtcIInv
  <2>3. Clean'
    BY <1>0, <2>1 DEF Clean
  <2>4. LastPass'
    BY <1>0, <2>1, <2>2, <2>3 DEF LastPass, ThisPass, RtcIInv
  <2> QED
    BY <2>1, <2>4 DEF RtcIInv, ThisPass, Agreed
<1>6. CASE Compare
  <2>1. /\ pc = "compare" /\ pc' \in {"copy", "register_b"} /\ Steps = 7 /\ Steps' = 7
        /\ pc' = "register_b" => \A f \in Field : last[f] = cur[f]
        /\ UNCHANGED <<mode, now, uip, reads, k, pass, cur, last, registerB>>
    BY <1>6 DEF Compare, clock, Steps
  <2>2. Clean' <=> Clean
    BY <2>1 DEF Clean
  <2>3. ThisPass'
    BY <2>1, <2>2 DEF ThisPass, RtcIInv
  <2>4. Clean => cur = Registers(mode, now)
    BY <1>0, <2>1, WholeClock DEF RtcIInv
  <2>5. pc' = "register_b" /\ last \in {Registers(mode, now), Registers(mode, Earlier(now))} => cur = last
    BY <2>1 DEF RtcIInv, Registers
  <2>6. pass = "again"
    BY <2>1 DEF RtcIInv
  <2>7. Agreed'
    BY <2>1, <2>4, <2>5, <2>6 DEF Agreed, LastPass, RtcIInv
  <2>8. LastPass'
    BY <2>1 DEF LastPass
  <2> QED
    BY <2>1, <2>3, <2>6, <2>7, <2>8 DEF RtcIInv
<1>7. CASE ReadRegisterB
  <2>1. /\ pc = "register_b" /\ pc' = "convert" /\ registerB' = mode /\ CountRead
        /\ Steps = 7 /\ Steps' = 8 /\ UNCHANGED <<mode, now, uip, k, pass, cur, last>>
    BY <1>7 DEF ReadRegisterB, clock, Steps
  <2>2. reads' \in 0 .. ReadsPerSecond /\ reads' <= reads + 1
    BY <1>0, <2>1 DEF CountRead
  <2>3. Agreed'
    BY <1>0, <2>1, <2>2 DEF Agreed, RtcIInv
  <2> QED
    BY <2>1, <2>2, <2>3 DEF RtcIInv, ThisPass, LastPass
<1>8. CASE Convert
  BY <1>8 DEF Convert, RtcIInv, ThisPass, LastPass, Agreed, clock
<1> QED
  BY <1>1, <1>2, <1>3, <1>4, <1>5, <1>6, <1>7, <1>8 DEF Next, Reader

LEMMA RtcStutter == RtcIInv /\ UNCHANGED vars => RtcIInv'
  BY DEF RtcIInv, ThisPass, LastPass, Agreed, Clean, Steps, vars, clock

(***************************************************************************)
(* The numbers are the date and time again.                                *)
(***************************************************************************)
LEMMA BcdBack == \A n \in Nat : FromBcd(Bcd(n)) = n
<1> SUFFICES ASSUME NEW n \in Nat PROVE FromBcd(Bcd(n)) = n
  OBVIOUS
<1> DEFINE q == n \div 10
           r == n % 10
<1>1. q \in Nat /\ r \in 0 .. 9 /\ n = q * 10 + r
  BY SMT
<1> HIDE DEF q, r
<1>2. (q * 16 + r) % 16 = r /\ (q * 16 + r) \div 16 = q
  BY <1>1, SMT
<1> QED
  BY <1>1, <1>2, SMT DEF FromBcd, Bcd, q, r

LEMMA HourBack ==
  ASSUME NEW m \in Modes, NEW h \in Nat, h < 24, m.hours24 \/ h % 12 # 0
  PROVE  LET b == IF m.binary THEN HourRegister(m, h) ELSE FromBcdHour(HourRegister(m, h))
         IN  h = IF m.hours24 THEN b ELSE To24(b)
<1>1. m.binary \in BOOLEAN /\ m.hours24 \in BOOLEAN
  BY RtcAssumption
<1>2. \A n \in Nat : n < 24 => Bcd(n) \in Nat /\ Bcd(n) < 48
  BY SMT DEF Bcd
<1>3. \A c \in Nat : c < 48 => FromBcdHour(c) = FromBcd(c) /\ FromBcdHour(c + 128) = FromBcd(c) + 128
  BY SMT DEF FromBcdHour, FromBcd
<1>4. CASE m.hours24
  <2>1. HourRegister(m, h) = IF m.binary THEN h ELSE Bcd(h)
    BY <1>4 DEF HourRegister, Number
  <2> QED
    BY <1>1, <1>2, <1>3, <1>4, <2>1, BcdBack
<1>5. CASE ~m.hours24
  <2> DEFINE t == h % 12
  <2>1. t \in Nat /\ t < 24 /\ t # 0 /\ h = t + (IF h >= 12 THEN 12 ELSE 0) /\ t < 12
    BY <1>5, SMT
  <2>2. HourRegister(m, h) = (IF m.binary THEN t ELSE Bcd(t)) + (IF h >= 12 THEN 128 ELSE 0)
    BY <1>5, <2>1 DEF HourRegister, Number
  <2> HIDE DEF t
  <2>3. To24(t) = t /\ To24(t + 128) = t + 12
    BY <2>1, SMT DEF To24
  <2>4. FromBcdHour(Bcd(t)) = t /\ FromBcdHour(Bcd(t) + 128) = t + 128 /\ Bcd(t) \in Nat
    BY <1>2, <1>3, <2>1, BcdBack
  <2> QED
    BY <1>1, <1>5, <2>1, <2>2, <2>3, <2>4
<1> QED
  BY <1>4, <1>5

LEMMA YearBack ==
  \A y \in CURRENT_YEAR .. CURRENT_YEAR + 99 : y % 100 \in Nat /\ FullYear(y % 100) = y
  BY SMT DEF FullYear, CURRENT_YEAR

LEMMA ConvertedBack ==
  ASSUME RtcIInv, Convert, NEW n \in 1 .. Len(Calendar), Readable(n), cur = Registers(mode, n)
  PROVE  cur' = Calendar[n]
<1> DEFINE b == IF mode.binary THEN cur ELSE FromBcdAll(cur)
           h == IF mode.hours24 THEN b.hour ELSE To24(b.hour)
<1>1. Field = {"second", "minute", "hour", "day", "month", "year"}
  <2>1. DOMAIN Fields = {1, 2, 3, 4, 5, 6}
    BY DEF Fields
  <2> QED
    BY <2>1 DEF Field, Fields
<1>2. cur' = [b EXCEPT !.hour = h, !.year = FullYear(b.year)] /\ mode \in Modes
  BY DEF Convert, RtcIInv
<1>3. /\ Calendar[n] \in [Field -> Nat] /\ Calendar[n].hour \in Nat /\ Calendar[n].hour < 24
      /\ Calendar[n].year \in CURRENT_YEAR .. CURRENT_YEAR + 99
  <2>1. Calendar[n] \in [Field -> Nat]
    BY RtcAssumption
  <2> QED
    BY <1>1, <2>1, RtcAssumption
<1>4. b = [f \in Field |-> b[f]]
  BY DEF Registers, FromBcdAll
<1>5. h = Calendar[n].hour
  <2>1. cur.hour = HourRegister(mode, Calendar[n].hour)
    BY <1>1 DEF Registers
  <2>2. b.hour = IF mode.binary THEN cur.hour ELSE FromBcdHour(cur.hour)
    BY <1>1 DEF FromBcdAll
  <2> QED
    BY <1>2, <1>3, <2>1, <2>2, HourBack DEF Readable
<1>6. FullYear(b.year) = Calendar[n].year
  <2>1. cur.year = Number(mode, Calendar[n].year % 100)
    BY <1>1 DEF Registers
  <2>2. b.year = IF mode.binary THEN cur.year ELSE FromBcd(cur.year)
    BY <1>1 DEF FromBcdAll
  <2>3. b.year = Calendar[n].year % 100
    BY <1>3, <2>1, <2>2, BcdBack, YearBack DEF Number
  <2> QED
    BY <1>3, <2>3, YearBack
<1>7. ASSUME NEW f \in Field, f # "hour", f # "year" PROVE b[f] = Calendar[n][f]
  <2>1. cur[f] = Number(mode, Calendar[n][f])
    BY <1>7 DEF Registers
  <2>2. b[f] = IF mode.binary THEN cur[f] ELSE FromBcd(cur[f])
    BY <1>7 DEF FromBcdAll
  <2> QED
    BY <1>3, <2>1, <2>2, BcdBack DEF Number
<1> HIDE DEF b, h
<1>8. ASSUME NEW f \in Field PROVE cur'[f] = Calendar[n][f]
  BY <1>1, <1>2, <1>4, <1>5, <1>6, <1>7
<1>9. cur' = [f \in Field |-> cur'[f]]
  BY <1>2, <1>4
<1> QED
  BY <1>3, <1>8, <1>9

(***************************************************************************)
(* All three, in the composition.                                          *)
(***************************************************************************)
PolledIInv == RtcIInv /\ SoundIInv /\ MacIInv

LEMMA PolledInitIInv == PolledInit => PolledIInv
  BY RtcInit, SoundInit, MacInit DEF PolledInit, PolledIInv

LEMMA PolledNextIInv == PolledIInv /\ [PolledNext]_polledVars => PolledIInv'
<1> SUFFICES ASSUME PolledIInv, [PolledNext]_polledVars PROVE PolledIInv'
  OBVIOUS
<1>1. CASE ReadRtc
  BY <1>1, RtcStep, SoundStutter, MacStutter DEF ReadRtc, PolledIInv
<1>2. CASE PlaySound
  BY <1>2, RtcStutter, SoundStep, MacStutter DEF PlaySound, PolledIInv
<1>3. CASE ReadCard
  BY <1>3, RtcStutter, SoundStutter, MacStep DEF ReadCard, PolledIInv
<1>4. CASE UNCHANGED polledVars
  BY <1>4, RtcStutter, SoundStutter, MacStutter DEF polledVars, PolledIInv
<1> QED
  BY <1>1, <1>2, <1>3, <1>4 DEF PolledNext

\* The drivers' strengthened invariants hold throughout.
THEOREM PolledInvariant == PolledSpec => []PolledIInv
  BY PolledInitIInv, PolledNextIInv, PTL DEF PolledSpec

\* The k-th word given out is the k-th of buf, or for k = 25 the one behind it,
\* or lies 128K lower.
LEMMA GivenInOrder ==
  ASSUME SoundIInv, ~dma.masked, NEW n \in 0 .. 25
  PROVE  Given(n) = Wrapped(at0 + 2 * n)
<1>1. at0 \in Nat /\ at0 < 16777216 /\ at0 % 2 = 0
  BY Sb16Assumption DEF SoundIInv
<1>2. dma.offset = (at0 \div 2) % 65536 /\ dma.page = (at0 \div 65536) % 256
  BY DEF SoundIInv, Programmed, Offset
<1> DEFINE base == (at0 \div 65536) % 256
           start == (at0 \div 2) % 65536
           end == at0 - (at0 % 131072) + 131072
<1>3. (base - (base % 2)) * 65536 + ((start + n) % 65536) * 2
        = IF at0 + 2 * n < end THEN at0 + 2 * n ELSE (at0 + 2 * n) - 131072
  BY <1>1, Placed
<1>4. Given(n) = (base - (base % 2)) * 65536 + ((start + n) % 65536) * 2
  BY <1>2 DEF Given
<1>5. Wrapped(at0 + 2 * n) = IF at0 + 2 * n < end THEN at0 + 2 * n ELSE (at0 + 2 * n) - 131072
  BY DEF Wrapped
<1> QED
  BY <1>3, <1>4, <1>5, SMT

LEMMA BufAndBehind == Buf \cup {Behind} = {at0 + 2 * n : n \in 0 .. 25}
<1>1. BufWords = 25
  BY SMT DEF BufWords
<1>2. 0 .. 25 = (0 .. 24) \cup {25}
  BY SMT
<1>3. BufWords - 1 = 24
  BY <1>1
<1> QED
  BY <1>1, <1>2, <1>3 DEF Buf, Behind

\* Wherever below 16 megabytes buf is linked, the channel gives out its 25 words
\* and the one behind them, each of them or the word 128K lower, and no
\* interrupt of the card reads through the null pointer.
THEOREM ChannelGivesOut == PolledSpec => []ChannelIsProgrammed
<1>1. PolledIInv => ChannelIsProgrammed
  <2> SUFFICES ASSUME SoundIInv PROVE ChannelIsProgrammed
    BY DEF PolledIInv
  <2>1. ASSUME ~dma.masked
        PROVE  dma.auto /\ GivenOut = {Wrapped(a) : a \in Buf \cup {Behind}}
    <3>1. dma.auto /\ dma.count = 25
      BY <2>1 DEF SoundIInv, Programmed, Length
    <3>2. GivenOut = {Wrapped(at0 + 2 * n) : n \in 0 .. 25}
      <4>1. GivenOut = {Given(n) : n \in 0 .. 25}
        BY <3>1 DEF GivenOut
      <4>2. \A n \in 0 .. 25 : Given(n) = Wrapped(at0 + 2 * n)
        BY <2>1, GivenInOrder
      <4> QED
        BY <4>1, <4>2
    <3>3. {Wrapped(a) : a \in Buf \cup {Behind}} = {Wrapped(at0 + 2 * n) : n \in 0 .. 25}
      BY BufAndBehind
    <3> QED
      BY <3>1, <3>2, <3>3
  <2> QED
    BY <2>1 DEF SoundIInv, ChannelIsProgrammed
<1> QED
  BY <1>1, PolledInvariant, PTL

\* The address read is the card's, whatever its EEPROM holds.
THEOREM OwnAddress == PolledSpec => []MacIsTheCards
<1>1. PolledIInv => MacIsTheCards
  BY DEF PolledIInv, MacIInv
<1> QED
  BY <1>1, PolledInvariant, PTL
\* The registers the comparing loop is left with were all on the clock at one
\* moment, whatever the time and whenever the clock updates itself.
THEOREM ClockReadAsOneTime == PolledSpec => SnapshotIsATime
<1> DEFINE A == pc = "compare" /\ pc' = "register_b"
                    => cur \in {Registers(mode, now), Registers(mode, Earlier(now))}
<1>1. PolledIInv /\ [PolledNext]_polledVars => [A]_vars
  <2> SUFFICES ASSUME PolledIInv, [PolledNext]_polledVars, pc = "compare", pc' = "register_b"
               PROVE  cur \in {Registers(mode, now), Registers(mode, Earlier(now))}
    OBVIOUS
  <2>1. Next
    BY DEF PolledNext, polledVars, ReadRtc, PlaySound, ReadCard, vars
  <2>2. UNCHANGED <<mode, now, cur>>
    BY <2>1 DEF Next, Reader, WaitForUpdate, GetRegister, CopyToLast, Compare, ReadRegisterB, Convert,
                BeginUpdate, EndUpdate, clock
  <2>3. Agreed'
    BY PolledNextIInv DEF PolledIInv, RtcIInv
  <2> QED
    BY <2>2, <2>3 DEF Agreed
<1> QED
  BY <1>1, PolledInvariant, PTL DEF PolledSpec, SnapshotIsATime

\* In every mode of the clock, and of every date of a hundred years, read_rtc's
\* numbers are the date and time; the time of day but for twelve o'clock on a
\* clock of twelve hours.
THEOREM DateConverted == PolledSpec => DateIsRight
<1> DEFINE A == pc = "convert" /\ pc' = "done" /\ Readable(now) /\ Readable(Earlier(now))
                    => cur' \in {Calendar[now], Calendar[Earlier(now)]}
<1>1. PolledIInv /\ [PolledNext]_polledVars => [A]_vars
  <2> SUFFICES ASSUME PolledIInv, [PolledNext]_polledVars, pc = "convert", pc' = "done",
                      Readable(now), Readable(Earlier(now))
               PROVE  cur' \in {Calendar[now], Calendar[Earlier(now)]}
    OBVIOUS
  <2>1. Next
    BY DEF PolledNext, polledVars, ReadRtc, PlaySound, ReadCard, vars
  <2>2. Convert
    BY <2>1 DEF Next, Reader, WaitForUpdate, GetRegister, CopyToLast, Compare, ReadRegisterB,
                BeginUpdate, EndUpdate
  <2>3. RtcIInv /\ now \in 1 .. Len(Calendar) /\ Earlier(now) \in 1 .. Len(Calendar)
    BY Calendars DEF PolledIInv, RtcIInv
  <2> QED
    BY <2>2, <2>3, ConvertedBack DEF RtcIInv, Agreed
<1> QED
  BY <1>1, PolledInvariant, PTL DEF PolledSpec, DateIsRight
=============================================================================
