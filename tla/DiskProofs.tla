----------------------------- MODULE DiskProofs -----------------------------
(***************************************************************************)
(* Proofs about Disk: the ATA driver takes the sector it asked for, in     *)
(* registers of any size, and the mouse spoils neither the drive's         *)
(* identification nor the screen, for every screen, text and movement,     *)
(* with routines coming between any two cells of a scroll.                 *)
(***************************************************************************)
EXTENDS Disk, TLAPS

(***************************************************************************)
(* The sector number, cut into registers and put together again.           *)
(***************************************************************************)
LEMMA DivMod ==
  ASSUME NEW n \in Nat, NEW d \in Nat, d > 0
  PROVE  /\ n \div d \in Nat /\ n % d \in 0 .. d - 1
         /\ n = (n \div d) * d + (n % d)
  BY SMT

LEMMA QuotientUnique ==
  ASSUME NEW n \in Nat, NEW d \in Nat, NEW q \in Nat, NEW r \in 0 .. d - 1, n = q * d + r
  PROVE  n \div d = q
  BY SMT

LEMMA DivTwice ==
  ASSUME NEW n \in Nat, NEW d \in Nat, NEW e \in Nat, d > 0, e > 0
  PROVE  n \div (d * e) = (n \div d) \div e
<1> DEFINE m == n \div d
           q == m \div e
<1>1. m \in Nat /\ n % d \in 0 .. d - 1 /\ n = m * d + (n % d)
  BY DivMod
<1>2. q \in Nat /\ m % e \in 0 .. e - 1 /\ m = q * e + (m % e)
  BY <1>1, DivMod
<1> HIDE DEF m, q
<1> QED
  OBVIOUS

LEMMA RemainderUnique ==
  ASSUME NEW n \in Nat, NEW d \in Nat, NEW q \in Nat, NEW r \in 0 .. d - 1, n = q * d + r
  PROVE  n % d = r
<1>1. d > 0 /\ n \div d = q
  BY QuotientUnique
<1>2. n = (n \div d) * d + (n % d) /\ n % d \in Nat
  BY <1>1, DivMod
<1>3. q * d \in Nat
  OBVIOUS
<1> QED
  BY <1>1, <1>2, <1>3

\* A digit in front of a number of m values.
LEMMA DigitInFront ==
  ASSUME NEW m \in Nat, NEW d \in Nat, NEW h \in 0 .. d - 1, NEW r \in 0 .. m - 1
  PROVE  h * m + r \in 0 .. d * m - 1
<1>1. PICK e \in Nat : d = h + 1 + e
  BY d - (h + 1) \in Nat, d = h + 1 + (d - (h + 1))
<1>2. d * m = h * m + m + e * m
  BY <1>1
<1>3. e * m \in Nat /\ h * m \in Nat
  BY <1>1
<1> QED
  BY <1>2, <1>3

LEMMA AddressOfRegisters ==
  ASSUME NEW n \in Nat
  PROVE  /\ Address(Registers(n)) = n % Addressable
         /\ Registers(n) \in RegisterValues
         /\ n % Addressable \in 0 .. Addressable - 1
<1> DEFINE a == n \div Base
           b == a \div Base
           c == b \div Base
           q == c \div Nibble
           cube == Base * Base * Base
           rest == ((b % Base) * Base + (a % Base)) * Base + (n % Base)
<1>0. Base \in Nat /\ Base > 0 /\ Nibble \in Nat /\ Nibble > 0
  BY AtaAssumption
<1>1. a \in Nat /\ n % Base \in 0 .. Base - 1 /\ n = a * Base + (n % Base)
  BY <1>0, DivMod
<1>2. b \in Nat /\ a % Base \in 0 .. Base - 1 /\ a = b * Base + (a % Base)
  BY <1>0, <1>1, DivMod
<1>3. c \in Nat /\ b % Base \in 0 .. Base - 1 /\ b = c * Base + (b % Base)
  BY <1>0, <1>2, DivMod
<1>4. q \in Nat /\ c % Nibble \in 0 .. Nibble - 1 /\ c = q * Nibble + (c % Nibble)
  BY <1>0, <1>3, DivMod
<1>5. n \div (Base * Base) = b
  BY <1>0, DivTwice
<1>6. n \div cube = c
  <2>1. Base * Base \in Nat /\ Base * Base > 0
    BY <1>0
  <2> QED
    BY <1>0, <1>5, <2>1, DivTwice
<1> HIDE DEF a, b, c, q
<1>7. Registers(n) = [dev |-> c % Nibble, lba2 |-> b % Base, lba1 |-> a % Base, lba0 |-> n % Base]
  BY <1>5, <1>6 DEF Registers, a, b
<1>8. rest \in 0 .. cube - 1 /\ cube \in Nat
  <2>1. (b % Base) * Base + (a % Base) \in 0 .. Base * Base - 1
    BY <1>0, <1>2, <1>3, DigitInFront
  <2>2. Base * Base \in Nat
    BY <1>0
  <2>3. rest \in 0 .. (Base * Base) * Base - 1
    BY <1>0, <1>1, <2>1, <2>2, DigitInFront
  <2> QED
    BY <1>0, <2>3
<1>9. Address(Registers(n)) = (c % Nibble) * cube + rest
  <2> DEFINE d == c % Nibble
             r2 == b % Base
             r1 == a % Base
             r0 == n % Base
  <2>1. d \in Nat /\ r2 \in Nat /\ r1 \in Nat /\ r0 \in Nat
    BY <1>1, <1>2, <1>3, <1>4
  <2> HIDE DEF d, r2, r1, r0
  <2>2. ((d * Base + r2) * Base + r1) * Base + r0 = d * (Base * Base * Base) + ((r2 * Base + r1) * Base + r0)
    BY <1>0, <2>1
  <2> QED
    BY <1>7, <2>2 DEF Address, d, r2, r1, r0
<1>10. n = c * cube + rest
  <2> DEFINE r2 == b % Base
             r1 == a % Base
             r0 == n % Base
  <2>1. r2 \in Nat /\ r1 \in Nat /\ r0 \in Nat
    BY <1>1, <1>2, <1>3
  <2>2. n = a * Base + r0 /\ a = b * Base + r1 /\ b = c * Base + r2
    BY <1>1, <1>2, <1>3
  <2> HIDE DEF r2, r1, r0
  <2>3. n = ((c * Base + r2) * Base + r1) * Base + r0
    BY <2>2
  <2>4. ((c * Base + r2) * Base + r1) * Base + r0 = c * (Base * Base * Base) + ((r2 * Base + r1) * Base + r0)
    BY <1>0, <1>3, <2>1
  <2> QED
    BY <2>3, <2>4 DEF r2, r1, r0
<1> HIDE DEF cube, rest
<1>11. (c % Nibble) * cube + rest \in 0 .. Nibble * cube - 1
  BY <1>0, <1>4, <1>8, DigitInFront
<1>12. n = q * (Nibble * cube) + ((c % Nibble) * cube + rest)
  <2> DEFINE d == c % Nibble
  <2>1. d \in Nat /\ c = q * Nibble + d
    BY <1>4
  <2> HIDE DEF d
  <2>2. c * cube = q * (Nibble * cube) + d * cube
    BY <1>0, <1>4, <1>8, <2>1
  <2>3. q * (Nibble * cube) \in Nat /\ d * cube \in Nat /\ rest \in Nat
    BY <1>0, <1>4, <1>8, <2>1
  <2> QED
    BY <1>10, <2>2, <2>3 DEF d
<1>13. n % (Nibble * cube) = (c % Nibble) * cube + rest
  <2>1. Nibble * cube \in Nat
    BY <1>0, <1>8
  <2> QED
    BY <1>4, <1>11, <1>12, <2>1, RemainderUnique
<1>14. Addressable = Nibble * cube
  BY DEF Addressable, cube
<1>15. Registers(n) \in RegisterValues
  BY <1>1, <1>2, <1>3, <1>4, <1>7 DEF RegisterValues
<1> QED
  BY <1>9, <1>11, <1>13, <1>14, <1>15

(***************************************************************************)
(* The driver.                                                             *)
(***************************************************************************)
Identifying == pc \in {"identify", "detect", "wait_bsy", "pm_stat_read", "sus"}
Reading == pc \in {"read_one", "retry", "retry2", "transfer"}

\* While a sector is waited for, the command the drive works on is the read of
\* that sector, and it is at "transfer" only once the drive has it.
DriverIInv ==
    /\ TypeOK
    /\ Identifying => i = 0
    /\ Reading => i < NumSects
    /\ pc \in {"retry", "retry2", "transfer"} => command = "READ_PIO" /\ regs = Registers(lba + i)
    /\ pc = "transfer" => status = Ready
    /\ SectorRequested

\* A good drive is there and has no errors, so it is not passed over before it
\* has filled ide_buf; its words stay there until ata_is_sus has copied them.
NameIInv ==
    drive = "good" =>
        /\ status \in {Idle, Busy, Ready}
        /\ pc = "sus" => \A w \in 0 .. IdentLen - 1 : low[w] = "drive"
        /\ NameIsTheDrives

DiskIInv == DriverIInv /\ OnePointer /\ NameIInv

LEMMA SectorInRange ==
  ASSUME TypeOK
  PROVE  /\ Address(Registers(lba + i)) = (lba + i) % Addressable
         /\ Registers(lba + i) \in RegisterValues
         /\ (lba + i) % Addressable \in 0 .. Addressable - 1
<1>1. lba + i \in Nat
  <2>1. lba \in Lbas /\ i \in 0 .. NumSects
    BY DEF TypeOK
  <2> QED
    BY <2>1, AtaAssumption
<1> QED
  BY <1>1, AddressOfRegisters

LEMMA DriverInit == Init => DriverIInv
<1> SUFFICES ASSUME Init PROVE DriverIInv
  OBVIOUS
<1>1. regs \in RegisterValues
  BY AtaAssumption DEF Init, RegisterValues
<1>2. TypeOK
  BY <1>1, AtaAssumption DEF Init, TypeOK, Idle
<1> QED
  BY <1>2 DEF Init, DriverIInv, Identifying, Reading, SectorRequested

LEMMA DriverNext == DriverIInv /\ [Next]_vars => DriverIInv'
<1> SUFFICES ASSUME DriverIInv, [Next]_vars PROVE DriverIInv'
  OBVIOUS
<1> USE DEF DriverIInv, Identifying, Reading, SectorRequested, Idle, Busy, Ready, Failed
<1>0. TypeOK
  OBVIOUS
<1>1. CASE Complete
  BY <1>1 DEF Complete, TypeOK
<1>2. CASE Identify
  <2>1. regs' \in RegisterValues
    BY <1>2, AtaAssumption DEF Identify, Issue, RegisterValues
  <2>2. TypeOK'
    BY <1>2, <2>1 DEF Identify, Issue, TypeOK
  <2> QED
    BY <1>2, <2>2 DEF Identify
<1>3. CASE Detect
  BY <1>3 DEF Detect, device, TypeOK
<1>4. CASE WaitBsy
  BY <1>4 DEF WaitBsy, device, TypeOK
<1>5. CASE Disable
  BY <1>5 DEF Disable, device, TypeOK
<1>6. CASE Online
  BY <1>6 DEF Online, Drain, TypeOK
<1>7. CASE Sus
  <2>1. TypeOK'
    BY <1>7 DEF Sus, device, TypeOK
  <2>2. i = 0 /\ 0 < NumSects
    BY <1>7, AtaAssumption DEF Sus
  <2> QED
    BY <1>7, <2>1, <2>2 DEF Sus, device
<1>8. CASE ReadOne
  <2>1. TypeOK'
    BY <1>8, SectorInRange DEF ReadOne, Issue, TypeOK
  <2> QED
    BY <1>8, <2>1 DEF ReadOne, Issue, TypeOK
<1>9. CASE Retry
  BY <1>9 DEF Retry, device, TypeOK
<1>10. CASE Retry2
  <2>1. TypeOK'
    BY <1>10 DEF Retry2, device, TypeOK
  <2>2. status = Ready
    BY <1>10 DEF Retry2, TypeOK
  <2> QED
    BY <1>10, <2>1, <2>2 DEF Retry2, device, Registers
<1>11. CASE Transfer
  <2>1. DataPort = (lba + i) % Addressable /\ (lba + i) % Addressable \in 0 .. Addressable - 1
    BY <1>11, SectorInRange DEF Transfer, DataPort
  <2>2. DOMAIN buf = 0 .. NumSects - 1 /\ 0 \in 0 .. NumSects - 1
    <3>1. buf \in [0 .. NumSects - 1 -> {Garbage, Identification} \union 0 .. Addressable - 1]
      BY DEF TypeOK
    <3> QED
      BY <3>1, AtaAssumption
  <2>3. buf'[0] = (lba + i) % Addressable /\ i' = i + 1 /\ lba' = lba
    BY <1>11, <2>1, <2>2 DEF Transfer
  <2>5. i \in Nat /\ lba \in Nat /\ NumSects \in Nat
    <3>1. lba \in Lbas /\ i \in 0 .. NumSects
      BY DEF TypeOK
    <3> QED
      BY <3>1, AtaAssumption
  <2>4. TypeOK'
    <3>1. buf' \in [0 .. NumSects - 1 -> {Garbage, Identification} \union 0 .. Addressable - 1]
      BY <1>11, <2>1 DEF Transfer, TypeOK
    <3>2. i' \in 0 .. NumSects
      BY <1>11, <2>3, <2>5 DEF Transfer
    <3> QED
      BY <1>11, <3>1, <3>2 DEF Transfer, Drain, TypeOK
  <2>6. pc' = IF i + 1 < NumSects THEN "read_one" ELSE "verify"
    BY <1>11 DEF Transfer
  <2> QED
    BY <2>3, <2>4, <2>5, <2>6
<1>12. CASE Verify
  BY <1>12 DEF Verify, device, TypeOK
<1>13. CASE UNCHANGED vars
  <2>1. TypeOK'
    BY <1>13 DEF vars, device, TypeOK
  <2> QED
    BY <1>13, <2>1 DEF vars, device, Registers
<1> QED
  BY <1>1, <1>2, <1>3, <1>4, <1>5, <1>6, <1>7, <1>8, <1>9, <1>10, <1>11, <1>12, <1>13 DEF Next, Driver

(***************************************************************************)
(* The pointer.                                                            *)
(***************************************************************************)
\* A place on the saved rows.
LEMMA PlaceSaved ==
  ASSUME NEW x \in 0 .. Cols - 1, NEW y \in 0 .. SavedRows - 1
  PROVE  y * Cols + x \in Saved
<1>1. Cols \in Nat /\ SavedRows \in Nat /\ x \in Nat /\ y \in Nat /\ y + 1 <= SavedRows /\ x < Cols
  BY PointerAssumption
<1>2. PICK d \in Nat : SavedRows = y + 1 + d
  BY <1>1, SavedRows - (y + 1) \in Nat, SavedRows = y + 1 + (SavedRows - (y + 1))
<1>3. Cols * SavedRows = y * Cols + Cols + d * Cols
  BY <1>1, <1>2
<1>4. d * Cols \in Nat /\ y * Cols \in Nat
  BY <1>1
<1> QED
  BY <1>1, <1>3, <1>4 DEF Saved

LEMMA Cells ==
  /\ Cols \in Nat /\ Cols > 0 /\ WordsLen \in Nat /\ WordsLen < Cols
  /\ Cols * SavedRows \in Nat /\ Cols * LowestRow \in Nat
  /\ Cols * SavedRows + Cols <= Cols * LowestRow
<1>1. Cols \in Nat /\ Cols > 0 /\ SavedRows \in Nat /\ LowestRow \in Nat /\ SavedRows < LowestRow
  BY PointerAssumption
<1>2. PICK d \in Nat : LowestRow = SavedRows + 1 + d
  BY <1>1, LowestRow - (SavedRows + 1) \in Nat, LowestRow = SavedRows + 1 + (LowestRow - (SavedRows + 1))
<1>3. Cols * LowestRow = Cols * SavedRows + Cols + Cols * d
  BY <1>1, <1>2
<1>4. Cols * d \in Nat /\ Cols * SavedRows \in Nat
  BY <1>1
<1> QED
  BY <1>1, <1>3, <1>4, PointerAssumption

LEMMA SavedOnScreen == Saved \subseteq Screen /\ Cols * SavedRows \in Nat
  BY Cells DEF Saved, Screen

\* A scroll copies within the text memory.
LEMMA SizesFit ==
  ASSUME NEW n \in Sizes
  PROVE  n \in Nat /\ n <= Cols * LowestRow
<1>1. PICK row \in SavedRows + 1 .. LowestRow : n = row * Cols
  BY DEF Sizes
<1>2. Cols \in Nat /\ LowestRow \in Nat /\ SavedRows \in Nat
  BY PointerAssumption
<1>3. row \in Nat /\ row <= LowestRow
  BY <1>2
<1>4. PICK d \in Nat : LowestRow = row + d
  BY <1>2, <1>3, LowestRow - row \in Nat, LowestRow = row + (LowestRow - row)
<1>5. Cols * LowestRow = row * Cols + d * Cols
  BY <1>2, <1>3, <1>4
<1>6. d * Cols \in Nat /\ row * Cols \in Nat
  BY <1>2, <1>3
<1> QED
  BY <1>1, <1>5, <1>6

\* Cell c is where mouse printed, or the end of the saved rows, k rows further down.
OnTrail(c, k) ==
    \/ c + k * Cols \in CellsFrom(shown, WordsLen)
    \/ c + k * Cols \in CellsFrom(Cols * SavedRows, WordsLen - 1)

LEMMA TrailRises ==
  ASSUME NEW c \in Nat, NEW k \in Nat, OnTrail(c + Cols, k)
  PROVE  OnTrail(c, k + 1)
<1>1. (c + Cols) + k * Cols = c + (k + 1) * Cols
  BY Cells
<1> QED
  BY <1>1 DEF OnTrail

\* Behind the saved rows there is only the end of words, where it was printed.
LEMMA TrailBehindSaved ==
  ASSUME PointerTypeOK, NEW c \in Screen \ Saved, NEW k \in Nat, OnTrail(c, k)
  PROVE  k = 0 /\ c \in CellsFrom(Cols * SavedRows, WordsLen - 1)
<1>1. c \in Nat /\ c >= Cols * SavedRows
  BY Cells DEF Screen, Saved
<1>2. shown \in Int /\ shown <= Cols * SavedRows - 1
  BY Cells DEF PointerTypeOK, Saved
<1>3. k * Cols \in Nat
  BY Cells
<1>4. c + k * Cols <= Cols * SavedRows + WordsLen - 2
  <2>1. CASE c + k * Cols \in CellsFrom(shown, WordsLen)
    BY <1>1, <1>2, <1>3, <2>1, Cells DEF CellsFrom
  <2>2. CASE c + k * Cols \in CellsFrom(Cols * SavedRows, WordsLen - 1)
    BY <1>1, <1>3, <2>2, Cells DEF CellsFrom
  <2> QED
    BY <2>1, <2>2 DEF OnTrail
<1>5. k = 0
  <2> SUFFICES ASSUME k # 0 PROVE FALSE
    OBVIOUS
  <2>1. PICK m \in Nat : k = m + 1
    BY k - 1 \in Nat, k = (k - 1) + 1
  <2>2. k * Cols = m * Cols + Cols /\ m * Cols \in Nat
    BY <2>1, Cells
  <2> QED
    BY <1>1, <1>4, <2>2, Cells
<1>6. k * Cols = 0
  BY <1>5, Cells
<1> QED
  BY <1>1, <1>4, <1>5, <1>6, Cells DEF CellsFrom

LEMMA OneIs ==
  OnePointer <=> PointerTypeOK /\ \A c \in Screen : screen[c] = "mouse" => \E k \in Risen(c) : OnTrail(c, k)
  BY DEF OnePointer, OnTrail

LEMMA PointerInitOne == PointerInit => OnePointer
<1> SUFFICES ASSUME PointerInit PROVE OnePointer
  OBVIOUS
<1>1. PointerTypeOK
  BY PointerAssumption DEF PointerInit, PointerTypeOK
<1> QED
  BY <1>1 DEF PointerInit, OnePointer

\* What was on the saved rows is back before they are saved, so that the low
\* memory stays as it is and takes the old pointer with it.
LEMMA MoveKeepsOne == OnePointer /\ MoveMouse => OnePointer' /\ low' = low
<1> SUFFICES ASSUME OnePointer, MoveMouse PROVE OnePointer' /\ low' = low
  OBVIOUS
<1> DEFINE back == reprint_buf(screen, low)
<1>0. PointerTypeOK
  BY DEF OnePointer
<1>1. PICK d \in Moves :
        /\ mouse_x' = Clamp(mouse_x + d[1], Cols - 1)
        /\ mouse_y' = Clamp(mouse_y - d[2], SavedRows - 1)
        /\ shown' = mouse_y' * Cols + mouse_x'
        /\ Refresh
        /\ scrolled' = IF putchar = "scroll" THEN 1 ELSE 0
        /\ UNCHANGED textVars
  BY DEF MoveMouse
<1>2. mouse_x' \in 0 .. Cols - 1 /\ mouse_y' \in 0 .. SavedRows - 1
  <2>1. d[1] \in Int /\ d[2] \in Int /\ mouse_x \in Int /\ mouse_y \in Int
    BY <1>0, PointerAssumption DEF PointerTypeOK
  <2>2. Cols - 1 \in Nat /\ SavedRows - 1 \in Nat
    BY PointerAssumption
  <2> QED
    BY <1>1, <2>1, <2>2 DEF Clamp
<1>3. shown' \in Saved
  BY <1>1, <1>2, PlaceSaved
<1>4. back = [c \in Screen |-> IF c \in Saved THEN low[c] ELSE screen[c]]
  BY <1>0 DEF PointerTypeOK, reprint_buf, memcpy
<1>5. low' = low
  <2>1. low' = [c \in Saved |-> back[c]]
    BY <1>0, <1>1 DEF Refresh, save_buf, memcpy, PointerTypeOK
  <2>2. \A c \in Saved : back[c] = low[c]
    BY <1>4, SavedOnScreen
  <2> QED
    BY <1>0, <2>1, <2>2 DEF PointerTypeOK
<1>6. screen' = [c \in Screen |-> IF c \in CellsFrom(shown', WordsLen) THEN "mouse" ELSE back[c]]
  BY <1>1 DEF Refresh
<1>7. PointerTypeOK'
  <2>1. screen' \in [Screen -> {"kernel", "bios", "drive", "mouse"}]
    BY <1>0, <1>4, <1>6 DEF PointerTypeOK
  <2> QED
    BY <1>0, <1>1, <1>2, <1>3, <1>5, <2>1 DEF PointerTypeOK, textVars
<1>8. ASSUME NEW c \in Screen, screen'[c] = "mouse"
      PROVE  0 \in Risen(c)' /\ OnTrail(c, 0)'
  <2>1. c \in Nat /\ c + 0 * Cols = c
    BY Cells DEF Screen
  <2>2. 0 \in Risen(c)'
    BY <1>1, <2>1 DEF Risen, textVars
  <2>3. CASE c \in CellsFrom(shown', WordsLen)
    BY <2>1, <2>2, <2>3 DEF OnTrail
  <2>4. CASE c \notin CellsFrom(shown', WordsLen)
    <3>1. c \notin Saved /\ screen[c] = "mouse"
      BY <1>0, <1>4, <1>6, <1>8, <2>4 DEF PointerTypeOK
    <3>2. PICK k \in Risen(c) : OnTrail(c, k)
      BY <3>1, OneIs
    <3>3. k \in Nat
      BY <1>0, <3>2 DEF Risen, PointerTypeOK
    <3>4. c \in CellsFrom(Cols * SavedRows, WordsLen - 1)
      BY <1>0, <3>1, <3>2, <3>3, TrailBehindSaved
    <3> QED
      BY <2>1, <2>2, <3>4 DEF OnTrail
  <2> QED
    BY <2>3, <2>4
<1>9. \A c \in Screen : screen'[c] = "mouse" => \E k \in Risen(c)' : OnTrail(c, k)'
  BY <1>8
<1> QED
  BY <1>5, <1>7, <1>9 DEF OnePointer, OnTrail

\* What a step has to keep that leaves the pointer's place as it is: the words
\* of a cell come from there, as often moved or once more, or from the cell a row below.
LEMMA TrailKept ==
  ASSUME OnePointer, PointerTypeOK', shown' = shown,
         \A c \in Screen : screen'[c] = "mouse" =>
            \/ screen[c] = "mouse" /\ Risen(c) \subseteq Risen(c)'
            \/ /\ c + Cols \in Screen /\ screen[c + Cols] = "mouse"
               /\ \A k \in Risen(c + Cols) : k + 1 \in Risen(c)'
  PROVE  OnePointer'
<1>1. ASSUME NEW c \in Screen, screen'[c] = "mouse"
      PROVE  \E k \in Risen(c)' : OnTrail(c, k)
  <2>1. c \in Nat
    BY Cells DEF Screen
  <2>2. CASE screen[c] = "mouse" /\ Risen(c) \subseteq Risen(c)'
    BY <2>2, OneIs
  <2>3. CASE /\ c + Cols \in Screen /\ screen[c + Cols] = "mouse"
             /\ \A k \in Risen(c + Cols) : k + 1 \in Risen(c)'
    <3>1. PICK k \in Risen(c + Cols) : OnTrail(c + Cols, k)
      BY <2>3, OneIs
    <3>2. k \in Nat
      BY <3>1 DEF Risen
    <3>3. k + 1 \in Risen(c)'
      BY <2>3
    <3> QED
      BY <2>1, <3>1, <3>2, <3>3, TrailRises
  <2> QED
    BY <1>1, <2>2, <2>3
<1>2. \A c, k : OnTrail(c, k)' <=> OnTrail(c, k)
  BY DEF OnTrail, CellsFrom
<1> QED
  BY <1>1, <1>2 DEF OnePointer, OnTrail

LEMMA CharKeepsOne == OnePointer /\ KernelChar => OnePointer' /\ low' = low
<1> SUFFICES ASSUME OnePointer, KernelChar PROVE OnePointer' /\ low' = low
  OBVIOUS
<1>0. PointerTypeOK
  BY DEF OnePointer
<1>1. PointerTypeOK'
  <2>1. \A n \in Sizes : 0 \in 0 .. n
    BY SizesFit
  <2>2. putchar' \in {"put", "scroll"} /\ (putchar' = "scroll" => size' \in Sizes) /\ next' = 0
    BY <1>0 DEF KernelChar, PointerTypeOK
  <2>3. putchar' = "put" => size' = 0
    BY <1>0 DEF KernelChar, PointerTypeOK
  <2>4. scrolled' \in Nat /\ printed' \in 0 .. Prints
    BY <1>0, PointerAssumption DEF KernelChar, PointerTypeOK
  <2> QED
    BY <1>0, <2>1, <2>2, <2>3, <2>4 DEF KernelChar, PointerTypeOK
<1>2. ASSUME NEW c \in Screen PROVE Risen(c) \subseteq Risen(c)'
  <2>1. c \in Nat /\ scrolled \in Nat /\ next' = 0 /\ putchar = "idle"
    BY <1>0, Cells DEF Screen, PointerTypeOK, KernelChar
  <2> QED
    BY <2>1 DEF KernelChar, Risen
<1> QED
  BY <1>1, <1>2, TrailKept DEF KernelChar

LEMMA CellKeepsOne == OnePointer /\ ScrollCell => OnePointer' /\ low' = low
<1> SUFFICES ASSUME OnePointer, ScrollCell PROVE OnePointer' /\ low' = low
  OBVIOUS
<1>0. PointerTypeOK
  BY DEF OnePointer
<1>1. size \in Sizes /\ size \in Nat /\ size <= Cols * LowestRow /\ next \in Nat /\ next < size /\ scrolled \in Nat
  BY <1>0, SizesFit DEF PointerTypeOK, ScrollCell
<1>2. next \in Screen /\ next + Cols \in Screen
  BY <1>1, Cells DEF Screen
<1>3. screen' = [screen EXCEPT ![next] = screen[next + Cols]]
  BY DEF ScrollCell, Start
<1>4. PointerTypeOK'
  <2>1. screen' \in [Screen -> {"kernel", "bios", "drive", "mouse"}]
    BY <1>0, <1>2, <1>3 DEF PointerTypeOK
  <2>2. next' \in 0 .. size
    BY <1>1 DEF ScrollCell
  <2> QED
    BY <1>0, <2>1, <2>2 DEF ScrollCell, PointerTypeOK
<1>5. ASSUME NEW c \in Screen, screen'[c] = "mouse"
      PROVE  \/ screen[c] = "mouse" /\ Risen(c) \subseteq Risen(c)'
             \/ /\ c + Cols \in Screen /\ screen[c + Cols] = "mouse"
                /\ \A k \in Risen(c + Cols) : k + 1 \in Risen(c)'
  <2>1. c \in Nat
    BY Cells DEF Screen
  <2>2. CASE c = next
    <3>1. screen[c + Cols] = "mouse"
      BY <1>0, <1>2, <1>3, <1>5, <2>2 DEF PointerTypeOK
    <3>2. \A k \in Risen(c + Cols) : k + 1 \in Risen(c)'
      BY <1>1, <2>1, <2>2, Cells DEF ScrollCell, Risen
    <3> QED
      BY <1>2, <2>2, <3>1, <3>2
  <2>3. CASE c # next
    <3>1. screen[c] = "mouse"
      BY <1>0, <1>3, <1>5, <2>3 DEF PointerTypeOK
    <3>2. Risen(c) \subseteq Risen(c)'
      BY <1>1, <2>1, <2>3 DEF ScrollCell, Risen
    <3> QED
      BY <3>1, <3>2
  <2> QED
    BY <2>2, <2>3
<1> QED
  BY <1>4, <1>5, TrailKept DEF ScrollCell

LEMMA BlankKeepsOne == OnePointer /\ ScrollBlank => OnePointer' /\ low' = low
<1> SUFFICES ASSUME OnePointer, ScrollBlank PROVE OnePointer' /\ low' = low
  OBVIOUS
<1>0. PointerTypeOK
  BY DEF OnePointer
<1>1. PointerTypeOK'
  BY <1>0 DEF ScrollBlank, PointerTypeOK
<1>2. ASSUME NEW c \in Screen, screen'[c] = "mouse" PROVE screen[c] = "mouse" /\ Risen(c) \subseteq Risen(c)'
  <2>1. scrolled \in Nat /\ scrolled' = scrolled /\ putchar' = "put"
    BY <1>0 DEF ScrollBlank, PointerTypeOK
  <2>2. screen[c] = "mouse"
    BY <1>2 DEF ScrollBlank
  <2> QED
    BY <2>1, <2>2 DEF Risen
<1> QED
  BY <1>1, <1>2, TrailKept DEF ScrollBlank

LEMMA PutKeepsOne == OnePointer /\ KernelPut => OnePointer' /\ low' = low
<1> SUFFICES ASSUME OnePointer, KernelPut PROVE OnePointer' /\ low' = low
  OBVIOUS
<1>0. PointerTypeOK
  BY DEF OnePointer
<1>1. PICK place \in Screen : screen' = [screen EXCEPT ![place] = "kernel"]
  BY DEF KernelPut
<1>2. PointerTypeOK'
  BY <1>0, <1>1 DEF KernelPut, PointerTypeOK
<1>3. ASSUME NEW c \in Screen, screen'[c] = "mouse" PROVE screen[c] = "mouse" /\ Risen(c) \subseteq Risen(c)'
  BY <1>0, <1>1, <1>3 DEF KernelPut, Risen, PointerTypeOK
<1> QED
  BY <1>2, <1>3, TrailKept DEF KernelPut

LEMMA KeybKeepsOne == OnePointer /\ KeybPrints => OnePointer' /\ low' = low
<1> SUFFICES ASSUME OnePointer, KeybPrints PROVE OnePointer' /\ low' = low
  OBVIOUS
<1>0. PointerTypeOK /\ scrolled \in Nat
  BY DEF OnePointer, PointerTypeOK
<1>1. PICK place \in Screen :
        \/ /\ screen' = [screen EXCEPT ![place] = "kernel"]
           /\ UNCHANGED scrolled
        \/ /\ \E n \in Sizes : screen' = [c \in Screen |-> IF c = place THEN "kernel" ELSE Scrolled(n, c)]
           /\ scrolled' = scrolled + 1
  BY DEF KeybPrints
<1>2. /\ UNCHANGED <<low, mouse_x, mouse_y, shown, putchar, size, next>>
      /\ printed' \in 0 .. Prints
  BY <1>0, PointerAssumption DEF KeybPrints, PointerTypeOK
<1>3. CASE screen' = [screen EXCEPT ![place] = "kernel"] /\ UNCHANGED scrolled
  <2>1. PointerTypeOK'
    BY <1>0, <1>2, <1>3 DEF PointerTypeOK
  <2>2. ASSUME NEW c \in Screen, screen'[c] = "mouse" PROVE screen[c] = "mouse" /\ Risen(c) \subseteq Risen(c)'
    BY <1>0, <1>2, <1>3, <2>2 DEF Risen, PointerTypeOK
  <2> QED
    BY <1>2, <2>1, <2>2, TrailKept
<1>4. ASSUME NEW n \in Sizes, scrolled' = scrolled + 1,
             screen' = [c \in Screen |-> IF c = place THEN "kernel" ELSE Scrolled(n, c)]
      PROVE  OnePointer'
  <2>1. n \in Nat /\ n <= Cols * LowestRow
    BY SizesFit
  <2>2. \A c \in Screen : c < n => c \in Nat /\ c + Cols \in Screen
    BY <2>1, Cells DEF Screen
  <2>3. PointerTypeOK'
    <3>1. ASSUME NEW c \in Screen PROVE Scrolled(n, c) \in {"kernel", "bios", "drive", "mouse"}
      BY <1>0, <2>2 DEF Scrolled, Start, PointerTypeOK
    <3>2. screen' \in [Screen -> {"kernel", "bios", "drive", "mouse"}]
      BY <1>4, <3>1
    <3> QED
      BY <1>0, <1>2, <1>4, <3>2 DEF PointerTypeOK
  <2>4. ASSUME NEW c \in Screen, screen'[c] = "mouse"
        PROVE  \/ screen[c] = "mouse" /\ Risen(c) \subseteq Risen(c)'
               \/ /\ c + Cols \in Screen /\ screen[c + Cols] = "mouse"
                  /\ \A k \in Risen(c + Cols) : k + 1 \in Risen(c)'
    <3>1. c \in Nat
      BY Cells DEF Screen
    <3>2. Scrolled(n, c) = "mouse"
      BY <1>4, <2>4
    <3>3. CASE c < n
      <4>1. screen[c + Cols] = "mouse" /\ c + Cols \in Screen
        BY <2>2, <3>2, <3>3 DEF Scrolled, Start
      <4>2. next \in Int
        BY <1>0, SizesFit DEF PointerTypeOK
      <4>3. \A k \in Risen(c + Cols) : k + 1 \in Risen(c)'
        BY <1>0, <1>2, <1>4, <3>1, <4>2, Cells DEF Risen
      <4> QED
        BY <4>1, <4>3
    <3>4. CASE ~ (c < n)
      <4>1. screen[c] = "mouse"
        BY <3>2, <3>4 DEF Scrolled
      <4>2. Risen(c) \subseteq Risen(c)'
        BY <1>0, <1>2, <1>4 DEF Risen
      <4> QED
        BY <4>1, <4>2
    <3> QED
      BY <3>3, <3>4
  <2> QED
    BY <1>2, <2>3, <2>4, TrailKept
<1> QED
  BY <1>1, <1>2, <1>3, <1>4

LEMMA PointerKeepsOne == OnePointer /\ PointerNext => OnePointer' /\ low' = low
  BY MoveKeepsOne, CharKeepsOne, CellKeepsOne, BlankKeepsOne, PutKeepsOne, KeybKeepsOne DEF PointerNext, Printing

(***************************************************************************)
(* Both.                                                                   *)
(***************************************************************************)
LEMMA DiskInitIInv == DiskInit => DiskIInv
<1> SUFFICES ASSUME DiskInit PROVE DiskIInv
  OBVIOUS
<1>1. DriverIInv /\ OnePointer
  BY DriverInit, PointerInitOne DEF DiskInit
<1>2. NameIInv
  BY DEF DiskInit, Init, NameIInv, NameIsTheDrives, Idle
<1> QED
  BY <1>1, <1>2 DEF DiskIInv

LEMMA DriverKeepsName == DiskIInv /\ DriverStep => NameIInv' /\ OnePointer'
<1> SUFFICES ASSUME DiskIInv, DriverStep PROVE NameIInv' /\ OnePointer'
  OBVIOUS
<1>0. DriverIInv /\ TypeOK /\ OnePointer /\ PointerTypeOK /\ NameIInv
  BY DEF DiskIInv, DriverIInv, OnePointer
<1>1. \A w \in 0 .. IdentLen - 1 : w \in Saved
  BY DiskAssumption, SavedOnScreen DEF Saved
<1>2. OnePointer'
  <2>1. low' \in [Saved -> {"bios", "drive"}]
    BY <1>0 DEF DriverStep, Identified, PointerTypeOK
  <2> QED
    BY <1>0, <2>1 DEF DriverStep, textVars, OnePointer, PointerTypeOK, Risen
<1>3. drive' = drive
  BY DEF DriverStep, Driver, Identify, Detect, WaitBsy, Disable, Online, Sus, ReadOne, Retry, Retry2,
         Transfer, Verify, Issue, Drain, device
<1>4. ASSUME drive = "good" PROVE NameIInv'
  <2>0. status \in {Idle, Busy, Ready} /\ "ERR" \notin status /\ status # {}
    BY <1>0, <1>4 DEF NameIInv, Idle, Busy, Ready
  <2>1. status' \in {Idle, Busy, Ready}
    BY <1>4, <2>0 DEF DriverStep, Driver, Identify, Detect, WaitBsy, Disable, Online, Sus, ReadOne, Retry,
         Retry2, Transfer, Verify, Issue, Drain, device
  <2>2. ASSUME pc' = "sus" PROVE \A w \in 0 .. IdentLen - 1 : low'[w] = "drive"
    <3>1. pc = "pm_stat_read"
      BY <2>0, <2>2 DEF DriverStep, Driver, Identify, Detect, WaitBsy, Disable, Online, Sus, ReadOne, Retry,
         Retry2, Transfer, Verify
    <3>2. low' = Identified
      BY <2>0, <3>1 DEF DriverStep
    <3>3. ASSUME NEW w \in 0 .. IdentLen - 1 PROVE low'[w] = "drive"
      BY <1>1, <3>2, <3>3, DiskAssumption DEF Identified
    <3> QED
      BY <3>3
  <2>3. NameIsTheDrives'
    <3>1. CASE pc = "sus"
      BY <1>0, <1>4, <3>1, DiskAssumption DEF NameIInv, NameIsTheDrives, DriverStep
    <3>2. CASE pc # "sus"
      <4>1. str' = str
        BY <3>2 DEF DriverStep
      <4>2. Identifying => Identifying'
        BY <3>2 DEF Identifying, DriverStep, Driver, Identify, Detect, WaitBsy, Disable, Online, Sus, ReadOne,
           Retry, Retry2, Transfer, Verify
      <4> QED
        BY <1>0, <1>4, <4>1, <4>2 DEF NameIInv, NameIsTheDrives, Identifying
    <3> QED
      BY <3>1, <3>2
  <2> QED
    BY <2>1, <2>2, <2>3 DEF NameIInv
<1> QED
  BY <1>2, <1>3, <1>4 DEF NameIInv

LEMMA DiskNextIInv == DiskIInv /\ [DiskNext]_diskVars => DiskIInv'
<1> SUFFICES ASSUME DiskIInv, [DiskNext]_diskVars PROVE DiskIInv'
  OBVIOUS
<1>0. DriverIInv /\ OnePointer /\ NameIInv
  BY DEF DiskIInv
<1>1. CASE DriverStep
  BY <1>0, <1>1, DriverKeepsName, DriverNext DEF DiskIInv, DriverStep, Next
<1>2. CASE Complete /\ UNCHANGED <<pointerVars, str>>
  <2>1. DriverIInv'
    BY <1>0, <1>2, DriverNext DEF Next
  <2>2. OnePointer'
    BY <1>0, <1>2 DEF pointerVars, textVars, OnePointer, PointerTypeOK, Risen
  <2>3. NameIInv'
    BY <1>0, <1>2 DEF Complete, pointerVars, NameIInv, NameIsTheDrives
  <2> QED
    BY <2>1, <2>2, <2>3 DEF DiskIInv
<1>3. CASE PointerNext /\ UNCHANGED <<vars, str>>
  <2>1. DriverIInv'
    BY <1>0, <1>3, DriverNext
  <2>2. OnePointer' /\ low' = low
    BY <1>0, <1>3, PointerKeepsOne
  <2>3. NameIInv'
    BY <1>0, <1>3, <2>2 DEF vars, device, NameIInv, NameIsTheDrives
  <2> QED
    BY <2>1, <2>2, <2>3 DEF DiskIInv
<1>4. CASE UNCHANGED diskVars
  <2>1. DriverIInv'
    BY <1>0, <1>4, DriverNext DEF diskVars
  <2>2. OnePointer'
    BY <1>0, <1>4 DEF diskVars, pointerVars, textVars, OnePointer, PointerTypeOK, Risen
  <2>3. NameIInv'
    BY <1>0, <1>4 DEF diskVars, vars, device, pointerVars, NameIInv, NameIsTheDrives
  <2> QED
    BY <2>1, <2>2, <2>3 DEF DiskIInv
<1> QED
  BY <1>1, <1>2, <1>3, <1>4 DEF DiskNext

\* The inductive invariant of the driver, its drive and the moving mouse.
THEOREM DiskInvariant == DiskSpec => []DiskIInv
<1>1. DiskInit => DiskIInv
  BY DiskInitIInv
<1>2. DiskIInv /\ [DiskNext]_diskVars => DiskIInv'
  BY DiskNextIInv
<1> QED
  BY <1>1, <1>2, PTL DEF DiskSpec

\* A sector goes into the buffer only while the drive has one to give, whatever
\* the drive is (ata.cc:81-101,166-170).
THEOREM TransfersWhenReady == DiskSpec => []TransferOnlyReady
<1>1. DiskIInv => TransferOnlyReady
  BY DEF DiskIInv, DriverIInv, TransferOnlyReady
<1> QED
  BY <1>1, DiskInvariant, PTL

\* For registers of any width, any number of sectors and any first one: what a
\* read leaves in the buffer is the sector it was for, of the ones that the
\* registers tell apart (2^28), and beyond them the one its lower bits say
\* (ata.cc:106-173).
THEOREM RightSector == DiskSpec => []SectorRequested
<1>1. DiskIInv => SectorRequested
  BY DEF DiskIInv, DriverIInv
<1> QED
  BY <1>1, DiskInvariant, PTL

\* For every screen, movement and number of characters printed, also when mouse
\* or keyb come into the middle of a scroll: the pointer is where mouse printed
\* it last, or as far above as the scrolls since have moved it, and the low
\* memory never changes by it (main.cc:157-178, tty.cc:13-24,42-57,98).
THEOREM PointerInOnePlace == DiskSpec => []OnePointer
<1>1. DiskIInv => OnePointer
  BY DEF DiskIInv
<1> QED
  BY <1>1, DiskInvariant, PTL

\* However often the mouse moves between the transfer of the identification and
\* the reading of the name, the name is the drive's (ata.cc:66-69,187-200).
THEOREM NameSurvivesMouse == DiskSpec => []NameIsTheDrives
<1>1. DiskIInv => NameIsTheDrives
  BY DEF DiskIInv, NameIInv, NameIsTheDrives
<1> QED
  BY <1>1, DiskInvariant, PTL
=============================================================================
