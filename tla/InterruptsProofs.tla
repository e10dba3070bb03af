-------------------------- MODULE InterruptsProofs --------------------------
(***************************************************************************)
(* Proofs about Interrupts: for every set of lines and exceptions and any  *)
(* depth of frames, interrupts find their gates, routines do not nest,     *)
(* each is acknowledged once and for itself, and the clock is not wedged.  *)
(***************************************************************************)
EXTENDS Interrupts, TLAPS

(***************************************************************************)
(* The inductive invariant.                                                *)
(***************************************************************************)
\* idt_load is behind kernel_main; and WriteB is.
Loaded == main \notin {"init_idt", "isrs_install", "irq_remap", "irq_install", "idt_load"}
Enabled == main \in {"hlt", "asleep", "run"}

\* How far the boot has come.
SetUp ==
    /\ ~Loaded => iflag = 0 /\ depth = 0
    /\ Loaded \/ main \in {"irq_remap", "irq_install", "idt_load"} => isr \subseteq gates
    /\ Loaded \/ main = "idt_load" => irq \subseteq gates
    /\ Loaded \/ main \in {"irq_install", "idt_load"} => icw2 = [master |-> 32, slave |-> 40]
    /\ main \in Boot => installed = 0
    /\ main = "install_ints" => installed < 6
    /\ main \in Program \/ Enabled => installed = 6
    /\ installed >= 3 => Clock \in routines

IrqPlaces == {"stub", "routine", "rtc_call", "rtc_select", "rtc_read", "eoi_slave", "eoi_master", "iret"}
FaultPlaces == {"stub", "fault_handler", "iret", "again", "halt"}

\* Where interrupts are enabled, and where they will be after a return, no
\* routine has been interrupted.
Stack ==
    /\ \A d \in 1 .. depth :
          /\ IsIrq(d) => frame[d].vec - 32 \in Irqs \union {Clock} /\ frame[d].at \in IrqPlaces
          /\ ~IsIrq(d) => frame[d].vec \in Faults /\ frame[d].at \in FaultPlaces
          /\ frame[d].saved = 1 => \A c \in 1 .. d - 1 : ~IsIrq(c)
    /\ iflag = 1 => \A d \in 1 .. depth : ~IsIrq(d)
    /\ \A c, d \in 1 .. depth : IsIrq(c) /\ IsIrq(d) => c = d

\* What is in service is what the one routine has not acknowledged yet; of a
\* spurious interrupt it may be nothing.
InService ==
    /\ (\A d \in 1 .. depth : ~IsIrq(d)) => isM = {} /\ isS = {}
    /\ \A d \in 1 .. depth : IsIrq(d) =>
          /\ isM \subseteq {Line(frame[d].vec - 32)}
          /\ isS \subseteq {frame[d].vec - 32}
          /\ frame[d].at = "eoi_slave" => frame[d].vec >= 40
          /\ frame[d].at = "eoi_master" => isS = {}
          /\ frame[d].at = "iret" => isM = {} /\ isS = {}

\* Until its interrupt is enabled the clock does not get at the index port;
\* afterwards kernel_main leaves it alone.
ClockKept ==
    /\ regB = IF Enabled THEN BootB \union {Pie} ELSE BootB
    /\ ~Enabled => Clock \notin irr /\ \A d \in 1 .. depth : frame[d].vec # 40
    /\ main \in {"read_B", "write_B"} => cmos = "B"
    /\ main \in {"select_B_again", "write_B"} => prev = BootB
    /\ \A d \in 1 .. depth :
          /\ frame[d].at \in {"rtc_call", "rtc_select", "rtc_read"} => frame[d].vec = 40
          /\ frame[d].vec = 40 => frame[d].at # "routine"
          /\ frame[d].at = "rtc_read" => cmos = "C"
    /\ pf = 1 /\ Pie \in regB =>
          \/ Clock \in irr
          \/ \E d \in 1 .. depth : /\ frame[d].vec = 40
                                  /\ frame[d].at \in {"stub", "rtc_call", "rtc_select", "rtc_read"}

InterruptsIInv == TypeOK /\ SetUp /\ Stack /\ InService /\ ClockKept

(***************************************************************************)
(* Frames.                                                                 *)
(***************************************************************************)
FrameSet == [vec : 0 .. 255, at : Places, saved : {0, 1}]

LEMMA Lines ==
  ASSUME NEW n \in Irqs \union {Clock}
  PROVE  n \in 0 .. 15 /\ n # 2 /\ 32 + n \in irq /\ Line(n) \in 0 .. 7 /\ (n >= 8 => n \in 8 .. 15)
  BY InterruptsAssumption DEF Clock, irq, Line

\* The gate of an interrupt is entered with a new frame over the others.
LEMMA Entered ==
  ASSUME TypeOK, NEW v \in 0 .. 255, EnterGate(v)
  PROVE  /\ depth' = depth + 1 /\ depth' \in 0 .. StackDepth /\ iflag' = 0
         /\ frame' \in [1 .. StackDepth -> FrameSet]
         /\ frame'[depth + 1] = [vec |-> v, at |-> "stub", saved |-> iflag]
         /\ \A d \in 1 .. depth : frame'[d] = frame[d]
<1>0. StackDepth \in Nat /\ depth \in 0 .. StackDepth /\ iflag \in {0, 1} /\ frame \in [1 .. StackDepth -> FrameSet]
  BY InterruptsAssumption DEF TypeOK, FrameSet
<1>1. depth < StackDepth /\ depth' = depth + 1 /\ iflag' = 0 /\ frame' = [frame EXCEPT ![depth + 1] = regs(v)]
  BY DEF EnterGate
<1>2. regs(v) = [vec |-> v, at |-> "stub", saved |-> iflag] /\ regs(v) \in FrameSet
  BY <1>0 DEF regs, FrameSet, Places
<1>3. depth + 1 \in 1 .. StackDepth /\ \A d \in 1 .. depth : d \in 1 .. StackDepth /\ d # depth + 1
  BY <1>0, <1>1
<1> QED
  BY <1>0, <1>1, <1>2, <1>3

\* A step of a routine moves on the frame on the top only.
LEMMA Gone ==
  ASSUME TypeOK, depth > 0, NEW place \in Places, Goto(place)
  PROVE  /\ frame' \in [1 .. StackDepth -> FrameSet]
         /\ \A d \in 1 .. depth :
               /\ d \in Int
               /\ frame'[d].vec = frame[d].vec /\ frame'[d].saved = frame[d].saved
               /\ frame'[d].at = IF d = depth THEN place ELSE frame[d].at
<1>0. StackDepth \in Nat /\ depth \in 1 .. StackDepth /\ frame \in [1 .. StackDepth -> FrameSet]
  BY InterruptsAssumption DEF TypeOK, FrameSet
<1>1. [vec |-> frame[depth].vec, at |-> place, saved |-> frame[depth].saved] \in FrameSet
  BY <1>0 DEF FrameSet
<1>2. frame' \in [1 .. StackDepth -> FrameSet]
  BY <1>0, <1>1 DEF Goto
<1>3. ASSUME NEW d \in 1 .. depth
      PROVE  /\ d \in Int
             /\ frame'[d].vec = frame[d].vec /\ frame'[d].saved = frame[d].saved
             /\ frame'[d].at = IF d = depth THEN place ELSE frame[d].at
  <2>1. d \in 1 .. StackDepth /\ d \in Int
    BY <1>0
  <2>2. CASE d = depth
    <3>1. frame'[d] = [vec |-> frame[depth].vec, at |-> place, saved |-> frame[depth].saved]
      BY <1>0, <2>2 DEF Goto
    <3> QED
      BY <2>1, <2>2, <3>1
  <2>3. CASE d # depth
    BY <1>0, <2>1, <2>3 DEF Goto
  <2> QED
    BY <2>2, <2>3
<1> QED
  BY <1>2, <1>3

LEMMA TopFrame ==
  ASSUME TypeOK, depth > 0
  PROVE  depth \in 1 .. StackDepth /\ depth \in 1 .. depth /\ frame[depth] \in FrameSet
  BY InterruptsAssumption DEF TypeOK, FrameSet

(***************************************************************************)
(* Types.                                                                  *)
(***************************************************************************)
LEMMA InitInvariant == Init => InterruptsIInv
<1> SUFFICES ASSUME Init PROVE InterruptsIInv
  OBVIOUS
<1>1. TypeOK
  BY InterruptsAssumption DEF Init, TypeOK, Boot, Places
<1>2. SetUp
  BY DEF Init, SetUp, Loaded, Enabled, Boot, Program
<1>3. Stack /\ InService
  BY DEF Init, Stack, InService
<1>4. ClockKept
  <2>1. Clock \notin irr /\ Pie \notin regB /\ regB = BootB
    BY InterruptsAssumption DEF Init
  <2>2. ~Enabled /\ main = "init_idt" /\ depth = 0
    BY DEF Init, Enabled
  <2>3. 1 .. depth = {}
    BY <2>2
  <2> QED
    BY <2>1, <2>2, <2>3 DEF ClockKept
<1> QED
  BY <1>1, <1>2, <1>3, <1>4 DEF InterruptsIInv

LEMMA MainType == TypeOK /\ SetUp /\ Main => TypeOK'
<1> SUFFICES ASSUME TypeOK, SetUp, Main PROVE TypeOK'
  OBVIOUS
<1> USE DEF TypeOK, setup, cpu, pic, rtc, Boot, Program
<1>1. CASE InitIdt
  BY <1>1 DEF InitIdt
<1>2. CASE IsrsInstall
  BY <1>2 DEF IsrsInstall, idt_set_gate, isr
<1>3. CASE IrqRemap
  BY <1>3 DEF IrqRemap
<1>4. CASE IrqInstall
  <2>1. irq \subseteq 0 .. 255
    BY DEF irq
  <2> QED
    BY <1>4, <2>1 DEF IrqInstall, idt_set_gate
<1>5. CASE IdtLoad
  BY <1>5 DEF IdtLoad
<1>6. CASE InitGdt
  BY <1>6 DEF InitGdt
<1>7. CASE InstallInts
  <2>1. installed \in 0 .. 5
    BY <1>7 DEF InstallInts, InMain, SetUp
  <2>2. Installs[installed + 1] \in 0 .. 15
    BY <2>1 DEF Installs, Clock
  <2>3. installed' \in 0 .. 6
    BY <1>7, <2>1 DEF InstallInts
  <2>4. routines' \subseteq 0 .. 15
    <3>1. routines' = routines \union {Installs[installed + 1]}
      BY <1>7 DEF InstallInts, irq_install_handler
    <3>2. routines \subseteq 0 .. 15
      OBVIOUS
    <3> HIDE DEF TypeOK
    <3> QED
      BY <2>2, <3>1, <3>2
  <2>5. main' \in {"install_ints", "select_B"}
    BY <1>7 DEF InstallInts, InMain
  <2> QED
    BY <1>7, <2>3, <2>4, <2>5 DEF InstallInts
<1>8. CASE SelectB \/ SelectBAgain
  <2>1. CASE SelectB
    BY <2>1 DEF SelectB
  <2>2. CASE SelectBAgain
    BY <2>2 DEF SelectBAgain
  <2> QED
    BY <1>8, <2>1, <2>2
<1>9. CASE ReadB
  <2>1. prev' \subseteq BootB \union {Pie}
    <3>1. prev' = regB \/ prev' = {}
      BY <1>9 DEF ReadB
    <3> QED
      BY <3>1
  <2> QED
    BY <1>9, <2>1 DEF ReadB
<1>10. CASE WriteB
  <2>1. irr' \subseteq Irqs \union {Clock}
    <3>1. irr' = irr \/ irr' = irr \union {Clock}
      BY <1>10 DEF WriteB
    <3>2. irr \subseteq Irqs \union {Clock}
      OBVIOUS
    <3> HIDE DEF TypeOK
    <3> QED
      BY <3>1, <3>2
  <2>2. regB' \subseteq BootB \union {Pie}
    <3>1. regB' = regB \/ regB' = prev \union {Pie}
      BY <1>10 DEF WriteB
    <3>2. regB \subseteq BootB \union {Pie} /\ prev \subseteq BootB \union {Pie}
      OBVIOUS
    <3> HIDE DEF TypeOK
    <3> QED
      BY <3>1, <3>2
  <2> QED
    BY <1>10, <2>1, <2>2 DEF WriteB
<1>11. CASE Hlt
  BY <1>11 DEF Hlt
<1> QED
  BY <1>1, <1>2, <1>3, <1>4, <1>5, <1>6, <1>7, <1>8, <1>9, <1>10, <1>11 DEF Main, descriptor_init

(***************************************************************************)
(* kernel_main runs between interrupts, when there is no frame.            *)
(***************************************************************************)
LEMMA MainSetUp == TypeOK /\ SetUp /\ Main => SetUp'
<1> SUFFICES ASSUME TypeOK, SetUp, Main PROVE SetUp'
  OBVIOUS
<1> USE DEF SetUp, setup, cpu, pic, rtc, Boot, Program, InMain, Loaded, Enabled
<1>1. CASE InitIdt
  BY <1>1 DEF InitIdt
<1>2. CASE IsrsInstall
  BY <1>2 DEF IsrsInstall, idt_set_gate
<1>3. CASE IrqRemap
  BY <1>3 DEF IrqRemap
<1>4. CASE IrqInstall
  <2>1. gates' = gates \union irq /\ isr \subseteq gates
    BY <1>4 DEF IrqInstall, idt_set_gate
  <2>2. isr \subseteq gates' /\ irq \subseteq gates'
    BY <2>1
  <2> QED
    BY <1>4, <2>2 DEF IrqInstall
<1>5. CASE IdtLoad
  BY <1>5 DEF IdtLoad
<1>6. CASE InitGdt
  BY <1>6 DEF InitGdt
<1>7. CASE InstallInts
  <2>1. installed \in 0 .. 5
    BY <1>7 DEF InstallInts, TypeOK
  <2>2. routines' = routines \union {Installs[installed + 1]}
    BY <1>7 DEF InstallInts, irq_install_handler
  <2>3. installed' = installed + 1
    BY <1>7 DEF InstallInts
  <2>4. installed' >= 3 => Clock \in routines'
    <3>1. CASE installed = 2
      <4>1. Installs[installed + 1] = Clock
        BY <3>1 DEF Installs
      <4> QED
        BY <2>2, <4>1
    <3>2. CASE installed >= 3
      BY <2>2, <3>2
    <3> QED
      BY <2>1, <2>3, <3>1, <3>2
  <2>5. main = "install_ints" /\ main' = IF installed + 1 = 6 THEN "select_B" ELSE main
    BY <1>7 DEF InstallInts
  <2> QED
    BY <1>7, <2>1, <2>3, <2>4, <2>5 DEF InstallInts
<1>8. CASE SelectB
  BY <1>8 DEF SelectB
<1>9. CASE ReadB
  BY <1>9 DEF ReadB
<1>10. CASE SelectBAgain
  BY <1>10 DEF SelectBAgain
<1>11. CASE WriteB
  BY <1>11 DEF WriteB
<1>12. CASE Hlt
  BY <1>12 DEF Hlt
<1> QED
  BY <1>1, <1>2, <1>3, <1>4, <1>5, <1>6, <1>7, <1>8, <1>9, <1>10, <1>11, <1>12 DEF Main, descriptor_init

LEMMA MainAlone ==
  ASSUME Main
  PROVE  depth = 0 /\ depth' = 0 /\ frame' = frame /\ isM' = isM /\ isS' = isS
<1> USE DEF setup, cpu, pic, rtc, InMain
<1>1. CASE descriptor_init
  BY <1>1 DEF descriptor_init, InitIdt, IsrsInstall, IrqRemap, IrqInstall, IdtLoad, InitGdt
<1>2. CASE InstallInts \/ Hlt
  BY <1>2 DEF InstallInts, Hlt
<1>3. CASE SelectB \/ ReadB \/ SelectBAgain \/ WriteB
  BY <1>3 DEF SelectB, ReadB, SelectBAgain, WriteB
<1> QED
  BY <1>1, <1>2, <1>3 DEF Main

LEMMA MainClock == TypeOK /\ ClockKept /\ Main => ClockKept'
<1> SUFFICES ASSUME TypeOK, ClockKept, Main PROVE ClockKept'
  OBVIOUS
<1>0. depth = 0 /\ 1 .. depth = {} /\ 1 .. depth' = {}
  BY MainAlone
<1>n. Pie \notin BootB
  BY InterruptsAssumption
<1> USE DEF ClockKept, setup, cpu, pic, rtc, InMain, Enabled
<1>1. CASE descriptor_init
  BY <1>0, <1>1, <1>n DEF descriptor_init, InitIdt, IsrsInstall, IrqRemap, IrqInstall, IdtLoad, InitGdt
<1>2. CASE InstallInts
  BY <1>0, <1>2, <1>n DEF InstallInts
<1>3. CASE SelectB
  BY <1>0, <1>3, <1>n DEF SelectB
<1>4. CASE ReadB
  BY <1>0, <1>4, <1>n DEF ReadB
<1>5. CASE SelectBAgain
  BY <1>0, <1>5, <1>n DEF SelectBAgain
<1>6. CASE WriteB
  <2>1. cmos = "B" /\ prev = BootB /\ regB = BootB /\ main = "write_B" /\ main' = "hlt"
    BY <1>6 DEF WriteB
  <2>2. regB' = BootB \union {Pie} /\ pf' = pf
    BY <1>6, <2>1 DEF WriteB
  <2>3. pf = 1 => Clock \in irr'
    BY <1>6, <1>n, <2>1 DEF WriteB
  <2> QED
    BY <1>0, <2>1, <2>2, <2>3
<1>7. CASE Hlt
  BY <1>0, <1>7, <1>n DEF Hlt
<1> QED
  BY <1>1, <1>2, <1>3, <1>4, <1>5, <1>6, <1>7 DEF Main

LEMMA MainStep == InterruptsIInv /\ Main => InterruptsIInv'
<1> SUFFICES ASSUME InterruptsIInv, Main PROVE InterruptsIInv'
  OBVIOUS
<1>1. depth = 0 /\ 1 .. depth = {} /\ 1 .. depth' = {} /\ isM' = isM /\ isS' = isS
  BY MainAlone
<1>2. Stack'
  BY <1>1 DEF Stack
<1>3. InService'
  BY <1>1 DEF InterruptsIInv, InService
<1> QED
  BY <1>2, <1>3, MainType, MainSetUp, MainClock DEF InterruptsIInv

(***************************************************************************)
(* A stub or a handler goes on: what becomes of each part when the frame   *)
(* on the top moves to another place.                                      *)
(***************************************************************************)
LEMMA LaterSetUp ==
  ASSUME SetUp, Loaded, UNCHANGED setup, icw2' = icw2, main' = main \/ (main = "asleep" /\ main' = "run")
  PROVE  SetUp'
  BY DEF SetUp, Loaded, Enabled, Boot, Program, setup

LEMMA MovedStack ==
  ASSUME TypeOK, Stack, depth > 0, NEW place \in Places, Goto(place), depth' = depth,
         place \in IF IsIrq(depth) THEN IrqPlaces ELSE FaultPlaces,
         iflag' = 0 \/ iflag' = iflag \/ (iflag' = frame[depth].saved /\ ~IsIrq(depth))
  PROVE  Stack'
<1>1. \A d \in 1 .. depth :
        /\ d \in Int
        /\ frame'[d].vec = frame[d].vec /\ frame'[d].saved = frame[d].saved
        /\ frame'[d].at = IF d = depth THEN place ELSE frame[d].at
  BY Gone
<1>2. \A d \in 1 .. depth : IsIrq(d)' <=> IsIrq(d)
  BY <1>1 DEF IsIrq
<1>3. \A d \in 1 .. depth :
        /\ IsIrq(d) => frame'[d].vec - 32 \in Irqs \union {Clock} /\ frame'[d].at \in IrqPlaces
        /\ ~IsIrq(d) => frame'[d].vec \in Faults /\ frame'[d].at \in FaultPlaces
        /\ frame'[d].saved = 1 => \A c \in 1 .. d - 1 : ~IsIrq(c)
  BY <1>1 DEF Stack
<1>4. \A d \in 1 .. depth : \A c \in 1 .. d - 1 : c \in 1 .. depth
  BY DEF TypeOK
<1>5. iflag' = 1 => \A d \in 1 .. depth : ~IsIrq(d)
  <2> SUFFICES ASSUME iflag' = 1, NEW d \in 1 .. depth PROVE ~IsIrq(d)
    OBVIOUS
  <2>1. CASE iflag = 1
    BY <2>1 DEF Stack
  <2>2. CASE frame[depth].saved = 1 /\ ~IsIrq(depth)
    <3>1. d = depth \/ d \in 1 .. depth - 1
      BY DEF TypeOK
    <3> QED
      BY <2>2, <3>1, TopFrame DEF Stack
  <2> QED
    BY <2>1, <2>2
<1> QED
  BY <1>2, <1>3, <1>4, <1>5 DEF Stack

LEMMA MovedService ==
  ASSUME TypeOK, Stack, InService, depth > 0, NEW place \in Places, Goto(place), depth' = depth,
         isM' \subseteq isM, isS' \subseteq isS,
         place = "eoi_slave" => frame[depth].vec >= 40,
         IsIrq(depth) /\ place = "eoi_master" => isS' = {},
         IsIrq(depth) /\ place = "iret" => isM' = {} /\ isS' = {}
  PROVE  InService'
<1>1. \A d \in 1 .. depth :
        /\ frame'[d].vec = frame[d].vec
        /\ frame'[d].at = IF d = depth THEN place ELSE frame[d].at
  BY Gone
<1>2. \A d \in 1 .. depth : IsIrq(d)' <=> IsIrq(d)
  BY <1>1 DEF IsIrq
<1>3. (\A d \in 1 .. depth : ~IsIrq(d)) => isM' = {} /\ isS' = {}
  BY DEF InService
<1>4. ASSUME NEW d \in 1 .. depth, IsIrq(d)
      PROVE  /\ isM' \subseteq {Line(frame'[d].vec - 32)}
             /\ isS' \subseteq {frame'[d].vec - 32}
             /\ frame'[d].at = "eoi_slave" => frame'[d].vec >= 40
             /\ frame'[d].at = "eoi_master" => isS' = {}
             /\ frame'[d].at = "iret" => isM' = {} /\ isS' = {}
  <2>1. /\ isM \subseteq {Line(frame[d].vec - 32)}
        /\ isS \subseteq {frame[d].vec - 32}
        /\ frame[d].at = "eoi_slave" => frame[d].vec >= 40
        /\ frame[d].at = "eoi_master" => isS = {}
        /\ frame[d].at = "iret" => isM = {} /\ isS = {}
    BY <1>4 DEF InService
  <2>2. CASE d = depth
    BY <1>1, <1>4, <2>1, <2>2
  <2>3. CASE d # depth
    BY <1>1, <2>1, <2>3
  <2> QED
    BY <2>2, <2>3
<1> QED
  BY <1>2, <1>3, <1>4 DEF InService

Unread == {"stub", "rtc_call", "rtc_select", "rtc_read"}

LEMMA MovedClock ==
  ASSUME TypeOK, Stack, ClockKept, depth > 0, NEW place \in Places, Goto(place), depth' = depth,
         main' = main, irr' = irr, regB' = regB, prev' = prev,
         place \in {"rtc_call", "rtc_select", "rtc_read"} => frame[depth].vec = 40,
         frame[depth].vec = 40 => place # "routine",
         cmos' = cmos \/ frame[depth].vec = 40,
         place = "rtc_read" => cmos' = "C",
         pf' = 1 => pf = 1 /\ (frame[depth].vec = 40 /\ frame[depth].at \in Unread => place \in Unread)
  PROVE  ClockKept'
<1>0. depth \in 1 .. depth /\ depth \in Int
  BY TopFrame
<1>1. \A d \in 1 .. depth :
        /\ frame'[d].vec = frame[d].vec
        /\ frame'[d].at = IF d = depth THEN place ELSE frame[d].at
  BY Gone
<1>2. Enabled' = Enabled
  BY DEF Enabled
<1>3. ~Enabled => cmos' = cmos
  BY <1>0 DEF ClockKept
<1>4. ASSUME NEW d \in 1 .. depth
      PROVE  /\ frame'[d].at \in {"rtc_call", "rtc_select", "rtc_read"} => frame'[d].vec = 40
             /\ frame'[d].vec = 40 => frame'[d].at # "routine"
             /\ frame'[d].at = "rtc_read" => cmos' = "C"
  <2>1. CASE d = depth
    BY <1>1, <2>1
  <2>2. CASE d # depth
    <3>1. /\ frame[d].at \in {"rtc_call", "rtc_select", "rtc_read"} => frame[d].vec = 40
          /\ frame[d].vec = 40 => frame[d].at # "routine"
          /\ frame[d].at = "rtc_read" => cmos = "C"
      BY DEF ClockKept
    <3>2. frame[depth].vec = 40 => frame[d].vec # 40
      BY <1>0, <2>2 DEF Stack, IsIrq
    <3> QED
      BY <1>1, <2>2, <3>1, <3>2
  <2> QED
    BY <2>1, <2>2
<1>5. ASSUME pf' = 1, Pie \in regB'
      PROVE  Clock \in irr' \/ \E d \in 1 .. depth : frame'[d].vec = 40 /\ frame'[d].at \in Unread
  <2>1. CASE Clock \in irr
    BY <2>1
  <2>2. CASE \E d \in 1 .. depth : frame[d].vec = 40 /\ frame[d].at \in Unread
    BY <1>1, <1>5, <2>2
  <2> QED
    BY <1>5, <2>1, <2>2 DEF ClockKept, Unread
<1>6. ~Enabled => Clock \notin irr' /\ \A d \in 1 .. depth : frame'[d].vec # 40
  BY <1>1 DEF ClockKept
<1> QED
  BY <1>2, <1>3, <1>4, <1>5, <1>6 DEF ClockKept, Enabled, Unread

\* An end of interrupt retires all there is when there is at most one.
LEMMA Retired ==
  ASSUME NEW is \in SUBSET Int, NEW n \in Int, is \subseteq {n}
  PROVE  Retire(is) = {}
<1> SUFFICES ASSUME NEW s \in is, NEW t \in is, t < s PROVE FALSE
  BY DEF Retire
<1>1. s = n /\ t = n
  OBVIOUS
<1> QED
  BY <1>1

LEMMA RetireLess == ASSUME NEW is PROVE Retire(is) \subseteq is
  BY DEF Retire

LEMMA HandlerTop ==
  ASSUME InterruptsIInv, depth > 0
  PROVE  /\ Loaded /\ depth \in 1 .. depth
         /\ frame[depth].vec \in 0 .. 255 /\ frame[depth].saved \in {0, 1} /\ frame[depth].at \in Places
         /\ IsIrq(depth) <=> frame[depth].vec >= 32
         /\ IsIrq(depth) => frame[depth].at \in IrqPlaces /\ frame[depth].vec - 32 \in Irqs \union {Clock}
         /\ ~IsIrq(depth) => frame[depth].at \in FaultPlaces
<1>1. TypeOK /\ SetUp /\ Stack
  BY DEF InterruptsIInv
<1>2. depth \in 1 .. depth /\ frame[depth] \in FrameSet
  BY <1>1, TopFrame
<1> QED
  BY <1>1, <1>2 DEF SetUp, Stack, FrameSet, IsIrq

LEMMA StubStep == InterruptsIInv /\ Stub => InterruptsIInv'
<1> SUFFICES ASSUME InterruptsIInv, Stub PROVE InterruptsIInv'
  OBVIOUS
<1> DEFINE place == CASE ~IsIrq(depth) -> "fault_handler"
                      [] Irq = Clock /\ Clock \in routines -> "rtc_call"
                      [] OTHER -> "routine"
<1>0. TypeOK /\ SetUp /\ Stack /\ InService /\ ClockKept
  BY DEF InterruptsIInv
<1>1. /\ depth > 0 /\ frame[depth].at = "stub" /\ Goto(place) /\ iflag' = 0
      /\ UNCHANGED <<main, setup, depth, pic, rtc, prev, ticks, faults>>
  BY DEF Stub, At
<1>2. /\ Loaded /\ frame[depth].vec \in 0 .. 255
      /\ IsIrq(depth) <=> frame[depth].vec >= 32
  BY <1>1, HandlerTop
<1>3. place \in Places /\ place \in IF IsIrq(depth) THEN IrqPlaces ELSE FaultPlaces
  <2>1. CASE ~IsIrq(depth)
    <3>1. place = "fault_handler"
      BY <1>2, <2>1 DEF Irq, Clock
    <3> QED
      BY <2>1, <3>1 DEF Places, FaultPlaces
  <2>2. CASE IsIrq(depth)
    <3>1. place = "rtc_call" \/ place = "routine"
      BY <2>2
    <3> QED
      BY <2>2, <3>1 DEF Places, IrqPlaces
  <2> QED
    BY <2>1, <2>2
<1>4. frame[depth].vec = 40 => place = "rtc_call"
  <2> SUFFICES ASSUME frame[depth].vec = 40 PROVE place = "rtc_call"
    OBVIOUS
  <2>1. Enabled
    BY <1>0, <1>1, HandlerTop DEF ClockKept
  <2>2. Clock \in routines
    BY <1>0, <2>1 DEF SetUp
  <2> QED
    BY <1>2, <2>2 DEF Irq, Clock
<1>5. frame[depth].vec # 40 => place \in {"fault_handler", "routine"}
  BY <1>2 DEF Irq, Clock
<1> HIDE DEF place
<1>6. TypeOK'
  BY <1>0, <1>1, <1>3, Gone DEF TypeOK, FrameSet, setup, pic, rtc
<1>7. Stack'
  BY <1>0, <1>1, <1>3, MovedStack
<1>8. InService'
  BY <1>0, <1>1, <1>3, <1>4, <1>5, MovedService DEF pic
<1>9. ClockKept'
  BY <1>0, <1>1, <1>3, <1>4, <1>5, MovedClock DEF pic, rtc, Unread
<1>10. SetUp'
  BY <1>0, <1>1, <1>2, LaterSetUp DEF pic
<1> QED
  BY <1>6, <1>7, <1>8, <1>9, <1>10 DEF InterruptsIInv

LEMMA RoutineStep == InterruptsIInv /\ Routine => InterruptsIInv'
<1> SUFFICES ASSUME InterruptsIInv, Routine PROVE InterruptsIInv'
  OBVIOUS
<1>0. TypeOK /\ SetUp /\ Stack /\ InService /\ ClockKept
  BY DEF InterruptsIInv
<1>1. /\ depth > 0 /\ frame[depth].at = "routine" /\ Goto(AfterRoutine) /\ iflag' = iflag
      /\ UNCHANGED <<main, setup, depth, pic, rtc, prev, ticks, faults>>
  BY DEF Routine, At
<1>2. Loaded /\ IsIrq(depth) /\ frame[depth].vec \in 0 .. 255 /\ depth \in 1 .. depth
  BY <1>1, HandlerTop DEF FaultPlaces
<1>3. AfterRoutine \in {"eoi_slave", "eoi_master"}
  BY DEF AfterRoutine
<1>4. AfterRoutine \in Places /\ AfterRoutine \in IrqPlaces
  BY <1>3 DEF Places, IrqPlaces
<1>5. AfterRoutine = "eoi_slave" => frame[depth].vec >= 40
  BY DEF AfterRoutine
<1>6. AfterRoutine = "eoi_master" => isS = {}
  <2>1. AfterRoutine = "eoi_master" => frame[depth].vec < 40
    BY <1>2 DEF AfterRoutine
  <2>2. isS \subseteq 8 .. 15 /\ isS \subseteq {frame[depth].vec - 32}
    BY <1>0, <1>2 DEF TypeOK, InService
  <2> QED
    BY <1>2, <2>1, <2>2
<1>7. TypeOK'
  BY <1>0, <1>1, <1>4, Gone DEF TypeOK, FrameSet, setup, pic, rtc
<1>8. Stack'
  BY <1>0, <1>1, <1>2, <1>4, MovedStack
<1>9. InService'
  BY <1>0, <1>1, <1>3, <1>4, <1>5, <1>6, MovedService DEF pic
<1>10. ClockKept'
  BY <1>0, <1>1, <1>3, <1>4, MovedClock DEF pic, rtc, Unread
<1>11. SetUp'
  BY <1>0, <1>1, <1>2, LaterSetUp DEF pic
<1> QED
  BY <1>7, <1>8, <1>9, <1>10, <1>11 DEF InterruptsIInv

LEMMA RtcStep == InterruptsIInv /\ (RtcCall \/ RtcSelectC \/ RtcReadC) => InterruptsIInv'
<1> SUFFICES ASSUME InterruptsIInv, RtcCall \/ RtcSelectC \/ RtcReadC PROVE InterruptsIInv'
  OBVIOUS
<1> DEFINE place == IF RtcCall THEN "rtc_select" ELSE IF RtcSelectC THEN "rtc_read" ELSE "eoi_slave"
<1>0. TypeOK /\ SetUp /\ Stack /\ InService /\ ClockKept
  BY DEF InterruptsIInv
<1>1. /\ depth > 0 /\ frame[depth].at \in {"rtc_call", "rtc_select", "rtc_read"} /\ iflag' = iflag
      /\ UNCHANGED <<main, setup, depth, pic, prev, faults, regB>>
  BY DEF RtcCall, RtcSelectC, RtcReadC, At, rtc
<1>2. Loaded /\ IsIrq(depth) /\ frame[depth].vec = 40 /\ depth \in 1 .. depth
  BY <1>0, <1>1, HandlerTop DEF FaultPlaces, ClockKept
<1>3. Goto(place)
  <2>1. CASE RtcCall
    BY <2>1 DEF RtcCall
  <2>2. CASE RtcSelectC
    BY <1>1, <2>2 DEF RtcCall, RtcSelectC, At
  <2>3. CASE RtcReadC
    BY <1>1, <1>2, <2>3 DEF RtcCall, RtcSelectC, RtcReadC, At, AfterRoutine
  <2> QED
    BY <2>1, <2>2, <2>3
<1>4. place \in {"rtc_select", "rtc_read", "eoi_slave"}
  OBVIOUS
<1>5. place \in Places /\ place \in IrqPlaces
  BY DEF Places, IrqPlaces
<1>6. place = "rtc_read" => cmos' = "C"
  BY DEF RtcSelectC
<1>7. pf' = 1 => pf = 1 /\ place \in Unread
  <2>1. CASE RtcReadC
    BY <1>0, <1>1, <1>2, <2>1 DEF RtcReadC, At, ClockKept
  <2>2. CASE RtcCall
    BY <2>2 DEF RtcCall, rtc, Unread
  <2>3. CASE RtcSelectC
    BY <2>3 DEF RtcSelectC, RtcCall, Unread
  <2> QED
    BY <2>1, <2>2, <2>3
<1>8. cmos' \in {"B", "C", "D"} /\ pf' \in {0, 1} /\ ticks' \in 0 .. 1
  BY <1>0 DEF TypeOK, RtcCall, RtcSelectC, RtcReadC, rtc
<1> HIDE DEF place
<1>9. TypeOK'
  BY <1>0, <1>1, <1>3, <1>5, <1>8, Gone DEF TypeOK, FrameSet, setup, pic
<1>10. Stack'
  BY <1>0, <1>1, <1>2, <1>3, <1>5, MovedStack
<1>11. InService'
  BY <1>0, <1>1, <1>2, <1>3, <1>4, <1>5, MovedService DEF pic
<1>12. ClockKept'
  BY <1>0, <1>1, <1>2, <1>3, <1>4, <1>5, <1>6, <1>7, MovedClock DEF pic
<1>13. SetUp'
  BY <1>0, <1>1, <1>2, LaterSetUp DEF pic
<1> QED
  BY <1>9, <1>10, <1>11, <1>12, <1>13 DEF InterruptsIInv

LEMMA EoiStep == InterruptsIInv /\ (EoiSlave \/ EoiMaster) => InterruptsIInv'
<1> SUFFICES ASSUME InterruptsIInv, EoiSlave \/ EoiMaster PROVE InterruptsIInv'
  OBVIOUS
<1> DEFINE place == IF EoiSlave THEN "eoi_master" ELSE "iret"
<1>0. TypeOK /\ SetUp /\ Stack /\ InService /\ ClockKept
  BY DEF InterruptsIInv
<1>1. /\ depth > 0 /\ frame[depth].at \in {"eoi_slave", "eoi_master"} /\ iflag' = iflag
      /\ UNCHANGED <<main, setup, depth, icw2, irr, rtc, prev, ticks, faults>>
  BY DEF EoiSlave, EoiMaster, At
<1>2. Loaded /\ IsIrq(depth) /\ depth \in 1 .. depth /\ frame[depth].vec - 32 \in Irqs \union {Clock}
  BY <1>1, HandlerTop DEF FaultPlaces
<1>3. Goto(place)
  <2>1. CASE EoiSlave
    BY <2>1 DEF EoiSlave
  <2>2. CASE EoiMaster
    BY <2>2 DEF EoiSlave, EoiMaster, At
  <2> QED
    BY <2>1, <2>2
<1>4. place \in {"eoi_master", "iret"}
  OBVIOUS
<1>5. place \in Places /\ place \in IrqPlaces
  BY DEF Places, IrqPlaces
<1>6. isM' \subseteq isM /\ isS' \subseteq isS
  BY RetireLess DEF EoiSlave, EoiMaster
<1>7. place = "eoi_master" => isS' = {}
  <2> SUFFICES ASSUME EoiSlave PROVE isS' = {}
    OBVIOUS
  <2>1. isS \subseteq {frame[depth].vec - 32} /\ isS \subseteq Int /\ frame[depth].vec - 32 \in Int
    <3>1. isS \subseteq {frame[depth].vec - 32}
      BY <1>0, <1>2 DEF InService
    <3>2. isS \subseteq 8 .. 15
      BY <1>0 DEF TypeOK
    <3>3. frame[depth].vec - 32 \in 0 .. 15
      BY <1>2, Lines
    <3> QED
      BY <3>1, <3>2, <3>3
  <2>2. Retire(isS) = {}
    BY <2>1, Retired
  <2> QED
    BY <2>2 DEF EoiSlave
<1>8. place = "iret" => isM' = {} /\ isS' = {}
  <2> SUFFICES ASSUME ~EoiSlave PROVE isM' = {} /\ isS' = {}
    OBVIOUS
  <2>1. isM \subseteq {Line(frame[depth].vec - 32)} /\ isM \subseteq Int /\ Line(frame[depth].vec - 32) \in Int
    BY <1>0, <1>2, Lines DEF InService, TypeOK
  <2>2. Retire(isM) = {}
    BY <2>1, Retired
  <2>3. isS = {}
    BY <1>0, <1>2 DEF EoiMaster, At, InService
  <2> QED
    BY <2>2, <2>3 DEF EoiMaster
<1> HIDE DEF place
<1>9. TypeOK'
  <2>1. isM' \subseteq 0 .. 7 /\ isS' \subseteq 8 .. 15
    <3>1. isM \subseteq 0 .. 7 /\ isS \subseteq 8 .. 15
      BY <1>0 DEF TypeOK
    <3> QED
      BY <1>6, <3>1
  <2>2. frame' \in [1 .. StackDepth -> FrameSet]
    BY <1>0, <1>1, <1>3, <1>5, Gone
  <2> QED
    BY <1>0, <1>1, <2>1, <2>2 DEF TypeOK, FrameSet, setup, rtc
<1>10. Stack'
  BY <1>0, <1>1, <1>2, <1>3, <1>5, MovedStack
<1>11. InService'
  BY <1>0, <1>1, <1>2, <1>3, <1>4, <1>5, <1>6, <1>7, <1>8, MovedService
<1>12. ClockKept'
  BY <1>0, <1>1, <1>2, <1>3, <1>4, <1>5, MovedClock DEF rtc, Unread
<1>13. SetUp'
  BY <1>0, <1>1, <1>2, LaterSetUp
<1> QED
  BY <1>9, <1>10, <1>11, <1>12, <1>13 DEF InterruptsIInv

LEMMA FaultStep == InterruptsIInv /\ (FaultHandler \/ FaultAgain) => InterruptsIInv'
<1> SUFFICES ASSUME InterruptsIInv, FaultHandler \/ FaultAgain PROVE InterruptsIInv'
  OBVIOUS
<1>0. TypeOK /\ SetUp /\ Stack /\ InService /\ ClockKept
  BY DEF InterruptsIInv
<1>1. /\ depth > 0 /\ frame[depth].at \in {"fault_handler", "again"}
      /\ iflag' = 0 \/ iflag' = frame[depth].saved
      /\ UNCHANGED <<main, setup, depth, pic, rtc, prev, ticks, faults>>
  BY DEF FaultHandler, FaultAgain, Faulting, At
<1>2. /\ Loaded /\ ~IsIrq(depth) /\ depth \in 1 .. depth /\ frame[depth].saved \in {0, 1}
      /\ frame[depth].vec \in 0 .. 255 /\ frame[depth].vec < 32
  BY <1>1, HandlerTop DEF IrqPlaces
<1>3. PICK place \in {"again", "iret", "halt", "stub"} : Goto(place)
  BY DEF FaultHandler, FaultAgain
<1>4. place \in Places /\ place \in FaultPlaces
  BY DEF Places, FaultPlaces
<1>5. frame[depth].at \notin Unread
  BY <1>1 DEF Unread
<1>6. iflag' \in {0, 1}
  BY <1>1, <1>2
<1>7. TypeOK'
  BY <1>0, <1>1, <1>3, <1>4, <1>6, Gone DEF TypeOK, FrameSet, setup, pic, rtc
<1>8. Stack'
  BY <1>0, <1>1, <1>2, <1>3, <1>4, MovedStack
<1>9. InService'
  BY <1>0, <1>1, <1>2, <1>3, <1>4, MovedService DEF pic
<1>10. ClockKept'
  BY <1>0, <1>1, <1>2, <1>3, <1>4, <1>5, MovedClock DEF pic, rtc
<1>11. SetUp'
  BY <1>0, <1>1, <1>2, LaterSetUp DEF pic
<1> QED
  BY <1>7, <1>8, <1>9, <1>10, <1>11 DEF InterruptsIInv

LEMMA IretStep == InterruptsIInv /\ Iret => InterruptsIInv'
<1> SUFFICES ASSUME InterruptsIInv, Iret PROVE InterruptsIInv'
  OBVIOUS
<1>0. TypeOK /\ SetUp /\ Stack /\ InService /\ ClockKept
  BY DEF InterruptsIInv
<1>1. /\ depth > 0 /\ frame[depth].at = "iret" /\ iflag' = frame[depth].saved /\ depth' = depth - 1
      /\ UNCHANGED <<main, setup, frame, pic, rtc, prev, ticks, faults>>
  BY DEF Iret, At
<1>2. Loaded /\ depth \in 1 .. depth /\ frame[depth].saved \in {0, 1} /\ depth \in Int
  BY <1>0, <1>1, HandlerTop DEF TypeOK
<1>3. /\ 1 .. depth' = 1 .. depth - 1
      /\ \A d \in 1 .. depth - 1 : d \in 1 .. depth /\ d # depth
      /\ \A d \in 1 .. depth : d = depth \/ d \in 1 .. depth - 1
  BY <1>1, <1>2
<1>4. TypeOK'
  <2>1. depth' \in 0 .. StackDepth
    BY <1>0, <1>1, InterruptsAssumption DEF TypeOK
  <2>2. iflag' \in {0, 1}
    BY <1>1, <1>2
  <2> QED
    BY <1>0, <1>1, <2>1, <2>2 DEF TypeOK, setup, pic, rtc
<1>5. \A d : IsIrq(d)' = IsIrq(d)
  BY <1>1 DEF IsIrq
<1>6. Stack'
  BY <1>0, <1>1, <1>2, <1>3, <1>5 DEF Stack
<1>7. InService'
  <2>1. (\A d \in 1 .. depth - 1 : ~IsIrq(d)) => isM = {} /\ isS = {}
    <3>1. CASE IsIrq(depth)
      BY <1>0, <1>1, <1>2, <3>1 DEF InService
    <3>2. CASE ~IsIrq(depth)
      BY <1>0, <1>3, <3>2 DEF InService
    <3> QED
      BY <3>1, <3>2
  <2> QED
    BY <1>0, <1>1, <1>3, <1>5, <2>1 DEF InService, pic
<1>8. ClockKept'
  BY <1>0, <1>1, <1>2, <1>3 DEF ClockKept, pic, rtc, Enabled
<1>9. SetUp'
  BY <1>0, <1>1, <1>2, LaterSetUp DEF pic
<1> QED
  BY <1>4, <1>6, <1>7, <1>8, <1>9 DEF InterruptsIInv

(***************************************************************************)
(* An interrupt or an exception arrives.                                   *)
(***************************************************************************)
LEMMA EnteredFrames ==
  ASSUME TypeOK, NEW v \in 0 .. 255, EnterGate(v)
  PROVE  /\ \A d \in 1 .. depth' : d = depth + 1 \/ d \in 1 .. depth
         /\ \A d \in 1 .. depth : d \in 1 .. depth' /\ d # depth + 1 /\ frame'[d] = frame[d] /\ IsIrq(d)' = IsIrq(d)
         /\ \A d \in 1 .. depth : \A c \in 1 .. d - 1 : c \in 1 .. depth
         /\ depth + 1 \in 1 .. depth' /\ (depth + 1) - 1 = depth
         /\ frame'[depth + 1].vec = v /\ frame'[depth + 1].at = "stub" /\ frame'[depth + 1].saved = iflag
         /\ \A d : d = depth + 1 => (IsIrq(d)' <=> v >= 32)
<1>1. /\ depth' = depth + 1 /\ depth \in Nat
      /\ frame'[depth + 1] = [vec |-> v, at |-> "stub", saved |-> iflag]
      /\ \A d \in 1 .. depth : frame'[d] = frame[d]
  <2>1. depth \in Nat
    BY DEF TypeOK
  <2> QED
    BY <2>1, Entered
<1>2. \A d \in 1 .. depth' : d = depth + 1 \/ d \in 1 .. depth
  BY <1>1
<1>3. \A d \in 1 .. depth : d \in 1 .. depth' /\ d # depth + 1
  BY <1>1
<1>4. \A d \in 1 .. depth : \A c \in 1 .. d - 1 : c \in 1 .. depth
  BY <1>1
<1>5. depth + 1 \in 1 .. depth' /\ (depth + 1) - 1 = depth
  BY <1>1
<1>6. /\ frame'[depth + 1].vec = v /\ frame'[depth + 1].at = "stub" /\ frame'[depth + 1].saved = iflag
  BY <1>1
<1>7. \A d \in 1 .. depth : IsIrq(d)' = IsIrq(d)
  BY <1>1 DEF IsIrq
<1>8. \A d : d = depth + 1 => (IsIrq(d)' <=> v >= 32)
  BY <1>6 DEF IsIrq
<1> QED
  BY <1>1, <1>2, <1>3, <1>4, <1>5, <1>6, <1>7, <1>8

\* Each frame is the new one or one that was there.
LEMMA NewOrOld ==
  ASSUME TypeOK, NEW v \in 0 .. 255, EnterGate(v), NEW d \in 1 .. depth'
  PROVE  \/ d = depth + 1 /\ (IsIrq(d)' <=> v >= 32)
         \/ d \in 1 .. depth /\ frame'[d] = frame[d] /\ IsIrq(d)' = IsIrq(d)
<1>1. CASE d = depth + 1
  BY <1>1, EnteredFrames
<1>2. CASE d \in 1 .. depth
  BY <1>2, EnteredFrames
<1>3. d = depth + 1 \/ d \in 1 .. depth
  BY EnteredFrames
<1> QED
  BY <1>1, <1>2, <1>3

LEMMA EnteredStack ==
  ASSUME TypeOK, Stack, NEW v \in 0 .. 255, EnterGate(v),
         v >= 32 => iflag = 1 /\ v - 32 \in Irqs \union {Clock},
         v < 32 => v \in Faults
  PROVE  Stack'
<1>1. iflag' = 0
  BY Entered
<1>2. "stub" \in IrqPlaces /\ "stub" \in FaultPlaces
  BY DEF IrqPlaces, FaultPlaces
<1>3. iflag = 1 => \A d \in 1 .. depth : ~IsIrq(d)
  BY DEF Stack
<1>4. ASSUME NEW d \in 1 .. depth'
      PROVE  /\ IsIrq(d)' => frame'[d].vec - 32 \in Irqs \union {Clock} /\ frame'[d].at \in IrqPlaces
             /\ ~IsIrq(d)' => frame'[d].vec \in Faults /\ frame'[d].at \in FaultPlaces
             /\ frame'[d].saved = 1 => \A c \in 1 .. d - 1 : ~IsIrq(c)'
  <2>1. CASE d = depth + 1
    <3>1. frame'[d].vec = v /\ frame'[d].at = "stub" /\ frame'[d].saved = iflag
      BY <2>1, EnteredFrames
    <3>2. IsIrq(d)' <=> v >= 32
      BY <2>1, EnteredFrames
    <3>3. \A c \in 1 .. d - 1 : c \in 1 .. depth /\ IsIrq(c)' = IsIrq(c)
      BY <2>1, EnteredFrames
    <3> QED
      BY <1>2, <1>3, <3>1, <3>2, <3>3
  <2>2. CASE d \in 1 .. depth
    <3>1. /\ IsIrq(d) => frame[d].vec - 32 \in Irqs \union {Clock} /\ frame[d].at \in IrqPlaces
          /\ ~IsIrq(d) => frame[d].vec \in Faults /\ frame[d].at \in FaultPlaces
          /\ frame[d].saved = 1 => \A c \in 1 .. d - 1 : ~IsIrq(c)
      BY <2>2 DEF Stack
    <3> QED
      BY <2>2, <3>1, EnteredFrames
  <2> QED
    BY <2>1, <2>2, EnteredFrames
<1>5. ASSUME NEW c \in 1 .. depth', NEW d \in 1 .. depth', IsIrq(c)', IsIrq(d)' PROVE c = d
  <2>1. v < 32 => c \in 1 .. depth /\ d \in 1 .. depth
    BY <1>5, NewOrOld
  <2>2. v >= 32 => c = depth + 1 /\ d = depth + 1
    BY <1>3, <1>5, EnteredFrames
  <2>3. c \in 1 .. depth /\ d \in 1 .. depth => c = d
    BY <1>5, EnteredFrames DEF Stack
  <2> QED
    BY <2>1, <2>2, <2>3
<1> QED
  BY <1>1, <1>4, <1>5 DEF Stack

LEMMA EnteredService ==
  ASSUME TypeOK, Stack, InService, NEW v \in 0 .. 255, EnterGate(v),
         v >= 32 => iflag = 1 /\ isM' \subseteq {Line(v - 32)} /\ isS' \subseteq {v - 32},
         v < 32 => isM' = isM /\ isS' = isS
  PROVE  InService'
<1>1. CASE v < 32
  <2>1. (\A d \in 1 .. depth' : ~IsIrq(d)') => isM' = {} /\ isS' = {}
    BY <1>1, EnteredFrames DEF InService
  <2>2. ASSUME NEW d \in 1 .. depth', IsIrq(d)'
        PROVE  /\ isM' \subseteq {Line(frame'[d].vec - 32)}
               /\ isS' \subseteq {frame'[d].vec - 32}
               /\ frame'[d].at = "eoi_slave" => frame'[d].vec >= 40
               /\ frame'[d].at = "eoi_master" => isS' = {}
               /\ frame'[d].at = "iret" => isM' = {} /\ isS' = {}
    <3>1. d \in 1 .. depth /\ IsIrq(d) /\ frame'[d] = frame[d]
      BY <1>1, <2>2, NewOrOld
    <3> QED
      BY <1>1, <3>1 DEF InService
  <2> QED
    BY <2>1, <2>2 DEF InService
<1>2. CASE v >= 32
  <2>1. \A d \in 1 .. depth : ~IsIrq(d)
    BY <1>2 DEF Stack
  <2>2. ~(\A d \in 1 .. depth' : ~IsIrq(d)')
    BY <1>2, EnteredFrames
  <2>3. ASSUME NEW d \in 1 .. depth', IsIrq(d)' PROVE d = depth + 1
    BY <2>1, <2>3, EnteredFrames
  <2>4. ASSUME NEW d \in 1 .. depth', IsIrq(d)'
        PROVE  /\ isM' \subseteq {Line(frame'[d].vec - 32)}
               /\ isS' \subseteq {frame'[d].vec - 32}
               /\ frame'[d].at = "stub"
    BY <1>2, <2>3, <2>4, EnteredFrames
  <2> QED
    BY <2>2, <2>4 DEF InService
<1> QED
  BY <1>1, <1>2

LEMMA EnteredClock ==
  ASSUME TypeOK, ClockKept, NEW v \in 0 .. 255, EnterGate(v),
         irr' \subseteq irr, Clock \in irr => Clock \in irr' \/ v = 40, v = 40 => Enabled,
         main' = main \/ (main = "asleep" /\ main' = "run"),
         UNCHANGED <<regB, prev, cmos, pf>>
  PROVE  ClockKept'
<1>1. Enabled' = Enabled
  BY DEF Enabled
<1>2. ASSUME NEW d \in 1 .. depth'
      PROVE  /\ frame'[d].at \in {"rtc_call", "rtc_select", "rtc_read"} => frame'[d].vec = 40
             /\ frame'[d].vec = 40 => frame'[d].at # "routine"
             /\ frame'[d].at = "rtc_read" => cmos' = "C"
  <2>1. CASE d = depth + 1
    BY <2>1, EnteredFrames
  <2>2. CASE d \in 1 .. depth
    <3>1. frame'[d] = frame[d]
      BY <2>2, EnteredFrames
    <3> QED
      BY <2>2, <3>1 DEF ClockKept
  <2> QED
    BY <2>1, <2>2, EnteredFrames
<1>3. ASSUME pf' = 1, Pie \in regB'
      PROVE  Clock \in irr' \/ \E d \in 1 .. depth' : frame'[d].vec = 40 /\ frame'[d].at \in Unread
  <2>1. CASE Clock \in irr
    BY <2>1, EnteredFrames DEF Unread
  <2>2. CASE \E d \in 1 .. depth : frame[d].vec = 40 /\ frame[d].at \in Unread
    BY <2>2, EnteredFrames
  <2> QED
    BY <1>3, <2>1, <2>2 DEF ClockKept, Unread
<1>4. ~Enabled => Clock \notin irr' /\ \A d \in 1 .. depth' : frame'[d].vec # 40
  BY EnteredFrames DEF ClockKept
<1> QED
  BY <1>1, <1>2, <1>3, <1>4 DEF ClockKept, Enabled, Unread

\* Interrupts are on only when no interrupt is in service, so the 8259s have
\* their vectors and whatever comes is the first.
LEMMA WhenOn ==
  ASSUME InterruptsIInv, iflag = 1, NEW n \in Irqs \union {Clock}
  PROVE  /\ Loaded /\ isM = {} /\ isS = {} /\ Vector(n) = 32 + n /\ Vector(n) \in 32 .. 47
<1>1. Loaded
  BY DEF InterruptsIInv, SetUp
<1>2. icw2.master = 32 /\ icw2.slave = 40
  BY <1>1 DEF InterruptsIInv, SetUp
<1>3. isM = {} /\ isS = {}
  BY DEF InterruptsIInv, Stack, InService
<1>4. n \in 0 .. 15
  BY Lines
<1> QED
  BY <1>1, <1>2, <1>3, <1>4 DEF Vector

LEMMA DeliverStep ==
  ASSUME InterruptsIInv, NEW n \in Irqs \union {Clock}, Deliver(n)
  PROVE  InterruptsIInv'
<1>0. TypeOK /\ SetUp /\ Stack /\ InService /\ ClockKept
  BY DEF InterruptsIInv
<1>1. /\ iflag = 1 /\ n \in irr /\ irr' = irr \ {n}
      /\ isM' = isM \union {Line(n)} /\ isS' = IF n < 8 THEN isS ELSE isS \union {n}
      /\ EnterGate(Vector(n)) /\ UNCHANGED <<icw2, setup, rtc, prev, ticks, faults>>
  BY DEF Deliver, Deliverable
<1>2. /\ Loaded /\ isM = {} /\ isS = {} /\ Vector(n) = 32 + n
      /\ Vector(n) \in 0 .. 255 /\ Vector(n) >= 32 /\ Vector(n) - 32 = n
  <2>1. Loaded /\ isM = {} /\ isS = {} /\ Vector(n) = 32 + n
    BY <1>1, WhenOn
  <2>2. n \in 0 .. 15
    BY Lines
  <2>3. Vector(n) \in 0 .. 255 /\ Vector(n) >= 32 /\ Vector(n) - 32 = n
    BY <2>1, <2>2
  <2> QED
    BY <2>1, <2>3
<1>3. n \in 0 .. 15 /\ Line(n) \in 0 .. 7 /\ (n >= 8 => n \in 8 .. 15)
  BY Lines
<1>4. isM' \subseteq {Line(n)} /\ isS' \subseteq {n} /\ isM' \subseteq 0 .. 7 /\ isS' \subseteq 8 .. 15
  <2>1. CASE n < 8
    BY <1>1, <1>2, <1>3, <2>1
  <2>2. CASE ~(n < 8)
    BY <1>1, <1>2, <1>3, <2>2
  <2> QED
    BY <2>1, <2>2
<1>5. main' = main \/ (main = "asleep" /\ main' = "run")
  BY DEF Deliver, Wake, InMain
<1>6. irr' \subseteq irr
  BY <1>1
<1>7. TypeOK'
  <2>1. main' \in Boot \union {"install_ints", "hlt", "asleep", "run"} \union Program
    BY <1>0, <1>5 DEF TypeOK
  <2>2. irr' \subseteq Irqs \union {Clock}
    <3>1. irr \subseteq Irqs \union {Clock}
      BY <1>0 DEF TypeOK
    <3> QED
      BY <1>6, <3>1
  <2>3. depth' \in 0 .. StackDepth /\ frame' \in [1 .. StackDepth -> FrameSet] /\ iflag' \in {0, 1}
    BY <1>0, <1>1, <1>2, Entered
  <2> QED
    BY <1>0, <1>1, <1>4, <2>1, <2>2, <2>3 DEF TypeOK, FrameSet, setup, rtc
<1>8. SetUp'
  BY <1>0, <1>1, <1>2, <1>5, LaterSetUp
<1>9. Stack'
  <2>1. ~(Vector(n) < 32)
    BY <1>2
  <2> QED
    BY <1>0, <1>1, <1>2, <2>1, EnteredStack
<1>10. InService'
  <2>1. ~(Vector(n) < 32)
    BY <1>2
  <2> QED
    BY <1>0, <1>1, <1>2, <1>4, <2>1, EnteredService
<1>11. ClockKept'
  <2>1. Clock \in irr => Clock \in irr' \/ Vector(n) = 40
    BY <1>1, <1>2 DEF Clock
  <2>2. Vector(n) = 40 => Enabled
    <3>1. Vector(n) = 40 => n = Clock
      BY <1>2, <1>3 DEF Clock
    <3> QED
      BY <1>0, <1>1, <3>1 DEF ClockKept
  <2> QED
    BY <1>0, <1>1, <1>2, <1>5, <1>6, <2>1, <2>2, EnteredClock DEF rtc
<1> QED
  BY <1>7, <1>8, <1>9, <1>10, <1>11 DEF InterruptsIInv

LEMMA SpuriousStep ==
  ASSUME InterruptsIInv, NEW n \in {7, 15}, Spurious(n)
  PROVE  InterruptsIInv'
<1>0. TypeOK /\ SetUp /\ Stack /\ InService /\ ClockKept
  BY DEF InterruptsIInv
<1>1. /\ iflag = 1 /\ n \in Irqs /\ isM' = IF n = 7 THEN isM ELSE isM \union {2}
      /\ EnterGate(Vector(n)) /\ UNCHANGED <<icw2, irr, isS, setup, rtc, prev, ticks, faults>>
  BY DEF Spurious
<1>2. /\ Loaded /\ isM = {} /\ isS = {} /\ Vector(n) = 32 + n
      /\ Vector(n) \in 0 .. 255 /\ Vector(n) >= 32 /\ Vector(n) - 32 = n
  BY <1>1, WhenOn
<1>3. n \in Irqs \union {Clock} /\ Vector(n) # 40
  BY <1>1, <1>2
<1>4. isM' \subseteq {Line(n)} /\ isS' \subseteq {n} /\ isM' \subseteq 0 .. 7 /\ isS' \subseteq 8 .. 15
  BY <1>1, <1>2 DEF Line
<1>5. main' = main \/ (main = "asleep" /\ main' = "run")
  BY DEF Spurious, Wake, InMain
<1>6. TypeOK'
  <2>1. main' \in Boot \union {"install_ints", "hlt", "asleep", "run"} \union Program
    BY <1>0, <1>5 DEF TypeOK
  <2>2. depth' \in 0 .. StackDepth /\ frame' \in [1 .. StackDepth -> FrameSet] /\ iflag' \in {0, 1}
    BY <1>0, <1>1, <1>2, Entered
  <2> QED
    BY <1>0, <1>1, <1>4, <2>1, <2>2 DEF TypeOK, FrameSet, setup, rtc
<1>7. SetUp'
  BY <1>0, <1>1, <1>2, <1>5, LaterSetUp
<1>8. ~(Vector(n) < 32)
  BY <1>2
<1>9. Stack'
  BY <1>0, <1>1, <1>2, <1>3, <1>8, EnteredStack
<1>10. InService'
  BY <1>0, <1>1, <1>2, <1>4, <1>8, EnteredService
<1>11. ClockKept'
  BY <1>0, <1>1, <1>2, <1>3, <1>5, EnteredClock DEF rtc
<1> QED
  BY <1>6, <1>7, <1>9, <1>10, <1>11 DEF InterruptsIInv

LEMMA RaisedFault ==
  ASSUME InterruptsIInv, NEW v \in Faults, Fault(v)
  PROVE  InterruptsIInv'
<1>0. TypeOK /\ SetUp /\ Stack /\ InService /\ ClockKept
  BY DEF InterruptsIInv
<1>1. /\ Loaded /\ faults < MaxFaults /\ faults' = faults + 1
      /\ EnterGate(v) /\ UNCHANGED <<main, setup, pic, rtc, prev, ticks>>
  BY DEF Fault, Loaded
<1>2. v \in 0 .. 255 /\ v < 32 /\ ~(v >= 32) /\ v # 40
  BY InterruptsAssumption DEF isr
<1>3. TypeOK'
  <2>1. faults' \in 0 .. MaxFaults
    BY <1>0, <1>1, InterruptsAssumption DEF TypeOK
  <2>2. depth' \in 0 .. StackDepth /\ frame' \in [1 .. StackDepth -> FrameSet] /\ iflag' \in {0, 1}
    BY <1>0, <1>1, <1>2, Entered
  <2> QED
    BY <1>0, <1>1, <2>1, <2>2 DEF TypeOK, FrameSet, setup, pic, rtc
<1>4. SetUp'
  BY <1>0, <1>1, LaterSetUp DEF pic
<1>5. Stack'
  BY <1>0, <1>1, <1>2, EnteredStack
<1>6. InService'
  BY <1>0, <1>1, <1>2, EnteredService DEF pic
<1>7. ClockKept'
  BY <1>0, <1>1, <1>2, EnteredClock DEF pic, rtc
<1> QED
  BY <1>3, <1>4, <1>5, <1>6, <1>7 DEF InterruptsIInv

\* A device asks for attention: only the requests and the clock's flag change.
LEMMA AskedStep ==
  ASSUME InterruptsIInv, ClockTick \/ \E n \in Irqs : Raise(n)
  PROVE  InterruptsIInv'
<1>0. TypeOK /\ SetUp /\ Stack /\ InService /\ ClockKept
  BY DEF InterruptsIInv
<1>1. UNCHANGED <<main, setup, cpu, icw2, isM, isS, cmos, regB, prev, ticks, faults>>
  BY DEF ClockTick, Raise, rtc
<1>2. Clock \notin Irqs /\ Pie \notin BootB
  BY InterruptsAssumption
<1>3. \E n \in Irqs \union {Clock} : irr' = irr \/ irr' = irr \union {n}
  BY DEF ClockTick, Raise
<1>4. irr' \subseteq Irqs \union {Clock}
  <2>1. irr \subseteq Irqs \union {Clock}
    BY <1>0 DEF TypeOK
  <2> QED
    BY <1>3, <2>1
<1>5. pf' \in {0, 1}
  BY <1>0 DEF TypeOK, ClockTick, Raise, rtc
<1>6. TypeOK'
  BY <1>0, <1>1, <1>4, <1>5 DEF TypeOK, setup, cpu
<1>7. SetUp'
  BY <1>0, <1>1 DEF SetUp, Loaded, Enabled, setup, cpu
<1>8. Stack' /\ InService'
  BY <1>0, <1>1 DEF Stack, InService, IsIrq, cpu
<1>9. Clock \in irr' => Clock \in irr \/ Pie \in regB
  <2>1. CASE ClockTick
    BY <2>1 DEF ClockTick
  <2>2. CASE \E n \in Irqs : Raise(n)
    BY <1>2, <2>2 DEF Raise
  <2> QED
    BY <2>1, <2>2
<1>10. pf' = 1 /\ Pie \in regB => Clock \in irr' \/ (pf = 1 /\ irr \subseteq irr')
  <2>1. CASE ClockTick
    BY <2>1 DEF ClockTick
  <2>2. CASE \E n \in Irqs : Raise(n)
    BY <2>2 DEF Raise, rtc
  <2> QED
    BY <2>1, <2>2
<1>11. Pie \in regB => Enabled
  BY <1>0, <1>2 DEF ClockKept
<1>12. ClockKept'
  BY <1>0, <1>1, <1>9, <1>10, <1>11 DEF ClockKept, Enabled, cpu
<1> QED
  BY <1>6, <1>7, <1>8, <1>12 DEF InterruptsIInv

LEMMA NextInvariant == InterruptsIInv /\ [Next]_vars => InterruptsIInv'
<1> SUFFICES ASSUME InterruptsIInv, [Next]_vars PROVE InterruptsIInv'
  OBVIOUS
<1>1. CASE Handler
  BY <1>1, StubStep, RoutineStep, RtcStep, EoiStep, FaultStep, IretStep DEF Handler
<1>2. CASE Delivery
  BY <1>2, DeliverStep DEF Delivery
<1>3. CASE \E n \in {7, 15} : Spurious(n)
  BY <1>3, SpuriousStep
<1>4. CASE \E v \in Faults : Fault(v)
  BY <1>4, RaisedFault
<1>5. CASE UNCHANGED vars
  BY <1>5 DEF vars, setup, cpu, pic, rtc, InterruptsIInv, TypeOK, SetUp, Stack, InService, ClockKept,
              Loaded, Enabled, IsIrq
<1> QED
  BY <1>1, <1>2, <1>3, <1>4, <1>5, MainStep, AskedStep DEF Next

\* The strengthened invariant holds throughout.
THEOREM InterruptsInvariant == Spec => []InterruptsIInv
  BY InitInvariant, NextInvariant, PTL DEF Spec

(***************************************************************************)
(* What the kernel relies on.                                              *)
(***************************************************************************)
\* Whatever interrupts the kernel finds a gate of its own kind.
THEOREM GateForEveryVector == Spec => []EveryVectorHasItsGate
<1>1. InterruptsIInv => EveryVectorHasItsGate
  <2> SUFFICES ASSUME InterruptsIInv PROVE EveryVectorHasItsGate
    OBVIOUS
  <2>0. TypeOK /\ SetUp /\ Stack
    BY DEF InterruptsIInv
  <2>1. ASSUME NEW d \in 1 .. depth
        PROVE  /\ frame[d].vec \in gates
               /\ IsIrq(d) => frame[d].vec \in irq
               /\ ~IsIrq(d) => frame[d].vec \in Faults \intersect exception_messages
    <3>1. Loaded /\ isr \subseteq gates /\ irq \subseteq gates
      <4>1. depth # 0
        BY <2>0 DEF TypeOK
      <4> QED
        BY <2>0, <4>1 DEF SetUp
    <3>2. frame[d].vec \in 0 .. 255
      BY <2>0, InterruptsAssumption DEF TypeOK
    <3>3. CASE IsIrq(d)
      <4>1. frame[d].vec - 32 \in Irqs \union {Clock}
        BY <2>0, <3>3 DEF Stack
      <4>2. 32 + (frame[d].vec - 32) \in irq
        BY <4>1, Lines
      <4>3. frame[d].vec \in irq
        BY <3>2, <4>2
      <4> QED
        BY <3>1, <3>3, <4>3
    <3>4. CASE ~IsIrq(d)
      <4>1. frame[d].vec \in Faults
        BY <2>0, <3>4 DEF Stack
      <4> QED
        BY <3>1, <3>4, <4>1, InterruptsAssumption DEF isr, exception_messages
    <3> QED
      BY <3>3, <3>4
  <2> QED
    BY <2>0, <2>1 DEF EveryVectorHasItsGate
<1> QED
  BY <1>1, InterruptsInvariant, PTL

\* Routines run one at a time, and between them nothing is in service.
THEOREM OneAtATime == Spec => []Acknowledged
<1>1. InterruptsIInv => Acknowledged
  BY DEF InterruptsIInv, Stack, InService, Acknowledged
<1> QED
  BY <1>1, InterruptsInvariant, PTL

\* The clock keeps ticking for whoever reads register C.
THEOREM ClockGoesOn == Spec => []ClockNotWedged
<1>1. InterruptsIInv => ClockNotWedged
  <2> SUFFICES ASSUME InterruptsIInv PROVE ClockNotWedged
    OBVIOUS
  <2>1. Enabled <=> ~(main \in Boot \union {"install_ints"} \union Program)
    BY DEF InterruptsIInv, TypeOK, Enabled, Boot, Program
  <2> QED
    BY <2>1 DEF InterruptsIInv, ClockKept, ClockNotWedged, Clock
<1> QED
  BY <1>1, InterruptsInvariant, PTL

\* An end of interrupt retires what its routine was called for, and nothing else.
THEOREM EoiIsOwn == Spec => EoiRetiresOwn
<1> DEFINE Own == /\ isM' # isM /\ isM' \subseteq isM => isM \ isM' = {Line(Irq)}
                  /\ isS' # isS /\ isS' \subseteq isS => isS \ isS' = {Irq}
<1>1. ASSUME InterruptsIInv, [Next]_vars PROVE [Own]_vars
  <2>1. CASE EoiSlave \/ EoiMaster
    <3>1. depth > 0 /\ frame[depth].at \in {"eoi_slave", "eoi_master"}
      BY <2>1 DEF EoiSlave, EoiMaster, At
    <3>2. IsIrq(depth) /\ depth \in 1 .. depth
      BY <1>1, <3>1, HandlerTop DEF FaultPlaces
    <3>3. isM \subseteq {Line(Irq)} /\ isS \subseteq {Irq}
      BY <1>1, <3>2 DEF InterruptsIInv, InService, Irq
    <3> QED
      BY <3>3 DEF Own
  <2>2. CASE Main
    BY <2>2, MainAlone DEF Own
  <2>3. CASE Handler /\ ~EoiSlave /\ ~EoiMaster
    <3>1. isM' = isM /\ isS' = isS
      BY <2>3 DEF Handler, Stub, Routine, RtcCall, RtcSelectC, RtcReadC, FaultHandler, FaultAgain, Iret, pic
    <3> QED
      BY <3>1 DEF Own
  <2>4. CASE Delivery \/ \E n \in {7, 15} : Spurious(n)
    <3>1. isM \subseteq isM' /\ isS \subseteq isS'
      BY <2>4 DEF Delivery, Deliver, Spurious
    <3> QED
      BY <3>1 DEF Own
  <2>5. CASE \/ ClockTick \/ (\E n \in Irqs : Raise(n)) \/ (\E v \in Faults : Fault(v))
    <3>1. isM' = isM /\ isS' = isS
      BY <2>5 DEF ClockTick, Raise, Fault, pic
    <3> QED
      BY <3>1 DEF Own
  <2> QED
    BY <1>1, <2>1, <2>2, <2>3, <2>4, <2>5 DEF Next
<1> QED
  BY <1>1, InterruptsInvariant, PTL DEF Spec, EoiRetiresOwn
=============================================================================
