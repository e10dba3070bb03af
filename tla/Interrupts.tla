----------------------------- MODULE Interrupts -----------------------------
(***************************************************************************)
(* How the kernel takes interrupts: init_idt fills the IDT, moves the two  *)
(* 8259s off the exception vectors and enables interrupts                  *)
(* (src/descriptor/idt.cc, idt2.s); kernel_main then installs its routines *)
(* one by one, programs the CMOS clock to interrupt periodically and       *)
(* sleeps in hlt (src/kernel/main.cc).  From idt_load on, every one of     *)
(* those steps can be interrupted.                                         *)
(*                                                                         *)
(* A step of a stub or a handler is one step here as far as it touches     *)
(* what others read: the interrupt flag, the 8259s, the CMOS index port    *)
(* and the clock's registers.  What the other routines do is a single step *)
(* (their modules tell more).  The 8259s, the clock and the way a CPU      *)
(* enters and leaves a gate are hardware, modelled as the code uses them.  *)
(***************************************************************************)
EXTENDS Integers, FiniteSets

CONSTANTS
    Irqs,           \* the interrupt lines that are raised, the clock's apart
    Faults,         \* the exceptions the kernel's own code runs into
    MaxFaults,      \* bound on how many it does
    StackDepth,     \* bound on the interrupt frames on the stack
    BootB           \* the bits the BIOS left in the clock's register B

Clock == 8          \* the clock's line
Pie == 64           \* bit 6 of register B: periodic interrupts

\* The stubs there are, by the numbers they push: isr0 to isr31 and irq0 to irq15.
isr == 0 .. 31
irq == {32 + n : n \in 0 .. 15}
\* The numbers fault_handler has a message for.
exception_messages == 0 .. 31

ASSUME InterruptsAssumption ==
    /\ Irqs \subseteq (0 .. 15) \ {2, Clock}
    /\ Faults \subseteq isr
    /\ MaxFaults \in Nat
    /\ StackDepth \in Nat
    /\ Pie \notin BootB

VARIABLES
    main,       \* where kernel_main is
    installed,  \* how many calls of install_ints are done
    iflag,      \* the CPU's interrupt flag
    gates,      \* the vectors whose IDT entry is set
    icw2,       \* the vectors the 8259s were given: [master, slave]
    irr,        \* the requests latched by the 8259s
    isM, isS,   \* the interrupts in service at the master and at the slave
    routines,   \* the lines with an entry in irq_routines
    depth,      \* how many frames there are
    frame,      \* the frames: [vec, at, saved], frame[depth] the running one
    cmos,       \* the register selected by port 0x70
    regB, prev, \* the bits of register B, and kernel_main's copy
    pf,         \* the clock's periodic flag, cleared by a read of register C
    ticks,      \* main.cc's i, modulo 2
    faults      \* how many exceptions there were

pic == <<icw2, irr, isM, isS>>
rtc == <<cmos, regB, pf>>
cpu == <<iflag, depth, frame>>
setup == <<installed, gates, routines>>
vars == <<main, setup, cpu, pic, rtc, prev, ticks, faults>>

(***************************************************************************)
(* The 8259s.                                                              *)
(***************************************************************************)
Vector(n) == IF n < 8 THEN icw2.master + n ELSE icw2.slave + n - 8

\* Where a line arrives at the master: the slave is behind line 2.
Line(n) == IF n < 8 THEN n ELSE 2

\* a goes before b: by the master's line, and at the slave by its own.
Before(a, b) == Line(a) < Line(b) \/ (Line(a) = Line(b) /\ a < b)

Deliverable(n) ==
    /\ n \in irr
    /\ \A m \in irr \ {n} : Before(n, m)
    /\ \A s \in isM : Line(n) < s
    /\ n >= 8 => \A s \in isS : n < s

\* A non-specific EOI retires the interrupt of the highest priority.
Retire(is) == {s \in is : \E t \in is : t < s}

(***************************************************************************)
(* Frames.                                                                 *)
(***************************************************************************)
IsIrq(d) == frame[d].vec >= 32
\* What a stub leaves on the stack, as far as others tell frames apart.
regs(v) == [vec |-> v, at |-> "stub", saved |-> iflag]
At(place) == depth > 0 /\ frame[depth].at = place
Irq == frame[depth].vec - 32
Goto(place) == frame' = [frame EXCEPT ![depth] =
                  [vec |-> frame[depth].vec, at |-> place, saved |-> frame[depth].saved]]

\* The gates are interrupt gates (0x8E): the CPU clears the interrupt flag.
EnterGate(v) ==
    /\ depth < StackDepth
    /\ depth' = depth + 1
    /\ frame' = [frame EXCEPT ![depth + 1] = regs(v)]
    /\ iflag' = 0

\* System Halted: cli and a loop without an end.
Halted == At("halt")
\* A general protection fault returns to the instruction that caused it.
Faulting == At("again")

\* The code of kernel_main runs when no frame is on the stack.
InMain(place) == depth = 0 /\ main = place

(***************************************************************************)
(* Initially GRUB has entered the kernel with interrupts off; the 8259s    *)
(* have the vectors and the pending requests the BIOS left.                *)
(***************************************************************************)
Init ==
    /\ main = "init_idt"
    /\ installed = 0
    /\ iflag = 0
    /\ gates = {}
    /\ icw2 = [master |-> 8, slave |-> 112]
    /\ irr \in SUBSET Irqs
    /\ isM = {} /\ isS = {}
    /\ routines = {}
    /\ depth = 0
    /\ frame = [d \in 1 .. StackDepth |-> [vec |-> 0, at |-> "stub", saved |-> 0]]
    /\ cmos = "D"
    /\ regB = BootB
    /\ prev = {}
    /\ pf \in {0, 1}
    /\ ticks = 0
    /\ faults = 0

(***************************************************************************)
(* kernel_main and what it calls.                                          *)
(***************************************************************************)
idt_set_gate(stubs) == gates' = gates \union stubs
irq_install_handler(n) == routines' = routines \union {n}

\* init_idt begins with an empty table.
InitIdt ==
    /\ InMain("init_idt")
    /\ gates' = {}
    /\ main' = "isrs_install"
    /\ UNCHANGED <<installed, routines, cpu, pic, rtc, prev, ticks, faults>>

IsrsInstall ==
    /\ InMain("isrs_install")
    /\ idt_set_gate(isr)
    /\ main' = "irq_remap"
    /\ UNCHANGED <<installed, routines, cpu, pic, rtc, prev, ticks, faults>>

\* Mutant: the slave keeps the BIOS's vectors.
IrqRemap_MasterOnly ==
    /\ InMain("irq_remap")
    /\ icw2' = [icw2 EXCEPT !.master = 32]
    /\ irr' = {}
    /\ main' = "irq_install"
    /\ UNCHANGED <<isM, isS, setup, cpu, rtc, prev, ticks, faults>>
\* Mutant: the two vector bases are swapped.
IrqRemap_Swapped ==
    /\ InMain("irq_remap")
    /\ icw2' = [master |-> 40, slave |-> 32]
    /\ irr' = {}
    /\ main' = "irq_install"
    /\ UNCHANGED <<isM, isS, setup, cpu, rtc, prev, ticks, faults>>
\* ICW1 to ICW4 for both 8259s; ICW1 drops the requests latched so far.
IrqRemap ==
    /\ InMain("irq_remap")
    /\ icw2' = [master |-> 32, slave |-> 40]
    /\ irr' = {}
    /\ main' = "irq_install"
    /\ UNCHANGED <<isM, isS, setup, cpu, rtc, prev, ticks, faults>>

IrqInstall ==
    /\ InMain("irq_install")
    /\ idt_set_gate(irq)
    /\ main' = "idt_load"
    /\ UNCHANGED <<installed, routines, cpu, pic, rtc, prev, ticks, faults>>

\* lidt and sti.
IdtLoad ==
    /\ InMain("idt_load")
    /\ iflag' = 1
    /\ main' = "init_gdt"
    /\ UNCHANGED <<setup, depth, frame, pic, rtc, prev, ticks, faults>>

\* init_gdt runs with interrupts on.  Its one descriptor, of zeros, goes where
\* gdt_entries has no room for it, and nothing loads the table.
InitGdt ==
    /\ InMain("init_gdt")
    /\ main' = "install_ints"
    /\ UNCHANGED <<setup, cpu, pic, rtc, prev, ticks, faults>>

descriptor_init == InitIdt \/ IsrsInstall \/ IrqRemap \/ IrqInstall \/ IdtLoad \/ InitGdt

\* The lines install_ints gives a routine, in its order.
Installs == <<0, 1, Clock, 12, 15, 14>>

InstallInts ==
    /\ InMain("install_ints")
    /\ installed' = installed + 1
    /\ irq_install_handler(Installs[installed + 1])
    /\ main' = IF installed + 1 = 6 THEN "select_B" ELSE main
    /\ UNCHANGED <<gates, cpu, pic, rtc, prev, ticks, faults>>

SelectB ==
    /\ InMain("select_B")
    /\ cmos' = "B"
    /\ main' = "read_B"
    /\ UNCHANGED <<setup, cpu, pic, regB, pf, prev, ticks, faults>>

\* A read of port 0x71 leaves register D selected.
ReadB ==
    /\ InMain("read_B")
    /\ prev' = IF cmos = "B" THEN regB ELSE {}
    /\ cmos' = "D"
    /\ main' = "select_B_again"
    /\ UNCHANGED <<setup, cpu, pic, regB, pf, ticks, faults>>

SelectBAgain ==
    /\ InMain("select_B_again")
    /\ cmos' = "B"
    /\ main' = "write_B"
    /\ UNCHANGED <<setup, cpu, pic, regB, pf, prev, ticks, faults>>

\* With the periodic flag already up, enabling its interrupt raises the line.
WriteB ==
    /\ InMain("write_B")
    /\ IF cmos = "B"
       THEN /\ regB' = prev \union {Pie}
            /\ irr' = IF pf = 1 /\ Pie \notin regB THEN irr \union {Clock} ELSE irr
       ELSE UNCHANGED <<regB, irr>>
    /\ main' = "hlt"
    /\ UNCHANGED <<setup, cpu, icw2, isM, isS, cmos, pf, prev, ticks, faults>>

\* The CPU sleeps until it takes an interrupt; one taken before goes unnoticed.
Hlt ==
    /\ InMain("hlt")
    /\ main' = "asleep"
    /\ UNCHANGED <<setup, cpu, pic, rtc, prev, ticks, faults>>

Main ==
    \/ descriptor_init
    \/ InstallInts
    \/ SelectB \/ ReadB \/ SelectBAgain \/ WriteB
    \/ Hlt

(***************************************************************************)
(* Interrupts and exceptions arrive.                                       *)
(***************************************************************************)
Raise(n) ==
    /\ irr' = irr \union {n}
    /\ UNCHANGED <<main, setup, cpu, icw2, isM, isS, rtc, prev, ticks, faults>>

\* The clock's line goes up with its flag, and stays up until the flag is
\* cleared: another period before that is no further edge.
ClockTick ==
    /\ pf = 0
    /\ pf' = 1
    /\ irr' = IF Pie \in regB THEN irr \union {Clock} ELSE irr
    /\ UNCHANGED <<main, setup, cpu, icw2, isM, isS, cmos, regB, prev, ticks, faults>>

Wake == main' = IF InMain("asleep") THEN "run" ELSE main

Deliver(n) ==
    /\ iflag = 1
    /\ Deliverable(n)
    /\ irr' = irr \ {n}
    /\ isM' = isM \union {Line(n)}
    /\ isS' = IF n < 8 THEN isS ELSE isS \union {n}
    /\ EnterGate(Vector(n))
    /\ Wake
    /\ UNCHANGED <<icw2, setup, rtc, prev, ticks, faults>>

\* A line that falls before it is acknowledged is answered with the 8259's
\* lowest line, without an interrupt in service there.
Spurious(n) ==
    /\ iflag = 1
    /\ n \in {7, 15} \cap Irqs
    /\ \A s \in isM : Line(n) < s
    /\ isM' = IF n = 7 THEN isM ELSE isM \union {2}
    /\ EnterGate(Vector(n))
    /\ Wake
    /\ UNCHANGED <<icw2, irr, isS, setup, rtc, prev, ticks, faults>>

Fault(v) ==
    /\ main \notin {"init_idt", "isrs_install", "irq_remap", "irq_install", "idt_load"}
    /\ ~InMain("asleep") /\ ~Halted /\ ~Faulting
    /\ faults < MaxFaults
    /\ faults' = faults + 1
    /\ EnterGate(v)
    /\ UNCHANGED <<main, setup, pic, rtc, prev, ticks>>

(***************************************************************************)
(* The stubs of idt2.s, irq_handler and rtc_call.                          *)
(***************************************************************************)
\* The stub's cli, and the call of irq_handler or fault_handler.
Stub ==
    /\ At("stub")
    /\ iflag' = 0
    /\ Goto(CASE ~IsIrq(depth) -> "fault_handler"
              [] Irq = Clock /\ Clock \in routines -> "rtc_call"
              [] OTHER -> "routine")
    /\ UNCHANGED <<main, setup, depth, pic, rtc, prev, ticks, faults>>

\* Mutant: the comment's "greater than 40".
AfterRoutine_GreaterThan40 == IF frame[depth].vec > 40 THEN "eoi_slave" ELSE "eoi_master"
AfterRoutine == IF frame[depth].vec >= 40 THEN "eoi_slave" ELSE "eoi_master"

\* Any other routine, or none.
Routine ==
    /\ At("routine")
    /\ Goto(AfterRoutine)
    /\ UNCHANGED <<main, setup, iflag, depth, pic, rtc, prev, ticks, faults>>

RtcCall ==
    /\ At("rtc_call")
    /\ ticks' = (ticks + 1) % 2
    /\ Goto("rtc_select")
    /\ UNCHANGED <<main, setup, iflag, depth, pic, rtc, prev, faults>>

RtcSelectC ==
    /\ At("rtc_select")
    /\ cmos' = "C"
    /\ Goto("rtc_read")
    /\ UNCHANGED <<main, setup, iflag, depth, pic, regB, pf, prev, ticks, faults>>

\* Mutant: register C is not read, as in a routine that only counts.
RtcReadC_Forgotten ==
    /\ At("rtc_read")
    /\ Goto(AfterRoutine)
    /\ UNCHANGED <<main, setup, iflag, depth, pic, rtc, prev, ticks, faults>>
RtcReadC ==
    /\ At("rtc_read")
    /\ pf' = IF cmos = "C" THEN 0 ELSE pf
    /\ cmos' = "D"
    /\ Goto(AfterRoutine)
    /\ UNCHANGED <<main, setup, iflag, depth, pic, regB, prev, ticks, faults>>

EoiSlave ==
    /\ At("eoi_slave")
    /\ isS' = Retire(isS)
    /\ Goto("eoi_master")
    /\ UNCHANGED <<main, setup, iflag, depth, icw2, irr, isM, rtc, prev, ticks, faults>>

\* Mutant: the master is told only of its own lines.
EoiMaster_OwnOnly ==
    /\ At("eoi_master")
    /\ isM' = IF frame[depth].vec >= 40 THEN isM ELSE Retire(isM)
    /\ Goto("iret")
    /\ UNCHANGED <<main, setup, iflag, depth, icw2, irr, isS, rtc, prev, ticks, faults>>
EoiMaster ==
    /\ At("eoi_master")
    /\ isM' = Retire(isM)
    /\ Goto("iret")
    /\ UNCHANGED <<main, setup, iflag, depth, icw2, irr, isS, rtc, prev, ticks, faults>>

\* A breakpoint returns, a general protection fault returns to where it will
\* happen again, and anything else halts the system.
FaultHandler ==
    /\ At("fault_handler")
    /\ IF frame[depth].vec = 13
       THEN Goto("again") /\ iflag' = frame[depth].saved
       ELSE /\ Goto(IF frame[depth].vec = 3 THEN "iret" ELSE "halt")
            /\ iflag' = 0
    /\ UNCHANGED <<main, setup, depth, pic, rtc, prev, ticks, faults>>

FaultAgain ==
    /\ Faulting
    /\ iflag' = 0
    /\ Goto("stub")
    /\ UNCHANGED <<main, setup, depth, pic, rtc, prev, ticks, faults>>

Iret ==
    /\ At("iret")
    /\ iflag' = frame[depth].saved
    /\ depth' = depth - 1
    /\ UNCHANGED <<main, setup, frame, pic, rtc, prev, ticks, faults>>

Handler ==
    \/ Stub \/ Routine \/ RtcCall \/ RtcSelectC \/ RtcReadC
    \/ EoiSlave \/ EoiMaster \/ FaultHandler \/ FaultAgain \/ Iret

Delivery == \E n \in Irqs \union {Clock} : Deliver(n)

Next ==
    \/ Main
    \/ Handler
    \/ Delivery
    \/ ClockTick
    \/ \E n \in Irqs : Raise(n)
    \/ \E n \in {7, 15} : Spurious(n)
    \/ \E v \in Faults : Fault(v)

\* The CPU runs: a handler and an interrupt that can be taken do not wait for
\* ever, and kernel_main, which runs only between interrupts, gets its turn
\* when it could run again and again.  The clock keeps ticking; no other
\* device has to do anything.
Fairness ==
    /\ WF_vars(Handler)
    /\ WF_vars(Delivery)
    /\ SF_vars(Main)
    /\ WF_vars(ClockTick)

Spec == Init /\ [][Next]_vars /\ Fairness

(***************************************************************************)
(* Types.                                                                  *)
(***************************************************************************)
Places == {"stub", "fault_handler", "routine", "rtc_call", "rtc_select", "rtc_read",
           "eoi_slave", "eoi_master", "iret", "again", "halt"}
Boot == {"init_idt", "isrs_install", "irq_remap", "irq_install", "idt_load", "init_gdt"}
Program == {"select_B", "read_B", "select_B_again", "write_B"}

TypeOK ==
    /\ main \in Boot \union {"install_ints", "hlt", "asleep", "run"} \union Program
    /\ installed \in 0 .. 6
    /\ iflag \in {0, 1}
    /\ gates \subseteq 0 .. 255
    /\ icw2 \in [master : {8, 32}, slave : {112, 40}]
    /\ irr \subseteq Irqs \union {Clock}
    /\ isM \subseteq 0 .. 7
    /\ isS \subseteq 8 .. 15
    /\ routines \subseteq 0 .. 15
    /\ depth \in 0 .. StackDepth
    /\ frame \in [1 .. StackDepth -> [vec : 0 .. 255, at : Places, saved : {0, 1}]]
    /\ cmos \in {"B", "C", "D"}
    /\ regB \subseteq BootB \union {Pie}
    /\ prev \subseteq BootB \union {Pie}
    /\ pf \in {0, 1}
    /\ ticks \in 0 .. 1
    /\ faults \in 0 .. MaxFaults

(***************************************************************************)
(* Safety.                                                                 *)
(***************************************************************************)
\* Whatever interrupts the kernel, from the sti in idt_load on, finds a gate,
\* and a hardware interrupt never arrives as an exception: the 8259s are
\* moved and the gates filled before the first one can come (idt.cc:257-266).
EveryVectorHasItsGate ==
    /\ TypeOK
    /\ \A d \in 1 .. depth :
          /\ frame[d].vec \in gates
          /\ IsIrq(d) => frame[d].vec \in irq
          /\ ~IsIrq(d) => frame[d].vec \in Faults \intersect exception_messages

\* Routines run one at a time, exceptions in between or not: none of them is
\* written to be entered twice, or to find its port accesses split by
\* another's.  When none runs, no interrupt is in service at either 8259, so
\* none of the sixteen lines is blocked (idt.cc:190-206,220-230).
Acknowledged ==
    /\ \A c, d \in 1 .. depth : IsIrq(c) /\ IsIrq(d) => c = d
    /\ (\A d \in 1 .. depth : ~IsIrq(d)) => isM = {} /\ isS = {}

\* An end of interrupt retires the interrupt that is being handled and no
\* other; that of a spurious one retires nothing that a device asked for.
EoiRetiresOwn ==
    [][/\ isM' # isM /\ isM' \subseteq isM => isM \ isM' = {Line(Irq)}
       /\ isS' # isS /\ isS' \subseteq isS => isS \ isS' = {Irq}]_vars

\* The clock cannot go silent: kernel_main's read-modify-write of register B,
\* two accesses of two ports each with interrupts enabled, sets its bit, loses
\* none the BIOS had set and writes no other register; and while the clock's
\* flag is up, which keeps further periods from making an edge, its interrupt
\* is pending or rtc_call is on its way to the read of register C that clears
\* it (main.cc:201-206,373-376).
ClockNotWedged ==
    /\ regB = IF main \in Boot \union {"install_ints"} \union Program
              THEN BootB ELSE BootB \union {Pie}
    /\ pf = 1 /\ Pie \in regB =>
          \/ Clock \in irr
          \/ \E d \in 1 .. depth : /\ frame[d].vec = 32 + Clock
                                  /\ frame[d].at \in {"stub", "rtc_call", "rtc_select", "rtc_read"}

(***************************************************************************)
(* Liveness.                                                               *)
(***************************************************************************)
\* An exception the kernel does not come back from.
Lost == \E d \in 1 .. depth : ~IsIrq(d) /\ frame[d].vec # 3

\* The kernel gets past its first hlt, although the tick it waits for can
\* come too early, unless an exception stops it (main.cc:372-377).
GetsPastHlt == <>(main = "run" \/ Lost)

=============================================================================
