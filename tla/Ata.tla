-------------------------------- MODULE Ata --------------------------------
(***************************************************************************)
(* The ATA driver of src/drivers/ata.cc and its one client, the ext2       *)
(* detection of src/fs/ext2.cc: ata_is_sus identifies the primary master,  *)
(* hands it to ext2_scan_dev, which has ata_read read two sectors and      *)
(* looks for the signature of a superblock.                                *)
(*                                                                         *)
(* The driver polls a drive that works on its own.  One step of the model  *)
(* is one look at the status register, one command with the registers      *)
(* written for it, or the transfer of one sector through the data port,    *)
(* during which the drive waits for the driver.  A sector's content is     *)
(* known by its address; Base stands for 256, the values of a register, and *)
(* Nibble for 16, those of the four bits of the number that go with the    *)
(* drive select.                                                           *)
(***************************************************************************)
EXTENDS Integers

CONSTANTS
    Base,       \* how many values a byte register has
    Nibble,     \* how many values the low half of the drive select has
    Lbas,       \* the first sector of a read; ext2_scan_dev's is Superblock
    NumSects,   \* how many sectors a read asks for
    Drives      \* the drives there may be: "good", "absent", "bad"

Superblock == 2     \* the sector an ext2 superblock starts in
\* Its fields before ext2_sig: thirteen uint32_t and two uint16_t.
SignatureSector == (13 * 4 + 2 * 2) \div 512

ASSUME AtaAssumption ==
    /\ Base \in Nat /\ Base > 1
    /\ Nibble \in Nat \ {0}
    /\ Lbas \subseteq Nat
    /\ NumSects \in Nat \ {0}

VARIABLES
    drive,      \* which drive there is
    regs,       \* the registers of the drive: [dev, lba2, lba1, lba0]
    status,     \* its status register: a set of bits
    command,    \* what it is working on
    pc,         \* where the driver is
    lba, i,     \* ata_read's parameter and its loop variable
    buf,        \* ext2_scan_dev's buffer: what is in each of its sectors
    ata_pm,     \* "Primary master exists?"
    verdict     \* what ext2_scan_dev says of the drive

device == <<drive, regs, status, command>>
vars == <<device, pc, lba, i, buf, ata_pm, verdict>>

(***************************************************************************)
(* The drive.                                                              *)
(***************************************************************************)
Idle == {"DRDY"}
Busy == {"BSY"}
Ready == {"DRDY", "DRQ"}
Failed == {"DRDY", "ERR"}

\* The sectors that four registers tell apart: 2^28.
Addressable == Nibble * (Base * Base * Base)
RegisterValues == [dev : 0 .. Nibble - 1, lba2 : 0 .. Base - 1, lba1 : 0 .. Base - 1, lba0 : 0 .. Base - 1]
Address(r) == ((r.dev * Base + r.lba2) * Base + r.lba1) * Base + r.lba0

\* What the data port delivers: identification data, the addressed sector, or
\* nothing sensible when the drive has nothing to transfer.
Garbage == -1
Identification == -2
DataPort ==
    IF "DRQ" \notin status THEN Garbage
    ELSE IF command = "IDENTIFY" THEN Identification
    ELSE Address(regs)

\* A command makes a drive that is there busy.
Issue(cmd, r) ==
    /\ regs' = r
    /\ command' = cmd
    /\ status' = IF drive = "absent" THEN {} ELSE Busy
    /\ drive' = drive

Complete ==
    /\ status = Busy
    /\ \/ status' = Ready
       \/ drive = "bad" /\ status' = Failed
    /\ UNCHANGED <<drive, regs, command, pc, lba, i, buf, ata_pm, verdict>>

\* The driver takes the 256 words of a sector.
Drain == status' = (IF status = Ready THEN Idle ELSE status) /\ UNCHANGED <<drive, regs, command>>

(***************************************************************************)
(* ide_identify.                                                           *)
(***************************************************************************)
Init ==
    /\ drive \in Drives
    /\ regs \in [dev : {0}, lba2 : {0}, lba1 : 0 .. 1, lba0 : 0 .. 1]
    /\ status = IF drive = "absent" THEN {} ELSE Idle
    /\ command = "none"
    /\ pc = "identify"
    /\ lba \in Lbas
    /\ i = 0
    /\ buf = [s \in 0 .. NumSects - 1 |-> Garbage]
    /\ ata_pm = 0
    /\ verdict = "none"

Identify ==
    /\ pc = "identify"
    /\ Issue("IDENTIFY", [dev |-> 0, lba2 |-> 0, lba1 |-> 0, lba0 |-> 0])
    /\ pc' = "detect"
    /\ UNCHANGED <<lba, i, buf, ata_pm, verdict>>

\* A status of zero: "not detected".
Detect ==
    /\ pc = "detect"
    /\ pc' = IF status = {} THEN "sus" ELSE "wait_bsy"
    /\ UNCHANGED <<device, lba, i, buf, ata_pm, verdict>>

\* inportb(...) & ATA_SR_BSY != 0 is inportb(...) & 1: it looks at ERR.
WaitBsy ==
    /\ pc = "wait_bsy"
    /\ "ERR" \notin status
    /\ pc' = "pm_stat_read"
    /\ UNCHANGED <<device, lba, i, buf, ata_pm, verdict>>

\* "has ERR set. Disabled." and back to ata_is_sus.
Disable ==
    /\ pc = "pm_stat_read"
    /\ "ERR" \in status
    /\ pc' = "sus"
    /\ UNCHANGED <<device, lba, i, buf, ata_pm, verdict>>

Online ==
    /\ pc = "pm_stat_read"
    /\ "ERR" \notin status /\ "DRQ" \in status
    /\ Drain
    /\ pc' = "sus"
    /\ UNCHANGED <<lba, i, buf, ata_pm, verdict>>

(***************************************************************************)
(* ata_is_sus after ide_identify, whose result it does not look at.        *)
(***************************************************************************)
Sus ==
    /\ pc = "sus"
    /\ ata_pm' = 1
    /\ pc' = "read_one"
    /\ UNCHANGED <<device, lba, i, buf, verdict>>

(***************************************************************************)
(* ata_read, ata_read_one and ide_poll.                                    *)
(***************************************************************************)
\* Mutant: the bits above LBA2 are not sent with the drive select.
Registers_24Bit(n) ==
    [dev |-> 0, lba2 |-> (n \div (Base * Base)) % Base,
     lba1 |-> (n \div Base) % Base, lba0 |-> n % Base]
\* lba >> 24 & 0x0F.  That lba is a uint32_t is no difference to the registers:
\* 2^32 is a multiple of Addressable.
Registers(n) ==
    [dev |-> (n \div (Base * Base * Base)) % Nibble, lba2 |-> (n \div (Base * Base)) % Base,
     lba1 |-> (n \div Base) % Base, lba0 |-> n % Base]

\* Mutant: the registers are written, the command is not.
ReadOne_NoCommand ==
    /\ pc = "read_one"
    /\ regs' = Registers(lba + i)
    /\ pc' = "retry"
    /\ UNCHANGED <<drive, status, command, lba, i, buf, ata_pm, verdict>>
ReadOne ==
    /\ pc = "read_one"
    /\ Issue("READ_PIO", Registers(lba + i))
    /\ pc' = "retry"
    /\ UNCHANGED <<lba, i, buf, ata_pm, verdict>>

\* Mutant: the wait for BSY is the only one.
Retry_Only ==
    /\ pc = "retry"
    /\ "BSY" \notin status
    /\ pc' = "transfer"
    /\ UNCHANGED <<device, lba, i, buf, ata_pm, verdict>>
Retry ==
    /\ pc = "retry"
    /\ "BSY" \notin status
    /\ pc' = "retry2"
    /\ UNCHANGED <<device, lba, i, buf, ata_pm, verdict>>

\* An error is seen and passed over: only DRQ ends the wait.
Retry2 ==
    /\ pc = "retry2"
    /\ "DRQ" \in status
    /\ pc' = "transfer"
    /\ UNCHANGED <<device, lba, i, buf, ata_pm, verdict>>

\* Every sector goes to the start of the buffer.
Transfer ==
    /\ pc = "transfer"
    /\ buf' = [buf EXCEPT ![0] = DataPort]
    /\ Drain
    /\ i' = i + 1
    /\ pc' = IF i + 1 < NumSects THEN "read_one" ELSE "verify"
    /\ UNCHANGED <<lba, ata_pm, verdict>>

(***************************************************************************)
(* ext2_scan_dev looks for the signature, where it is in the superblock.   *)
(***************************************************************************)
Verify ==
    /\ pc = "verify"
    /\ verdict' = IF buf[SignatureSector] = Superblock + SignatureSector THEN "valid" ELSE "not valid"
    /\ pc' = "done"
    /\ UNCHANGED <<device, lba, i, buf, ata_pm>>

Driver ==
    \/ Identify \/ Detect \/ WaitBsy \/ Disable \/ Online
    \/ Sus
    \/ ReadOne \/ Retry \/ Retry2 \/ Transfer
    \/ Verify

Next == Driver \/ Complete

(***************************************************************************)
(* Types.                                                                  *)
(***************************************************************************)
TypeOK ==
    /\ drive \in Drives
    /\ regs \in RegisterValues
    /\ status \in {{}, Idle, Busy, Ready, Failed}
    /\ command \in {"none", "IDENTIFY", "READ_PIO"}
    /\ pc \in {"identify", "detect", "wait_bsy", "pm_stat_read", "sus",
               "read_one", "retry", "retry2", "transfer", "verify", "done"}
    /\ lba \in Lbas
    /\ i \in 0 .. NumSects
    /\ buf \in [0 .. NumSects - 1 -> {Garbage, Identification} \union 0 .. Addressable - 1]
    /\ ata_pm \in {0, 1}
    /\ verdict \in {"none", "valid", "not valid"}

(***************************************************************************)
(* Safety.                                                                 *)
(***************************************************************************)
\* The data port is read only while the drive has a sector to transfer, found
\* out by a status that was read earlier (ata.cc:81-101,166-170).
TransferOnlyReady == TypeOK /\ (pc = "transfer" => status = Ready /\ command = "READ_PIO")

\* What ata_read_one leaves at the start of the buffer is the sector it was
\* asked for: the address arrives whole in the four registers, and the drive
\* is not still delivering what it was asked before.  "We only support 28bit
\* LBA so far": a number beyond is read without its upper bits, also when only
\* the second sector of a read gets there (ata.cc:106-173).
SectorRequested == i > 0 => buf[0] = (lba + i - 1) % Addressable

(***************************************************************************)
(* Liveness.                                                               *)
(***************************************************************************)
\* A drive without faults is identified, read and judged: none of the three
\* polling loops waits for something that does not come (ata.cc:57-64,87-98).
GoodDriveIsScanned == drive = "good" ~> pc = "done"
=============================================================================
