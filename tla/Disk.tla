-------------------------------- MODULE Disk --------------------------------
(***************************************************************************)
(* The ATA driver with the mouse moving: ide_buf and term_buf are both     *)
(* address 0, and the mouse's routine copies the screen there and back     *)
(* between any two steps of ide_identify and ata_is_sus.  The driver is    *)
(* the kernel: it does nothing while a character is being printed.         *)
(***************************************************************************)
EXTENDS Ata, Pointer

CONSTANTS IdentLen, Model \* words of the identification, and where the model stands in it

ASSUME DiskAssumption ==
    IdentLen \in Nat /\ IdentLen <= Cols * SavedRows /\ Model \subseteq 0 .. IdentLen - 1

VARIABLE str        \* what ata_is_sus took for the model: who wrote each word

diskVars == <<vars, pointerVars, str>>

\* *(uint16_t *)(ide_buf + i*2) = inportw(io + ATA_REG_DATA)
Identified == [c \in Saved |-> IF c < IdentLen THEN "drive" ELSE low[c]]

\* The steps of Ata; the one that finds the drive online fills ide_buf, and
\* the one after ide_identify takes the model out of it.
DriverStep ==
    /\ Driver
    /\ putchar = "idle"
    /\ low' = IF pc = "pm_stat_read" /\ "ERR" \notin status THEN Identified ELSE low
    /\ str' = IF pc = "sus" THEN [w \in Model |-> low[w]] ELSE str
    /\ UNCHANGED <<screen, mouse_x, mouse_y, shown, scrolled, textVars>>

DiskInit == Init /\ PointerInit /\ str = [w \in Model |-> "none"]

DiskNext ==
    \/ DriverStep
    \/ Complete /\ UNCHANGED <<pointerVars, str>>
    \/ PointerNext /\ UNCHANGED <<vars, str>>

\* The kernel runs, and the drive completes what it was told.
DiskSpec ==
    /\ DiskInit /\ [][DiskNext]_diskVars
    /\ WF_vars(DriverStep) /\ WF_vars(Complete)
    /\ WF_pointerVars(Printing)

\* The name of a drive that identified itself is the drive's own, however the
\* mouse moves between the transfer and the reading of the name
\* (ata.cc:66-69,187-200, tty.cc:42-57).
NameIsTheDrives ==
    drive = "good" /\ pc \notin {"identify", "detect", "wait_bsy", "pm_stat_read", "sus"} =>
        \A w \in Model : str[w] = "drive"
=============================================================================
