-------------------------------- MODULE Boot --------------------------------
(***************************************************************************)
(* kernel_main's use of the heap, in its order: the PCI scan, the dump of  *)
(* its table, much later the image is decoded, and then drawn, with the    *)
(* clock's interrupts enabled.  The heap is the one of mm_init, which has  *)
(* allocated its own block.                                                *)
(***************************************************************************)
EXTENDS Pci, Tga, DrawIcon, FiniteSets

CONSTANT DescSize   \* words of pheap_desc

\* Memory holds what kernel_main allocates.  The heap begins behind the kernel,
\* above the first megabyte, and all of this is less than that.
ASSUME BootAssumption ==
    /\ DescSize \in Nat \ {0}
    /\ \A bus \in Answering, image \in Images :
          Base + (DescSize + HDR + PAD) + (Room + HDR + PAD) + (DrvRoom + HDR + PAD)
               + Cardinality(bus) * (4 + HDR + PAD) + (image.w * image.h + 2 + HDR + PAD) <= Top
    /\ Top <= 2 * Base

bootVars == <<word, last_alloc, pciVars, tgaVars, drawVars>>

MmInit ==
    LET desc == Malloc([w \in Memory |-> 0], Base, DescSize) IN
    word = desc.mem /\ last_alloc = desc.last

BootInit == MmInit /\ PciInit /\ TgaInit /\ DrawInit

ScanBus == PciNext /\ UNCHANGED <<tgaVars, drawVars>>

DecodeImage == pciPc = "done" /\ TgaNext /\ UNCHANGED <<pciVars, drawVars>>
\* The block is drawn from its first word on, its size included; a NULL is
\* drawn from address 0.
DrawImage == tgaPc = "done" /\ DrawStep /\ UNCHANGED <<word, last_alloc, pciVars, tgaVars>>
TickWhileDrawing == Tick /\ UNCHANGED <<word, last_alloc, pciVars, tgaVars>>

BootNext == ScanBus \/ DecodeImage \/ DrawImage \/ TickWhileDrawing

BootSpec == BootInit /\ [][BootNext]_bootVars

(***************************************************************************)
(* Properties.                                                             *)
(***************************************************************************)
\* The table of devices is the bus while it is filled and dumped, and it and the
\* heap's chain are as the scan left them once the image is decoded or refused,
\* if its last packet did not overrun the image (pci.cc:73-93, tga.cc:11-80).
TableOutlastsImage ==
    /\ TableIsTheBus
    /\ tgaPc # "header" /\ devs <= Room + PAD /\ Len(stream) <= Pixels => TableIntact
=============================================================================
