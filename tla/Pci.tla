-------------------------------- MODULE Pci --------------------------------
(***************************************************************************)
(* The scan of the PCI bus, src/drivers/pci.cc: pci_init allocates the two *)
(* tables and asks every function of every slot of every bus who it is;    *)
(* each that answers gets a pci_device of its own, whose address goes into *)
(* the next place of pci_devices.  pci_proc_dump then goes over the table. *)
(*                                                                         *)
(* The bus is external: what answers at the address written to port 0xCF8. *)
(***************************************************************************)
EXTENDS Words, Sequences

CONSTANTS
    Buses, Slots, Functions, \* how many: 256, 32 and 8
    Room,       \* words of pci_devices: 32 * sizeof(pci_device) is 128
    DrvRoom,    \* words of pci_drivers: 32 * sizeof(pci_driver) is 160
    Answering   \* the sets of functions that may be there: <<bus, slot, function>>

ASSUME PciAssumption ==
    /\ Buses \in 1 .. 256 /\ Slots \in 1 .. 32 /\ Functions \in 1 .. 8
    /\ Room \in Nat \ {0} /\ DrvRoom \in Nat /\ DrvRoom >= 4
    /\ \A bus \in Answering : bus \subseteq (0 .. Buses - 1) \X (0 .. Slots - 1) \X (0 .. Functions - 1)

VARIABLES
    pciPc,      \* "init", "probe", "dump" or "done"
    there,      \* the functions on the bus
    at,         \* the function pci_probe asks, counted through
    pci_devices, pci_drivers, devs, drivs,
    dumped      \* what pci_proc_dump has printed: [vendor, device, func]

pciVars == <<pciPc, there, at, pci_devices, pci_drivers, devs, drivs, dumped>>

(***************************************************************************)
(* Configuration space: a function's first register holds its vendor and,  *)
(* in the upper half, its device.  The bus decodes the address.            *)
(***************************************************************************)
Nobody == 65535
Triple(n) == <<n \div (Slots * Functions), (n \div Functions) % Slots, n % Functions>>
Vendor(f) == 100 + 16 * f[1] + 4 * f[2] + f[3]
Device(f) == 500 + Vendor(f)
Decode(address) == <<address \div 2 ^ 16, (address \div 2 ^ 11) % 32, (address \div 2 ^ 8) % 8>>
Register(address) ==
    LET f == Decode(address) IN
    IF f \in there /\ address % 2 ^ 8 = 0 THEN <<Vendor(f), Device(f)>> ELSE <<Nobody, Nobody>>

\* Mutant: the slot is shifted one bit less.
Address_Shifted(f, offset) == f[1] * 2 ^ 16 + f[2] * 2 ^ 10 + f[3] * 2 ^ 8 + (offset - (offset % 4))
\* The enable bit 31 is left out.
Address(f, offset) == f[1] * 2 ^ 16 + f[2] * 2 ^ 11 + f[3] * 2 ^ 8 + (offset - (offset % 4))
pci_read_word(f, offset) == Register(Address(f, offset))[IF offset % 4 >= 2 THEN 2 ELSE 1]
getVendorID(f) == pci_read_word(f, 0)
getDeviceID(f) == pci_read_word(f, 2)

(***************************************************************************)
(* pci_init.                                                               *)
(***************************************************************************)
PciInitTables ==
    /\ pciPc = "init"
    /\ LET one == Malloc(word, last_alloc, Room)
           two == Malloc(one.mem, one.last, DrvRoom)
       IN  /\ pci_devices' = one.ptr
           /\ pci_drivers' = two.ptr
           /\ word' = two.mem
           /\ last_alloc' = two.last
    /\ devs' = 0 /\ drivs' = 0
    /\ pciPc' = "probe"
    /\ UNCHANGED <<there, at, dumped>>

\* The fields of a pci_device: vendor, device, func, driver.
Filled(mem, p, f) ==
    [mem EXCEPT ![p] = getVendorID(f), ![p + 1] = getDeviceID(f), ![p + 2] = f[3], ![p + 3] = 0]

\* Mutant: the table's first place stays empty.
Place_FromOne == pci_devices + devs + 1
\* add_pci_device writes to the next place, wherever that is.
Place == pci_devices + devs

Probe ==
    /\ pciPc = "probe"
    /\ at < Buses * Slots * Functions
    /\ at' = at + 1
    /\ LET f == Triple(at)
           pdev == Malloc(word, last_alloc, 4)
       IN  IF getVendorID(f) = Nobody
           THEN UNCHANGED <<word, last_alloc, devs>>
           ELSE /\ word' = [Filled(pdev.mem, pdev.ptr, f) EXCEPT ![Place] = pdev.ptr]
                /\ last_alloc' = pdev.last
                /\ devs' = devs + 1
    /\ UNCHANGED <<pciPc, there, pci_devices, pci_drivers, drivs, dumped>>

Probed ==
    /\ pciPc = "probe"
    /\ at = Buses * Slots * Functions
    /\ pciPc' = "dump"
    /\ UNCHANGED <<there, at, pci_devices, pci_drivers, devs, drivs, dumped, word, last_alloc>>

\* What p points to, wherever that is.
DeviceAt(mem, p) ==
    [vendor |-> ReadWord(mem, p), device |-> ReadWord(mem, p + 1),
     func |-> ReadWord(mem, p + 2), driver |-> ReadWord(mem, p + 3)]
\* pci_proc_dump; no driver is registered, so none is printed.
Dump ==
    /\ pciPc = "dump"
    /\ dumped' = [k \in 1 .. devs |-> DeviceAt(word, word[pci_devices + k - 1])]
    /\ pciPc' = "done"
    /\ UNCHANGED <<there, at, pci_devices, pci_drivers, devs, drivs, word, last_alloc>>

PciInit ==
    /\ pciPc = "init"
    /\ there \in Answering
    /\ at = 0
    /\ pci_devices = 0 /\ pci_drivers = 0 /\ devs = 0 /\ drivs = 0
    /\ dumped = <<>>

PciNext == PciInitTables \/ Probe \/ Probed \/ Dump

(***************************************************************************)
(* Properties.                                                             *)
(***************************************************************************)
\* The functions of the bus that were asked and are there, in bus order.
Found ==
    LET found[n \in 0 .. Buses * Slots * Functions] ==
            IF n = 0 THEN <<>>
            ELSE IF Triple(n - 1) \in there THEN Append(found[n - 1], Triple(n - 1))
            ELSE found[n - 1]
    IN found[at]

DeviceOf(f) == [vendor |-> Vendor(f), device |-> Device(f), func |-> f[3], driver |-> 0]

\* The table lists what is on the bus, in its order, and malloc's chain is whole.
TableIntact ==
    /\ devs = Len(Found)
    /\ \A k \in 1 .. devs : DeviceAt(word, word[pci_devices + k - 1]) = DeviceOf(Found[k])
    /\ Whole(word, last_alloc)

\* While the table has room, and for one function more, whose place is the
\* padding behind it, every place holds the address of one function's data,
\* the functions in the order of the bus and none twice; that is what is
\* dumped; and the heap's chain leads from its beginning to its end
\* (pci.cc:26-40,61-93, malloc.cc:56-110).
TableIsTheBus ==
    devs <= Room + PAD =>
        /\ pciPc \in {"probe", "dump"} => TableIntact
        /\ pciPc = "done" => dumped = [k \in 1 .. devs |-> DeviceOf(Found[k])]

\* With more functions the next place is the status of the block behind, and
\* the one after that its size.  malloc may then take that block for a free one,
\* or its end for the heap's; but until pci_devices has grown over pci_drivers
\* and the header behind it, the devices in the table proper keep their places
\* and their data (pci.cc:36, malloc.cc:57-110).
DevicesKept ==
    [][pciPc = "probe" /\ devs < Room + DrvRoom + 2 * (PAD + HDR) =>
        \A k \in 1 .. (IF devs < Room THEN devs ELSE Room) :
            LET p == word[pci_devices + k - 1] IN
            /\ word'[pci_devices + k - 1] = p
            /\ DeviceAt(word', p) = DeviceAt(word, p)]_<<word, pciVars>>
=============================================================================
