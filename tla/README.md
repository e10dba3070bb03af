# A verification of just-kernel in TLA+

just-kernel is a small 32-bit x86 kernel in C++: it boots from multiboot, sets up
a text screen, a heap, interrupts, a keyboard, a mouse and a clock, scans the PCI
bus, shows a picture and reads a disk. There is one thread of control,
`kernel_main`, and everything concurrent in it comes from two places: interrupt
routines, which run between any two instructions of the kernel, and devices, which
change their registers on their own. Most modules are about one of the two; the
rest are about memory that several parts write to, and about long sequences of
calls.

Line numbers are those of the files under `src/`, paths are relative to it.

## 1. Inventory

| Part | State | Operations | Interacts with |
|---|---|---|---|
| Kernel heap, `memory/malloc.cc` | `heap_begin/end`, `last_alloc`, the `alloc_t` headers, `memory_used` | `mm_init`, `malloc`, `free` | called by `pci.cc`, `tga.cc`, whose data lies between its headers |
| PCI, `drivers/pci.cc` | `pci_devices`, `pci_drivers`, `devs` | `pci_init`, `pci_probe`, `add_pci_device`, `pci_proc_dump` | heap; a bus that answers as it likes |
| TGA decoder, `common/tga.cc` | the image's block | `tga_parse` | heap; its result is drawn |
| Drawing, `kernel/main.cc:341-348` | the global `i` | `draw_icon` | `rtc_call` counts the same `i` |
| Interrupts, `descriptor/idt.cc`, `idt2.s` | IDT, `irq_routines`, the two 8259s, the stack of frames | `init_idt`, the stubs, `irq_handler`, `fault_handler`, `irq_install_handler` | every routine; `kernel_main` is what is interrupted |
| Periodic clock, `kernel/main.cc:201-227,372-377` | registers B and C, the CMOS index, `i` | `rtc_call`, the read-modify-write of register B, `hlt` | interrupts, `draw_icon` |
| `keyb_read`, `kernel/main.cc:43-71` | `keyb_reading`, `keyb_received`, `keyb_out` | `keyb_read`, `keyb` | `keyb` is an interrupt routine |
| Keyboard and mouse, `kernel/main.cc:61-290` | the 8042's buffers and mode, `mouse_cycle`, `mouse_byte` | `install_mouse`, `install_ints`, `keyb`, `mouse`, `mouse_wait/read/write` | one output buffer, two interrupt lines |
| Mouse pointer, `kernel/main.cc:140-178`, `common/tty.cc:13-57` | `mouse_x/y`, the screen, the memory at address 0 | the third byte of a packet, `save_buf`, `reprint_buf`, `mouse_print`; `scroll` moves what is on the screen | the text screen; `ide_buf` is at address 0 too |
| Text terminal, `common/tty.cc` | `terminal_row`, `terminal_column`, cursor registers | `terminal_putchar`, `scroll`, `update_cursor`, `mouse_print` | written by the kernel and by its routines, no lock |
| Video modes and fonts, `drivers/vga.cc` | sequencer, graphics and CRT controller registers, font plane | `write_regs`, `write_font`, `font512`, `set_text_mode` | shares the CRT index register with the terminal |
| ATA and ext2, `drivers/ata.cc`, `fs/ext2.cc` | `ata_pm`, the drive's registers, `ide_buf` | `ata_is_sus`, `ide_identify`, `ide_poll`, `ata_read_one`, `ata_read`, `ext2_scan_dev` | polls a drive |
| Date and time, `common/test_stuff.cc` | `second` .. `year`, `last_*` | `read_rtc` | polls a clock that updates itself |
| Sound Blaster 16, `drivers/sb16.cc` | `buf`, the DMA channel, `sb16_cur` | `play_simple_sound`, `reset_sb16`, `dsp_write`, `transfer`, `sb16_irq_handler` | polls a card, is interrupted by it |
| e1000, `drivers/net/e1000.cc` | `mac` | `read_mac`, `read_eeprom` | polls a card |
| printf and strings, `common/printf.cc`, `string.cc` | `buf`, `size`, `size_override` within a call | `vsprintf_helper`, `itoa`, `atoi` | writes to the terminal |
| GDT, boot code, ports, vendored data, build | - | - | - |

What makes each part correct, and what is hard about it:

- **Heap.** Blocks in use never overlap; the chain of headers stays walkable; the
  heap grows only when it must. Hard: long sequences of `malloc`, `free` and reuse,
  the full heap, and clients that write past their block.
- **PCI.** The table is what is on the bus. Hard: a bus with more devices than the
  table has places.
- **TGA and drawing.** Every pixel gets to its place. Hard: packets that end within
  rows or behind the last pixel; a loop counter an interrupt increments.
- **Interrupts.** Every vector that comes has its gate; routines do not nest; each
  is acknowledged exactly once, also with spurious interrupts and exceptions in
  between; the clock is never wedged. Hard: orders of edges, frames and EOIs.
- **keyb_read.** A call returns a key from during the call, the last one. Hard: a
  key between any two of its statements.
- **Keyboard and mouse.** No byte stuck in the one buffer, no packet put together
  from two. Hard: devices that send while the controller is being programmed.
- **Mouse pointer.** It is on the screen once, where it was printed or where `scroll` has
  moved it. Hard: the memory it saves rows to is not its own, and the mouse comes
  between two cells of a scroll.
- **Terminal.** The position stays on the screen and the cursor follows it. Hard:
  `row++` is a load and a store, and routines print in between.
- **Video.** Text and glyphs go to their own planes; mode, font and terminal agree
  in the end. Hard: a text between two registers of a mode.
- **ATA.** Data is taken when it is there, the sector is the right one up to the 28 bits
  the driver sends, polling ends. Hard: a status that is old when used.
- **Date and time.** All fields belong to one moment. Hard: updates in the middle
  of a pass.
- **Sound Blaster 16, e1000.** The card gets what `transfer` is told, which is the buffer
  and the word behind it; the address is the card's. Hard: registers of two halves and
  one flip-flop; an offset that wraps; an interrupt before the pointer its routine
  reads is set.
- **printf.** Every item prints its own argument, first of all. Hard: the buffer and the
  width outlive an item.

`PROJECT.json` lists every hazard at its line with the properties that cover it.
One has none, a drive that is absent or fails a read: `ide_poll` waits for ever
(`ata.cc:93`), nothing in the repository says it should not, and no property can say
more than that nothing is transferred, which `TransferOnlyReady` says.

## 2. Modules and how they correspond to the code

`PROJECT.json` maps each definition to its lines.

**Memory and pictures**

- **`Arena`** - what a heap promises: intervals handed out never touch, only `free`
  gives one back. **`Heap`** - `malloc.cc`, one iteration of the walk over the
  headers per step: `Skip` goes to the next header, `Reuse` takes a free block,
  `Append` grows the chain, `MmInit` and `FreeBlock` are the other operations. `hdr`
  holds the headers, `live` what the callers asked for. A full heap prints its
  message and appends all the same, as the code does. Callers free only what they
  got, once, and write inside it.
- **`Words`** - the same `malloc` and `free` as operators over a memory of words, in
  which a header is two words like any others. A client that runs past its block
  changes them, and the next `malloc` reads what is there. The code sets and clears the
  status byte only (`malloc.cc:48,79`), the model the word it is the lowest byte of:
  the other three are padding that `malloc` and `free` never read.
- **`Pci`** - `pci_init` over `Words`: one function of the bus per step, its table and
  each `pci_device` in that memory; then `pci_proc_dump`.
- **`Tga`** - `tga_parse` over `Words`: the header and its refusals, whole rows of the
  plain types, packet after packet of the compressed ones. A pixel is known by the
  offset of its bytes in the file.
- **`DrawIcon`** - `draw_icon`, one load or store per step, with `Tick` (`rtc_call`)
  between any two.
- **`Boot`** composes `Pci`, `Tga` and `DrawIcon` in the order of `kernel_main`: they share
  the memory, so that what the scan does to the headers is what the decoder's
  `malloc` walks.

**Interrupts and input**

- **`Interrupts`** - the boot sequence from `descriptor_init` to the first `hlt`, the
  stubs, `irq_handler`, `fault_handler`, `rtc_call`; the 8259s with their request and
  in-service sets, the clock's flag and the CPU's gates are hardware. `frame` is the
  stack of interrupt frames. The other routines' inside is one step.
- **`KeybRead`** - one statement of `keyb_read` per step, `keyb` between any two. Keys
  are numbered in their order of arrival.
- **`Ps2`** - `install_mouse` one port access per step, `keyb` and `mouse` up to the
  bytes they take, the 8042 and its two edge-triggered lines. A boot is quiet (the
  user waits for it to end) or noisy.
- **`Keyboard`** composes the two: the step of `Ps2` in which `keyb` takes its byte is
  `KeybRead`'s arrival of a key, and `keyb_read` runs when no routine does.

**Screen**

- **`Tty`** - `terminal_putchar`, `scroll` and `update_cursor` one memory or port access
  per step, executed by two contexts, the kernel and a routine. That `row++` is a
  load and a store, and that the comparison after `++terminal_column` loads it again,
  was read off the code that g++ makes without `-O`, as the Makefile calls it.
- **`Pointer`** - the third byte of a packet: the movement, `reprint_buf`, `save_buf`,
  `mouse_print`; and `terminal_putchar` as far as it concerns the pointer. The kernel's
  is begun (`KernelChar`), copies the screen up one cell at a time (`ScrollCell`), blanks a
  row (`ScrollBlank`) and writes its character (`KernelPut`); mouse and keyb come between
  any two of these steps, and keyb's character may scroll as well (`KeybPrints`). How many
  rows a scroll moves and which cell a character goes to is left open within the text
  memory: that is `Tty`'s subject. A cell of the screen, or of the low memory it is copied
  to, is known by who wrote it.
- **`Vga`** - `kernel_main`'s sequence of modes and fonts, taken apart into the calls of
  `write_regs` and `write_font` and the texts between them. `write_regs` writes the CRT
  controller one port access per step, because a text of `keyb` or `mouse` uses the same
  index register. A register is kept if it says where memory is written, if the lock
  protects it, or if it is the cursor's or the character height. Register 4 stands for
  those behind the lock, of which 5 differs between modes as well; `Unlock` leaves out
  index 3, whose top bit `vga.cc:49-50` sets.
- **`Printf`** - one call of `printf`, an item per step; `itoa` and `atoi` on ints
  between `-Half` and `Half`, negated and read as unsigned as C does, with the buffer and the
  width that outlive an item.
- **`Terminal`** is `Tty` and `Printf` in one specification, one of them chosen at the
  beginning: `printf` keeps nothing from call to call and does not see the position.

**Devices that are polled**

- **`Ata`** - `ata_is_sus` to `ext2_scan_dev` against a drive that is good, fails or is
  absent. One step is one look at the status, one command, one sector. Of the first
  byte of a sector number only four bits are sent, with the drive select.
- **`Disk`** composes `Ata` and `Pointer`, which meet at address 0: `term_buf` is never
  given a value and `ide_buf` is null, so the drive's identification is put where the
  mouse's routine saves the screen. The driver is the kernel, and does nothing while
  one of its characters is being printed.
- **`RtcRead`** - `read_rtc`, one register per step, against a clock that updates itself
  whenever it likes, in the four modes a clock can be in.
- **`Sb16`** - `play_simple_sound` for each module of the boot loader, against a card that
  is good, old or absent; the DMA channel's registers are words written in halves,
  and `Given` says which words it gives out for them, wrapped as its offset wraps.
- **`E1000`** - `read_mac` with a card behind its BAR in memory or in ports.
- **`Polled`** is the three in one specification, one of them chosen at the beginning:
  they do not run together and share nothing.

`keyb_read`, `play_simple_sound` and `read_mac` have no caller at this commit (the call
of `play_simple_sound` is commented out). They are modelled as written; the
specifications call them.

## 3. Runs

| Run | Module, cfg | What it shows |
|---|---|---|
| `heap` | `MCHeap` | `IInv`, the inductive invariant; `NoOverlap`; `FirstFit`; `MallocReturns`; `ImplementsArena`, the refinement |
| `heap_oom` | `MCHeap`, `MCHeapOom.cfg` | counterexample to `CannotAllocate`: the call that prints "Out of memory." returns a block beyond `heap_end` |
| `boot` | `MCBoot` | `TableOutlastsImage`: decoding leaves the table and the heap's chain alone; `DevicesKept`: how long a table that overruns keeps its devices; `PictureIsTheFile`; `OnlyTheLastOverruns`; `ShiftedByTicks`: no pixel is lost to a tick, only shifted |
| `interrupts` | `MCInterrupts` | `EveryVectorHasItsGate`; `Acknowledged`: no nesting, nothing left in service; `EoiRetiresOwn`; `ClockNotWedged`; `GetsPastHlt` |
| `keyboard` | `MCKeyboard` | `IInv` and `ReturnsLastKey` of the handshake on real bytes; `WholePacket`; `KeysAreTyped` from the keyboard to the caller; `BytesAreRead`; `BootEnds`; `TypedKeyEndsTheWait` |
| `disk` | `MCDisk` | `TransferOnlyReady`; `SectorRequested`, modulo what 28 bits address; `OnePointer` in spite of scrolls; `NameIsTheDrives` in spite of the mouse; `GoodDriveIsScanned` |
| `polled` | `MCPolled` | `SnapshotIsATime` and `DateIsRight`; `ChannelIsProgrammed`: exactly what the channel gives out; `MacIsTheCards`; `PollingEnds`, of all three |
| `rtc_twelve` | `MCPolled`, `MCPolledTwelve.cfg` | counterexample to `TwelveIsConverted` |
| `terminal` | `MCTerminal` | `ColumnOnScreen`; `NearTheScreen`: rows counted up and down by interrupted increments stay near; `CursorFollows`; `PlainCall`: without a width each item prints its argument; `NumberFirst`: with one, a number comes first and in its field, whatever follows it |
| `vga` | `MCVga` | `PlanesApart`; `OneTextOneRegister`; `ScreenFitsTerminal` |
| `printf_width` | `MCPrintf`, `MCPrintfWidth.cfg` | counterexample to `WidthAsCommented`: "%08x" prints nothing |
| `printf_len` | `MCPrintf`, `MCPrintfLen.cfg` | counterexample to `LenIsWidth`: a width stays for later numbers that have none |

The four counterexamples are listed as findings with the line of the code and the
text that says otherwise. Seen while modelling, and not run as counterexamples:

- `memory_used` drifts: a reused block is added with its new size and subtracted
  with its old one (`malloc.cc:47,73-76`), which it keeps.
- `transfer(buf, 26)` gives out 52 bytes of a `buf` of 50 (`sb16.cc:166,294`), and the
  channel takes what lies beyond a multiple of 128K from 128K lower; `ChannelIsProgrammed`
  says exactly which words those are. Nothing in the repository says otherwise.
- A sector number from 2^28 on is read without its upper bits ("we only support 28bit
  LBA", `ata.cc:109,143`); nothing refuses it, and `SectorRequested` says which sector comes.
- Behind a field that is shorter than a number printed before it in the same call stand
  that number's digits (`printf.cc:69-77`): the part of `NumberFirst` after the field.
- The pointer's words rise with every scroll until the mouse moves again, and the
  kernel may print over them or a scroll copy part of them twice: `OnePointer` says how far.
- Every sector of a read lands at the start of the buffer (`ata.cc:178-181`), so that
  `ext2_scan_dev` looks for the superblock in the wrong one.
- `ide_identify`'s loop "untill BSY is clear" tests ERR instead, because of a
  precedence slip (`ata.cc:57`), and leaves while BSY is set; `ide_poll` waits for
  ever for an absent or a failing drive.
- A byte of the keyboard during `install_mouse` is taken for the mouse's
  acknowledgement (`main.cc:285`). Nothing tests the acknowledgement; `BootEnds` shows
  that the boot ends all the same.
- A text within `write_regs` spoils the font plane or a CRT register: the properties
  of `vga` say how far the damage goes.
- Beyond its 128 places the table of PCI devices grows over headers of the heap:
  `DevicesKept` says up to where its devices survive.

### Bounds, and why they are enough

- **heap**: 30 addresses, headers of 2 and padding of 1, sizes 0, 1, 2 and 4, the
  heap's end at 21 so that the chain reaches it and goes on. Half a dozen blocks of
  different sizes fit: reuse with slack, the walk's end on either condition and the
  message all happen. `Modulus` is 1: `memory_used` takes part in no decision.
- **boot**: a bus of 2 x 2 x 4 functions with none, some or all of 16 devices, or some
  scattered, and a table of 3 places: the scan passes its end, the next table and the
  next header. The heap begins at 143 and memory ends at 284, so that everything fits
  and an address taken for a size leads beyond it. Images of up to 6 pixels in rows of 2
  and 3, packets of 1 and 4, files of at most 36 offsets; a picture of 2 x 2 drawn at
  (1, 1) with two ticks, enough for one to hit a load and another a row's end.
- **interrupts**: a line of each kind - keyboard, the master's spurious line 7, the
  mouse behind the slave - beside the clock; exceptions that return (3), that return
  to the faulting instruction (13) and that halt (6); one exception; four frames,
  more than the invariants allow to be used.
- **keyboard**: three keys and two packets, all three sources of bytes at once, a
  packet following another, several calls of `keyb_read`. `MaxKeys` 12 is more than
  the bytes there can be.
- **disk**: registers of four values instead of 256 and a nibble of two instead of 16, so
  128 sectors; reads of two sectors at ext2's 2 and at 127, where the second carries
  through every register beyond the last that can be addressed. A text memory of four rows of three,
  of which two are saved; words that reach over the end of every row, moves that are
  clipped at each edge; two characters printed by the kernel or keyb at any moment, each
  of which may scroll; an identification of four words.
- **polled**: seven times, a new year among them, the mornings and evenings of a 12-hour
  clock, and a change in each field; at least 21 registers are read between two updates,
  enough for three passes (a real clock: thousands; fewer would let an update follow so
  fast that no two passes agree). Two sounds, one longer than a `uint16_t` counts; a
  buffer in an even page of 64K, one in an odd and one across a multiple of 128K; three
  kinds of card, three interrupts; EEPROMs whose bytes all differ, both kinds of BAR.
- **terminal**, the position: 4 columns and 3 rows (the source: 80 and 50); lines of 1, 4 and 6
  characters end within a row, fill it, or run over two; the pointer at the first
  place and the end of a row. A routine can come at each of the 20 places of
  `terminal_putchar`, in every row and column.
- **terminal**, `printf`; **printf_width**, **printf_len**: ints of 8 bits (`Half` =
  128; the source: 2^31) with both ends; calls of up to 4 items, so that a short number
  follows a long one with and without a width; widths below and above the lengths of the
  numbers. Widths of ten characters or more, which would run over `width_str`, are not
  passed.
- **vga**: two texts, so that two registers of one mode, or both halves of
  `write_regs`, are hit; two values for the position.

Deadlock is checked in `heap`, `heap_oom` and `interrupts`. It is not where the system may
stop: the user presses no key any more, a drive does not answer, a call or a
sequence is over (`boot`, `keyboard`, `disk`, `polled`, `rtc_twelve`, `terminal`, `vga`,
`printf_width`, `printf_len`).

### Fairness

- `Heap`, `KeybRead`: weak fairness of the code's own steps - the CPU runs. Nobody has
  to call `malloc`, press a key or free a block.
- `Interrupts`: weak fairness of the running handler and of delivery (the CPU takes
  an interrupt that stays deliverable), strong fairness of `kernel_main`, which is
  interrupted over and over and still gets its turn because a routine is far shorter
  than the period of a device, and weak fairness of the clock, which is a crystal.
  None for the other devices and for exceptions.
- `Keyboard`: the kernel, the controller, and the caller inside `keyb_read`; not the
  user, and nobody has to call.
- `Disk`: the driver, and a drive that completes what it was told; a bad drive may
  complete with an error every time; and the kernel's character being printed, once it is
  begun, since the driver waits for it. Nobody has to move the mouse or to print.
- `Polled`: the CPU, the end of an update, a card that gets ready, and an EEPROM that
  answers. That updates
  begin is not assumed: that would only help the properties that are about the loop.
- `Boot`, `Terminal` and `Vga` have safety properties only.

## 4. Proofs

All theorems hold for every value of the constants their `ASSUME` allows; TLC
evaluates the assumptions in the runs. Each inductive invariant was given to TLC
before it was proved.

**`HeapProofs`** - for all sizes of heap, header, padding and memory and every set of
request sizes (`HeapAssumption`: positive sizes, and room for what `mm_init` allocates).
`HeapInvariant`: `IInv` is the types; `Chain`, the headers tile the heap from its
beginning to `last_alloc`; `Walk`, the cursor of `malloc` is on a header or at the end
and nothing behind it would have fitted; `Held`, the status bytes say exactly which
blocks callers hold, and a block is at least as large as what was asked for;
`Inside`, without the message every block ends below `heap_end`. From it
`BlocksNeverOverlap`, `SilentHeapStaysInside`, `MallocIsFirstFit`, and
`HeapImplementsArena`: initial states map to an empty arena, and every step hands out
one interval, gives back one, or stutters. `NoOverlap` alone is not inductive: that two
blocks do not overlap follows only from the tiling, which survives a step only if
the walk stops at headers and nowhere else.

**`InterruptsProofs`** - for every set of lines and exceptions, any number of
exceptions and any depth of the stack. `InterruptsIInv` says how far the tables and the
8259s are set up at each place of the boot (`SetUp`); that there is at most one
routine on the stack, and below every frame that returns to enabled interrupts there
are exceptions only (`Stack`); that the in-service sets are those of the routine, less
what it has acknowledged (`InService`); and what the clock's index register holds while
somebody is between the two accesses (`ClockKept`). `GateForEveryVector`, `OneAtATime`,
`ClockGoesOn` and the action property `EoiIsOwn` follow. The invariant over the stack is
needed because "routines do not nest" is decided when an interrupt arrives but broken,
if it were, by a return much earlier.

**`KeyboardProofs`** - first the handshake, for any number of keys and calls: `KeybInvariant` (which
flag is up at which statement, and what `keyb_out` holds there), and from it `AlwaysLast`. The
point is the order of lines 53 and 54: a key after `keyb_reading = false` leaves everything
alone, one before it only replaces the answer. Then the controller, for any number of keys
and packets. `KeyboardIInv` says what has been
written and answered at each place of `install_mouse` (`Booting`), which routine or poll the
byte in the output buffer is for (`Serving`), that keys reach the callers in the order
they were typed (`KeysInOrder`) and the bytes of a packet follow one another
(`PacketsInOrder`). `PacketsAreWhole` and `TypedKeysArrive` follow. Every step of the
composition is a step of `KeybRead` or leaves its variables alone, so its invariant holds
here too: `LastKeyThroughController`.

**`TextProofs`** - the terminal, for a screen of any size, lines of any length and a pointer
anywhere. `TtyIInv` says what the kernel's `terminal_putchar` needs of the position it finds when
it goes on (`KernelGoesOn`), that a routine's line ends with its newline, which takes the column
back to 0 (`LineEnds`) or with `mouse_print` putting the position back (`Positions`), what the
registers of an interrupted increment can hold (`Registers`), and what an undisturbed
`update_cursor` has done so far (`CursorSoFar`). `ColumnStaysOnScreen` and `CursorIsBehind`
follow. The column is not below its bound at every moment, and it is the newline that brings it
back: without `LineEnds` the property is not inductive. `Near` bounds the row at each place of
both contexts (`KernelTop`, `RoutineTop`): each character takes a row away that is below the
screen, only the `'\n'` adds one, and down there the column is still near the beginning of its row
(`Shape`), so that no character wraps. `RowStaysNear` follows, for three columns or more and lines
of at most two rows (`NearAssumption`; the text `keyb` prints with `%s` is whatever the low memory
holds). On a screen of two columns it is false: there a character below the screen can wrap.

Then `printf`, for ints of any width, any widths after `%0` and a call of any length. First what
`itoa` leaves in the buffer: its digits denote the number (`DigitsDenote`), the first is no zero
(`FirstDigit`), a larger number or a smaller base has no fewer (`NoMoreDigits`), and a field
filled with zeros in front denotes the same (`ReadAsFilled`). `PrintfIInv` adds to `PlainCall`
that the arguments not taken yet are arguments, that there are none while no width was read, and
that `size` is then one of the widths. `PlainCallPrints` and the action property `OwnNumberFirst`
follow; for the latter the text is cut behind sign and field (`SignAndField`), and what is cut off
is empty unless a longer number came before. `BufEnds`, a part of `PlainCall`, is what makes it
inductive: `strlen` stops behind a number only because nothing but zeros comes after the longest
one so far. `PrintfAssumption`: `buf` is longer than the largest int's digits and than every width
(the source: 512 against 10; a width of 512 would run over it). `TerminalRuns`: a behaviour of
`Terminal` is one of `Tty` and one of `Printf`, so all these theorems hold for what the run
checks.

**`DiskProofs`** - for registers and a nibble of any width, any number of sectors and any first
sectors, any screen, movement and text. `DriverIInv` carries the registers from the command to the
transfer, `OnePointer` is inductive by itself, `NameIInv` adds that a good drive's words are all
in the low memory before `ata_is_sus` copies them. `TransfersWhenReady`, `RightSector`,
`PointerInOnePlace`, `NameSurvivesMouse`. The arithmetic of cutting a sector number into four
registers and putting it together again is a lemma (`AddressOfRegisters`): what arrives is the
number modulo `Addressable`. `OnePointer` survives a scroll because a cell that has been copied
has one scroll more behind it than one that has not (`Risen`), and a row more above the place it
may have come from (`TrailRises`); that mouse may come in the middle is why its `scrolled` begins
at 1 there. What stays of the pointer's end behind the saved rows is a trail of its own
(`TrailBehindSaved`). That the name survives rests on one fact: `reprint_buf` comes before
`save_buf`, so that the rows saved are the ones just put back and the low memory stays as it was.

**`PolledProofs`** - `RtcIInv` counts what has been read since the last update against what a pass
reads (`Steps`): a pass is of one time or an update fell into it (`ThisPass`), and of two passes
in a row at least one was left alone (`LastPass`), so that two which agree are of one time:
`ClockReadAsOneTime`. The argument needs 15 reads between two updates (`RtcAssumption`): were an
update to fall into every pass, two could be disturbed alike. `DateConverted` adds the arithmetic
of BCD, of the afternoon's bit and of the two-digit year, for every date of a hundred years.
`SoundIInv` says what of the channel has been written after each of the nine steps of `transfer`,
whichever half of a register the flip-flop was left at; from it `ChannelGivesOut`, for any buffer
at an even address below 16 megabytes (`Sb16Assumption`) and any modules: where each of the 26
words is (`Placed`) is arithmetic of the page, the offset and the multiple of 128K between them.
`MacIInv` ties the word asked for to the word stored; from it `OwnAddress`, for every EEPROM
(`E1000Assumption`).

**`BootProofs`** - for a bus and tables of any size, any set of functions on it, images of any
width and height in the four types, stored from either end, packets of any length, and any number
of ticks. `BootIInv` has the layout of the heap as its backbone: the blocks of `mm_init`, of the
two tables and of each device found are one behind the other (`Dev(k)`, `Ptr(k)`), and `Headers`
and `Entries` say which of their words still hold what `malloc` and the scan put there when the
table has grown to d places. It has to go on beyond the table's end. The first place there is
padding; the second is the status of the block of `pci_drivers` and now holds an address, whose
low byte may be 0, so that `malloc` takes that block for a free one; the third is its size, and an
address taken for a size leads beyond the heap's end. From there on each place is a word of a
block nobody reads, until `pci_drivers` and the next header are used up. `DevicesStay` follows
from that, `TableOutlasts` from the part for at most one place beyond. `Decoding` ties `local` to
the number of pixels decoded: their row, and the place `Target` of the last one. `PictureDecoded`
says the places of any two pixels differ (`TargetsDiffer`), that all are inside the block
(`TargetInside`), and that the next place is where the decoder goes (`NextPlace`), also when a
packet ends within a row or just at its end. `LastOverruns` is `PacketWrites`, the lemma on what a
packet changes. That a refused image's block is found again (`RefusedIsFound`) needs the whole
chain.

`malloc`'s walk, the chain, `Found` and a packet's loop are recursive functions. What they compute
is proved by taking the least number for which it fails (`Least`); first the function has to be
shown to exist (`WalkExists`, `ChainExists`, `FoundExists`, `AfterExists`). The digits of `itoa`
and their value are proved about in the same way (`ProducedExists`, `UptoExists`).

The assumptions: `PciAssumption`, the bus is within the address's fields (8, 5 and 3 bits), and
`pci_drivers` has four words at least (the source: 160); `TgaAssumption`, the types of an image's
header, packets not empty; `BootAssumption`, what `kernel_main` allocates fits below the end of
memory - the full heap is `Heap`'s subject - and amounts to less than lies below the heap. In the
kernel the heap begins behind its image above the first megabyte, and a bus of some dozen
functions and a picture of 100 x 100 make up far less. It is this that sends a walk that takes an
address for a size out of the heap: were the heap to begin near 0, the walk could come down
inside.

The drawing is proved for `DrawSpec` first, for an image of any size drawn anywhere:
`DrawInvariant` (each drawn pixel is on the screen, at a place the loop has passed) and
`EveryPixelStays`. "Passed" is what keeps a later pixel from being drawn over an earlier.
`BootDraws`: every behaviour of the boot is one of `DrawSpec`; hence `DrawnAtBoot`.

**`VgaProofs`** - for any number of texts and any positions of the cursor. `IInv` says at each
place of each call where text and glyphs would go (`Planes`: `TextSafe` of the registers in force
and of those `write_font` has saved), and counts for the registers that matter - 4, 9 and 17 of
the CRT controller, the last of them the lock - which are lost or will be, because a text has left
the index elsewhere: never more than the texts printed since the call began (`Registers`). A lost
unlocking counts as register 4's, which stands for those behind the lock. Modes give registers 4
and 5 different values; where texts can come in, the lock is open already. `ScreenFits`, and the
action properties `TextAndFontsApart` and `RegistersArrive` follow.

`KeybInvariant` and `AlwaysLast` are theorems of `KeybRead`'s own specification; the run checks the
same formulas on the composition, for which `LastKeyThroughController` proves the second. Those
of `Tty` and of `Printf` reach the run's specification through `TerminalRuns`. The others are
theorems of the specification their run checks.

Only model-checked:

- liveness (`MallocReturns`, `GetsPastHlt`, `BytesAreRead`, `BootEnds`, `TypedKeyEndsTheWait`,
  `GoodDriveIsScanned`, `PollingEnds`), which is out of the prover's reach;
- what `atoi` makes of a width: the proofs take its result as it comes.

## 5. What is not modelled, and why

- Contents of the screen, colours, the superblock's other fields, what is logged:
  data nothing else depends on.
- `century` in `read_rtc` is never assigned; the build keeps the byte on the stack
  and copies it, so the comparison of the two copies always holds.
- In `Words`, the three bytes of a header's word beside the status byte; in `Vga`, the
  read-modify-write of CRT index 3 and the locked registers beside 4. No property is
  about them.
- In `Ata`: the uninitialised pointers `dev`, `str` and `priv`, and the branch for an
  unknown drive, which cannot be reached.
- Without a caller, and small enough to tell nothing: `irq_uninstall_handler`, `draw_x`,
  `fillrect`, `kbd_led_handling`, the mouse-button functions, `pci_register_driver`, `xxd`. The
  descriptor rings of the e1000 are declared and never used. `init_sb16` returns in its
  first statement; the sound it would play is `include/bruh.h`, an array.
- The GDT: `init_gdt` is a step of `Interrupts`, but the table it packs is never loaded.
- Ports and memory-mapped registers are single instructions, a step in every model;
  the boot code runs before anything can interfere; images, vendored headers and
  build rules have no behaviour. One thing of the Makefile is relied on: there is no
  `-O`, so every access in the source is one in the program.

## 6. Plan

Done: all parts with state of their own, their compositions where they share memory or a routine,
and proofs of every safety property the passing runs check. What is left: the error path of the
ATA driver, where `ata_read_one` has no result for an `ide_poll` that passes over `ERR`.
