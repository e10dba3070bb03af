------------------------------ MODULE Pointer ------------------------------
(***************************************************************************)
(* The mouse pointer on the text screen: the third byte of a packet makes  *)
(* mouse (src/kernel/main.cc) move it, put the upper rows back with        *)
(* reprint_buf, save them with save_buf (src/common/tty.cc) and print its  *)
(* words over them.  term_buf is never given a value: the rows are saved   *)
(* to and put back from address 0, where the ATA driver's ide_buf lies too.*)
(*                                                                         *)
(* A cell of the screen, or of the low memory it is copied to and from, is *)
(* known by who wrote it.  mouse and keyb run with interrupts off, so each *)
(* in one step; the kernel's terminal_putchar does not, and either can     *)
(* come between any two cells that its scroll copies.                      *)
(***************************************************************************)
EXTENDS Integers

CONSTANTS
    Cols,       \* VGA_WIDTH, 80
    SavedRows,  \* the rows save_buf copies: 80*50 bytes are 25
    LowestRow,  \* how far down terminal_row gets: below the screen's 50 (Tty's NearTheScreen)
    WordsLen,   \* the characters of "THIS IS MOUSE"
    Moves,      \* what a packet may move by: pairs of a column and a row
    Prints      \* bound on the characters that are printed

ASSUME PointerAssumption ==
    /\ {Cols, SavedRows, LowestRow, WordsLen} \subseteq Nat \ {0}
    /\ SavedRows < LowestRow /\ WordsLen < Cols
    /\ Moves \subseteq Int \X Int /\ Prints \in Nat

VARIABLES
    screen,     \* terminal_buffer: who wrote each cell
    low,        \* the memory at address 0: who wrote each word
    mouse_x, mouse_y,
    shown,      \* history: where mouse printed last, -1 before
    putchar,    \* where the kernel's terminal_putchar is: "idle", "scroll" or "put"
    size,       \* scroll's size, in cells
    next,       \* the cell its memcpy writes next
    scrolled,   \* history: the scrolls since mouse printed, and the one it came into
    printed     \* how many characters have been printed

textVars == <<putchar, size, next, printed>>
pointerVars == <<screen, low, mouse_x, mouse_y, shown, scrolled, textVars>>

Saved == 0 .. Cols * SavedRows - 1
\* The text memory, the screen and what is below it.
Screen == 0 .. Cols * LowestRow + Cols - 1

Clamp(n, end) == IF n < 0 THEN 0 ELSE IF n > end THEN end ELSE n

\* The cells a text of n characters takes from cell c on; a full row is followed by the next.
CellsFrom(c, n) == c .. c + n - 1

\* The saved rows, from src to dst.
memcpy(dst, src) == [c \in DOMAIN dst |-> IF c \in Saved THEN src[c] ELSE dst[c]]
save_buf(scr, mem) == memcpy(mem, scr)
reprint_buf(scr, mem) == memcpy(scr, mem)

\* Mutant: the rows are saved before they are put back, with the pointer on them.
Refresh_SaveFirst ==
    LET saved == save_buf(screen, low) IN
    /\ low' = saved
    /\ screen' = [c \in Screen |->
                    IF c \in CellsFrom(mouse_y' * Cols + mouse_x', WordsLen) THEN "mouse" ELSE reprint_buf(screen, saved)[c]]
\* reprint_buf(); save_buf(); mouse_print(mouse_x, mouse_y, ...)
Refresh ==
    LET back == reprint_buf(screen, low) IN
    /\ low' = save_buf(back, low)
    /\ screen' = [c \in Screen |->
                    IF c \in CellsFrom(mouse_y' * Cols + mouse_x', WordsLen) THEN "mouse" ELSE back[c]]

\* case 2 of mouse.
MoveMouse ==
    \E d \in Moves :
        /\ mouse_x' = Clamp(mouse_x + d[1], Cols - 1)
        /\ mouse_y' = Clamp(mouse_y - d[2], SavedRows - 1)
        /\ shown' = mouse_y' * Cols + mouse_x'
        /\ Refresh
        /\ scrolled' = IF putchar = "scroll" THEN 1 ELSE 0
        /\ UNCHANGED textVars

(***************************************************************************)
(* terminal_putchar.  What it prints, and in which of its rows, is left    *)
(* open: Tty is about that.                                                *)
(***************************************************************************)
\* The rows a scroll may move: terminal_row when it computed size, which is far
\* below the saved rows also if a routine's line came before its test.
Sizes == {row * Cols : row \in SavedRows + 1 .. LowestRow}

\* Mutant: start is two rows down.
Start_Second(c) == IF c + 2 * Cols \in Screen THEN screen[c + 2 * Cols] ELSE "kernel"
\* What scroll copies to cell c, from start on.
Start(c) == screen[c + Cols]
\* What cell c has after a scroll of n cells: the next row's, or a blank.
Scrolled(n, c) == IF c < n THEN Start(c) ELSE IF c < n + Cols THEN "kernel" ELSE screen[c]

\* The kernel begins a character: its row is on the screen, or scroll has to move it there.
KernelChar ==
    /\ putchar = "idle" /\ printed < Prints
    /\ printed' = printed + 1
    /\ \/ putchar' = "put" /\ UNCHANGED <<size, scrolled>>
       \/ putchar' = "scroll" /\ size' \in Sizes /\ scrolled' = scrolled + 1
    /\ UNCHANGED <<screen, low, mouse_x, mouse_y, shown, next>>

\* One cell of scroll's memcpy.
ScrollCell ==
    /\ putchar = "scroll" /\ next < size
    /\ screen' = [screen EXCEPT ![next] = Start(next)]
    /\ next' = next + 1
    /\ UNCHANGED <<low, mouse_x, mouse_y, shown, putchar, size, scrolled, printed>>

\* The row behind is blanked.
ScrollBlank ==
    /\ putchar = "scroll" /\ next = size
    /\ screen' = [c \in Screen |-> IF c \in size .. size + Cols - 1 THEN "kernel" ELSE screen[c]]
    /\ putchar' = "put" /\ size' = 0 /\ next' = 0
    /\ UNCHANGED <<low, mouse_x, mouse_y, shown, scrolled, printed>>

KernelPut ==
    /\ putchar = "put"
    /\ \E c \in Screen : screen' = [screen EXCEPT ![c] = "kernel"]
    /\ putchar' = "idle"
    /\ UNCHANGED <<low, mouse_x, mouse_y, shown, size, next, scrolled, printed>>

\* A character of keyb, which may scroll in the middle of the kernel's scroll.
KeybPrints ==
    /\ printed < Prints
    /\ printed' = printed + 1
    /\ \E place \in Screen :
          \/ /\ screen' = [screen EXCEPT ![place] = "kernel"]
             /\ UNCHANGED scrolled
          \/ /\ \E n \in Sizes : screen' = [c \in Screen |-> IF c = place THEN "kernel" ELSE Scrolled(n, c)]
             /\ scrolled' = scrolled + 1
    /\ UNCHANGED <<low, mouse_x, mouse_y, shown, putchar, size, next>>

Printing == ScrollCell \/ ScrollBlank \/ KernelPut

PointerInit ==
    /\ screen = [c \in Screen |-> "kernel"]
    /\ low = [c \in Saved |-> "bios"]
    /\ mouse_x = 0 /\ mouse_y = 0
    /\ shown = -1 /\ scrolled = 0 /\ printed = 0
    /\ putchar = "idle" /\ size = 0 /\ next = 0

PointerNext == MoveMouse \/ KernelChar \/ Printing \/ KeybPrints

(***************************************************************************)
(* Properties.                                                             *)
(***************************************************************************)
PointerTypeOK ==
    /\ screen \in [Screen -> {"kernel", "bios", "drive", "mouse"}]
    /\ low \in [Saved -> {"bios", "drive"}]
    /\ mouse_x \in 0 .. Cols - 1 /\ mouse_y \in 0 .. SavedRows - 1
    /\ shown \in Saved \union {-1} /\ printed \in 0 .. Prints
    /\ putchar \in {"idle", "scroll", "put"}
    /\ IF putchar = "scroll" THEN size \in Sizes /\ next \in 0 .. size ELSE size = 0 /\ next = 0
    /\ scrolled \in Nat

\* How often what is in cell c may have been moved up since mouse printed: scroll
\* counts when it begins, and has not moved yet what is before it.
Risen(c) == 0 .. scrolled - (IF putchar = "scroll" /\ c >= next THEN 1 ELSE 0)

\* Since the rows are put back before they are saved, nothing of the screen ever
\* reaches the low memory (PointerTypeOK): no movement changes the BIOS's data or
\* the drive's identification in ide_buf, and no text of the kernel comes back.
\* The pointer is in one place: wherever it has been, its words are only where
\* mouse printed last, or as many rows higher as scroll has moved them since, at
\* most one for each scroll that began since and the one that mouse came into.
\* The exception is the first row that is not saved, where the end of words
\* printed over the end of the last saved row stays, and rises with it
\* (main.cc:157-178, tty.cc:13-24,42-57,98, ata.cc:24,68).
OnePointer ==
    /\ PointerTypeOK
    /\ \A c \in Screen : screen[c] = "mouse" =>
          \E k \in Risen(c) :
             \/ c + k * Cols \in CellsFrom(shown, WordsLen)
             \/ c + k * Cols \in CellsFrom(Cols * SavedRows, WordsLen - 1)
=============================================================================
