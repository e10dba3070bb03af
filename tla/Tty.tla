-------------------------------- MODULE Tty --------------------------------
(***************************************************************************)
(* The text terminal of src/common/tty.cc, which the kernel and the        *)
(* routines of its interrupts write to without a lock: keyb prints a line, *)
(* mouse puts its words at the pointer with mouse_print.  A routine runs   *)
(* with interrupts off, and can come between any two instructions of the   *)
(* terminal_putchar it interrupts; as in the build, row++ is a load and a  *)
(* store and a condition on ++column loads the column again.               *)
(*                                                                         *)
(* The kernel and the routine execute the same actions, each with its own  *)
(* place and registers.  Characters and colours are left out: a step that  *)
(* writes one is known by the place on the screen.                         *)
(***************************************************************************)
EXTENDS Integers

CONSTANTS
    VGA_WIDTH, VGA_HEIGHT,
    Lines,      \* how many characters the line of a routine may have
    Pointer,    \* where the mouse pointer may be, pairs of a column and a row
    Words       \* how many characters mouse prints

ASSUME TtyAssumption ==
    /\ {VGA_WIDTH, VGA_HEIGHT} \subseteq Nat \ {0, 1}
    /\ Lines \subseteq Nat \ {0} /\ Words \in Nat \ {0}
    /\ Pointer \subseteq (0 .. VGA_WIDTH - 1) \X (0 .. VGA_HEIGHT - 1)

\* The screen has 80 columns, and no routine prints a line of more than two rows:
\* the text that keyb prints, which is in low memory at the scancode (main.cc:65),
\* ends before.
ASSUME NearAssumption ==
    VGA_WIDTH >= 3 /\ \A n \in Lines : n <= 2 * VGA_WIDTH

Context == {"kernel", "routine"}
None == <<>>

VARIABLES
    terminal_row, terminal_column,
    running,    \* who runs: a routine runs until it returns
    at,         \* where each is: "idle" is before its next terminal_putchar
    reg,        \* the register of each
    curr_pos,   \* update_cursor's variable of each
    left,       \* the characters the routine has still to print
    old,        \* mouse_print's old_x and old_y, None in a routine that prints a line
    index,      \* which register of the CRT controller is selected
    cursor,     \* its registers 14 and 15: the position each was taken from
    undisturbed, \* history: no interrupt since the kernel's last character began
    blank       \* history: the kernel's last character was a '\n'

position == <<terminal_row, terminal_column>>
routine == <<running, left, old>>
crtc == <<index, cursor>>
history == <<undisturbed, blank>>
vars == <<position, routine, at, reg, curr_pos, crtc, history>>

Init ==
    /\ terminal_row = 0 /\ terminal_column = 0
    /\ running = "kernel" /\ left = 0 /\ old = None
    /\ at = [c \in Context |-> "idle"]
    /\ reg = [c \in Context |-> 0]
    /\ curr_pos = [c \in Context |-> 0]
    /\ index = 14 /\ cursor = [r \in {14, 15} |-> 0]
    /\ undisturbed = TRUE /\ blank = FALSE

(***************************************************************************)
(* The instructions of terminal_putchar.                                   *)
(***************************************************************************)
At(c, place) == running = c /\ at[c] = place
Goto(c, place) == at' = [at EXCEPT ![c] = place]

LoadRow(c, place, next) ==
    /\ At(c, place)
    /\ reg' = [reg EXCEPT ![c] = terminal_row]
    /\ Goto(c, next)
    /\ UNCHANGED <<position, routine, curr_pos, crtc, history>>

StoreRow(c, place, value, next) ==
    /\ At(c, place)
    /\ terminal_row' = value
    /\ Goto(c, next)
    /\ UNCHANGED <<terminal_column, routine, reg, curr_pos, crtc, history>>

StoreColumn(c, place, value, next) ==
    /\ At(c, place)
    /\ terminal_column' = value
    /\ Goto(c, next)
    /\ UNCHANGED <<terminal_row, routine, reg, curr_pos, crtc, history>>

\* terminal_row++ of a '\n'.
NewRow(c) ==
    \/ LoadRow(c, "newline", "newline_store")
    \/ StoreRow(c, "newline_store", reg[c] + 1, "cursor")

\* Mutant: it never scrolls.
Scroll_Never(c) ==
    /\ At(c, "scroll")
    /\ Goto(c, "put")
    /\ UNCHANGED <<position, routine, reg, curr_pos, crtc, history>>
\* scroll: the test, then the copy, which moves no position, and terminal_row--.
Scroll(c) ==
    /\ At(c, "scroll")
    /\ Goto(c, IF terminal_row < VGA_HEIGHT THEN "put" ELSE "up")
    /\ UNCHANGED <<position, routine, reg, curr_pos, crtc, history>>

RowUp(c) ==
    \/ LoadRow(c, "up", "up_store")
    \/ StoreRow(c, "up_store", reg[c] - 1, "put")

Put(c) ==
    /\ At(c, "put")
    /\ Goto(c, "column")
    /\ UNCHANGED <<position, routine, reg, curr_pos, crtc, history>>

\* ++terminal_column.
NextColumn(c) ==
    \/ /\ At(c, "column")
       /\ reg' = [reg EXCEPT ![c] = terminal_column]
       /\ Goto(c, "column_store")
       /\ UNCHANGED <<position, routine, curr_pos, crtc, history>>
    \/ StoreColumn(c, "column_store", reg[c] + 1, "column_test")

ColumnTest(c) ==
    /\ At(c, "column_test")
    /\ Goto(c, IF terminal_column = VGA_WIDTH THEN "wrap" ELSE "cursor")
    /\ UNCHANGED <<position, routine, reg, curr_pos, crtc, history>>

\* A row that is full: the last one is followed by the first.
Wrap(c) ==
    \/ StoreColumn(c, "wrap", 0, "wrap_row")
    \/ LoadRow(c, "wrap_row", "wrap_store")
    \/ StoreRow(c, "wrap_store", reg[c] + 1, "wrap_test")
    \/ /\ At(c, "wrap_test")
       /\ Goto(c, IF terminal_row = VGA_HEIGHT THEN "wrap_top" ELSE "cursor")
       /\ UNCHANGED <<position, routine, reg, curr_pos, crtc, history>>
    \/ StoreRow(c, "wrap_top", 0, "cursor")

(***************************************************************************)
(* update_cursor: two times an index and a byte of the position.           *)
(***************************************************************************)
Position == terminal_row * VGA_WIDTH + terminal_column

TakePosition(c) ==
    /\ At(c, "cursor")
    /\ curr_pos' = [curr_pos EXCEPT ![c] = Position]
    /\ Goto(c, "index_14")
    /\ UNCHANGED <<position, routine, reg, crtc, history>>

Select(c, place, r, next) ==
    /\ At(c, place)
    /\ index' = r
    /\ Goto(c, next)
    /\ UNCHANGED <<position, routine, reg, curr_pos, cursor, history>>

Data(c, place, next) ==
    /\ At(c, place)
    /\ cursor' = [cursor EXCEPT ![index] = curr_pos[c]]
    /\ Goto(c, next)
    /\ UNCHANGED <<position, routine, reg, curr_pos, index, history>>

\* Mutant: the second index is not written.
UpdateCursor_OneIndex(c) ==
    \/ TakePosition(c)
    \/ Select(c, "index_14", 14, "data_14")
    \/ Data(c, "data_14", "data_15")
    \/ Data(c, "data_15", "idle")
UpdateCursor(c) ==
    \/ TakePosition(c)
    \/ Select(c, "index_14", 14, "data_14")
    \/ Data(c, "data_14", "index_15")
    \/ Select(c, "index_15", 15, "data_15")
    \/ Data(c, "data_15", "idle")

Putchar(c) ==
    \/ NewRow(c)
    \/ Scroll(c) \/ RowUp(c) \/ Put(c)
    \/ NextColumn(c) \/ ColumnTest(c) \/ Wrap(c)
    \/ UpdateCursor(c)

(***************************************************************************)
(* What the kernel prints.  Its lines are not empty: it never prints two   *)
(* '\n' in a row.                                                          *)
(***************************************************************************)
KernelChar ==
    /\ At("kernel", "idle")
    /\ Goto("kernel", "scroll")
    /\ undisturbed' = TRUE /\ blank' = FALSE
    /\ UNCHANGED <<position, routine, reg, curr_pos, crtc>>

KernelNewline ==
    /\ At("kernel", "idle") /\ ~blank
    /\ terminal_column' = 0
    /\ Goto("kernel", "newline")
    /\ undisturbed' = TRUE /\ blank' = TRUE
    /\ UNCHANGED <<terminal_row, routine, reg, curr_pos, crtc>>

(***************************************************************************)
(* The routines.                                                           *)
(***************************************************************************)
\* keyb, or fault_handler: a line and its '\n'.
PrintLine ==
    /\ running = "kernel"
    /\ running' = "routine"
    /\ left' \in {n + 1 : n \in Lines}
    /\ undisturbed' = FALSE
    /\ UNCHANGED <<position, old, at, reg, curr_pos, crtc, blank>>

\* mouse_print: from the pointer on.
MousePrint ==
    /\ running = "kernel"
    /\ running' = "routine"
    /\ left' = Words
    /\ old' = position
    /\ \E p \in Pointer : terminal_column' = p[1] /\ terminal_row' = p[2]
    /\ undisturbed' = FALSE
    /\ UNCHANGED <<at, reg, curr_pos, crtc, blank>>

RoutineChar ==
    /\ At("routine", "idle")
    /\ IF old = None THEN left > 1 ELSE left > 0
    /\ left' = left - 1
    /\ Goto("routine", "scroll")
    /\ UNCHANGED <<position, running, old, reg, curr_pos, crtc, history>>

\* Mutant: the line is printed without its '\n'.
RoutineNewline_Forgotten ==
    /\ At("routine", "idle") /\ old = None /\ left = 1
    /\ left' = 0
    /\ UNCHANGED <<position, at, running, old, reg, curr_pos, crtc, history>>
RoutineNewline ==
    /\ At("routine", "idle") /\ old = None /\ left = 1
    /\ left' = 0
    /\ terminal_column' = 0
    /\ Goto("routine", "newline")
    /\ UNCHANGED <<terminal_row, running, old, reg, curr_pos, crtc, history>>

\* mouse_print puts terminal_row and terminal_column back.  The routine's
\* registers are its own no more.
Return ==
    /\ At("routine", "idle") /\ left = 0
    /\ running' = "kernel"
    /\ old' = None
    /\ IF old = None THEN UNCHANGED position
       ELSE terminal_row' = old[1] /\ terminal_column' = old[2]
    /\ reg' = [reg EXCEPT !["routine"] = 0] /\ curr_pos' = [curr_pos EXCEPT !["routine"] = 0]
    /\ UNCHANGED <<at, left, crtc, history>>

Next ==
    \/ \E c \in Context : Putchar(c)
    \/ KernelChar \/ KernelNewline
    \/ PrintLine \/ MousePrint
    \/ RoutineChar \/ RoutineNewline \/ Return

Spec == Init /\ [][Next]_vars

(***************************************************************************)
(* Types.                                                                  *)
(***************************************************************************)
Place == {"idle", "newline", "newline_store", "scroll", "up", "up_store", "put", "column",
          "column_store", "column_test", "wrap", "wrap_row", "wrap_store", "wrap_test", "wrap_top",
          "cursor", "index_14", "data_14", "index_15", "data_15"}

TypeOK ==
    /\ terminal_row \in Nat /\ terminal_column \in Nat
    /\ running \in Context
    /\ at \in [Context -> Place]
    /\ reg \in [Context -> Nat] /\ curr_pos \in [Context -> Nat]
    /\ left \in Nat /\ old \in {None} \union (Nat \X Nat)
    /\ index \in {14, 15} /\ cursor \in [{14, 15} -> Nat]
    /\ undisturbed \in BOOLEAN /\ blank \in BOOLEAN

(***************************************************************************)
(* Safety.                                                                 *)
(***************************************************************************)
\* Between two characters of the kernel the column is one of the row, also
\* when a routine printed over the end of a row while the kernel was between
\* ++terminal_column and its test: the '\n' that ends the routine's line takes
\* the column back (tty.cc:92-105, main.cc:61-65).
ColumnOnScreen == TypeOK /\ (At("kernel", "idle") => terminal_column < VGA_WIDTH)

\* No character is written further down than the second row below the screen,
\* where the text memory goes on and from where scroll brings it back, however
\* the row was counted up and down by interrupted increments (tty.cc:13-24,92-105).
NearTheScreen ==
    /\ terminal_row <= VGA_HEIGHT + 2
    /\ \A c \in Context : At(c, "put") => Position < (VGA_HEIGHT + 2) * VGA_WIDTH

\* A character that no interrupt came into leaves the cursor behind itself,
\* both bytes from one position, whatever interrupted update_cursor before it
\* left in the index register and in the cursor's (tty.cc:106-117).
CursorFollows ==
    At("kernel", "idle") /\ undisturbed => cursor = [r \in {14, 15} |-> Position]
=============================================================================
