----------------------------- MODULE TextProofs -----------------------------
(***************************************************************************)
(* Proofs about Tty and Printf.                                            *)
(*                                                                         *)
(* The terminal: for a screen of any size, lines of any length and a       *)
(* pointer anywhere, the column is one of the row again between two        *)
(* characters of the kernel, and a character nothing came into leaves the  *)
(* cursor behind itself.                                                   *)
(*                                                                         *)
(* printf: for ints of any width and calls of any length, without a width  *)
(* each item prints its argument, the buffer is long enough and ends where *)
(* the longest number did, and with one what a number prints begins with   *)
(* its argument in the field.                                              *)
(* What the digits of itoa denote is by induction over the number: the     *)
(* least number it fails for has a quotient it holds for.                  *)
(***************************************************************************)
EXTENDS Terminal, WellFoundedInduction, TLAPS

(***************************************************************************)
(* The terminal: the inductive invariant.                                  *)
(***************************************************************************)
\* What the kernel's terminal_putchar needs of the position it finds when it
\* goes on: at its test, and after it, the column may be the one behind the
\* row; when it scrolls there is a row to take away.
KernelGoesOn(row, column) ==
    /\ column <= VGA_WIDTH
    /\ at["kernel"] \notin {"column_test", "wrap"} => column < VGA_WIDTH
    /\ at["kernel"] = "up" => row >= 1

UpdatePlace == {"cursor", "index_14", "data_14", "index_15", "data_15"}

\* A line that has begun ends with a '\n', which takes the column back.
LineEnds ==
    running = "routine" /\ old = None /\ left = 0 =>
        /\ at["routine"] \in {"newline", "newline_store", "idle"} \union UpdatePlace
        /\ terminal_column = 0
        /\ at["routine"] \notin {"newline", "newline_store"} => terminal_row >= 1

Registers ==
    /\ \A c \in Context : at[c] = "up_store" => reg[c] >= 1
    /\ at["kernel"] = "column_store" => reg["kernel"] < VGA_WIDTH

Positions ==
    /\ running = "kernel" => KernelGoesOn(terminal_row, terminal_column) /\ at["routine"] = "idle" /\ old = None
    /\ running = "routine" /\ old # None => KernelGoesOn(old[1], old[2])
    /\ running = "routine" /\ at["routine"] = "up" => terminal_row >= 1

\* What an undisturbed update_cursor has done.
CursorSoFar ==
    undisturbed =>
        /\ running = "kernel"
        /\ at["kernel"] \in UpdatePlace \ {"cursor"} => curr_pos["kernel"] = Position
        /\ at["kernel"] = "data_14" => index = 14
        /\ at["kernel"] \in {"index_15", "data_15", "idle"} => cursor[14] = Position
        /\ at["kernel"] = "data_15" => index = 15
        /\ at["kernel"] = "idle" => cursor[15] = Position

TtyIInv == TypeOK /\ LineEnds /\ Registers /\ Positions /\ CursorSoFar

LEMMA NoneIsNoPair == \A r, c : <<r, c>> # None /\ <<r, c>>[1] = r /\ <<r, c>>[2] = c
  BY DEF None

LEMMA PositionIsNat == TypeOK => Position \in Nat
<1>1. ASSUME NEW r \in Nat, NEW c \in Nat PROVE r * VGA_WIDTH + c \in Nat
  BY TtyAssumption
<1> QED
  BY <1>1 DEF TypeOK, Position

LEMMA PositionStays == UNCHANGED position => Position' = Position
  BY DEF position, Position

LEMMA InitIInv == Init => TtyIInv
<1> SUFFICES ASSUME Init PROVE TtyIInv
  OBVIOUS
<1> USE DEF Init, Context
<1>1. TypeOK
  BY DEF TypeOK, Place, None
<1>2. LineEnds /\ Registers
  BY DEF LineEnds, Registers
<1>3. Positions
  BY TtyAssumption DEF Positions, KernelGoesOn
<1>4. Position = 0
  BY TtyAssumption DEF Position
<1>5. CursorSoFar
  BY <1>4 DEF CursorSoFar, UpdatePlace
<1> QED
  BY <1>1, <1>2, <1>3, <1>5 DEF TtyIInv

LEMMA NewRowStep ==
  ASSUME TtyIInv, NEW c \in Context, NewRow(c)
  PROVE  TtyIInv'
<1> USE TtyAssumption, PositionIsNat, PositionStays
    DEF TtyIInv, TypeOK, LineEnds, Registers, Positions, KernelGoesOn, CursorSoFar, UpdatePlace, Context,
        Place, At, Goto, NewRow, LoadRow, StoreRow, position, routine, crtc, history
<1>1. CASE c = "kernel"
  BY <1>1
<1>2. CASE c = "routine"
  BY <1>2
<1> QED
  BY <1>1, <1>2

LEMMA ScrollStep ==
  ASSUME TtyIInv, NEW c \in Context, Scroll(c)
  PROVE  TtyIInv'
<1> USE TtyAssumption, PositionIsNat, PositionStays
    DEF TtyIInv, TypeOK, LineEnds, Registers, Positions, KernelGoesOn, CursorSoFar, UpdatePlace, Context,
        Place, At, Goto, Scroll, position, routine, crtc, history
<1>1. CASE c = "kernel"
  BY <1>1
<1>2. CASE c = "routine"
  BY <1>2
<1> QED
  BY <1>1, <1>2

LEMMA RowUpStep ==
  ASSUME TtyIInv, NEW c \in Context, RowUp(c)
  PROVE  TtyIInv'
<1> USE TtyAssumption, PositionIsNat, PositionStays
    DEF TtyIInv, TypeOK, LineEnds, Registers, Positions, KernelGoesOn, CursorSoFar, UpdatePlace, Context,
        Place, At, Goto, RowUp, LoadRow, StoreRow, position, routine, crtc, history
<1>1. CASE c = "kernel"
  BY <1>1
<1>2. CASE c = "routine"
  BY <1>2
<1> QED
  BY <1>1, <1>2

LEMMA PutStep ==
  ASSUME TtyIInv, NEW c \in Context, Put(c)
  PROVE  TtyIInv'
<1> USE TtyAssumption, PositionIsNat, PositionStays
    DEF TtyIInv, TypeOK, LineEnds, Registers, Positions, KernelGoesOn, CursorSoFar, UpdatePlace, Context,
        Place, At, Goto, Put, position, routine, crtc, history
<1>1. CASE c = "kernel"
  BY <1>1
<1>2. CASE c = "routine"
  BY <1>2
<1> QED
  BY <1>1, <1>2

LEMMA NextColumnStep ==
  ASSUME TtyIInv, NEW c \in Context, NextColumn(c)
  PROVE  TtyIInv'
<1> USE TtyAssumption, PositionIsNat, PositionStays
    DEF TtyIInv, TypeOK, LineEnds, Registers, Positions, KernelGoesOn, CursorSoFar, UpdatePlace, Context,
        Place, At, Goto, NextColumn, StoreColumn, position, routine, crtc, history
<1>1. CASE c = "kernel"
  BY <1>1
<1>2. CASE c = "routine"
  BY <1>2
<1> QED
  BY <1>1, <1>2

LEMMA ColumnTestStep ==
  ASSUME TtyIInv, NEW c \in Context, ColumnTest(c)
  PROVE  TtyIInv'
<1> USE TtyAssumption, PositionIsNat, PositionStays
    DEF TtyIInv, TypeOK, LineEnds, Registers, Positions, KernelGoesOn, CursorSoFar, UpdatePlace, Context,
        Place, At, Goto, ColumnTest, position, routine, crtc, history
<1>1. CASE c = "kernel"
  BY <1>1
<1>2. CASE c = "routine"
  BY <1>2
<1> QED
  BY <1>1, <1>2

LEMMA WrapStep ==
  ASSUME TtyIInv, NEW c \in Context, Wrap(c)
  PROVE  TtyIInv'
<1> USE TtyAssumption, PositionIsNat, PositionStays
    DEF TtyIInv, TypeOK, LineEnds, Registers, Positions, KernelGoesOn, CursorSoFar, UpdatePlace, Context,
        Place, At, Goto, Wrap, LoadRow, StoreRow, StoreColumn, position, routine, crtc, history
<1>1. CASE c = "kernel"
  BY <1>1
<1>2. CASE c = "routine"
  BY <1>2
<1> QED
  BY <1>1, <1>2

LEMMA UpdateCursorStep ==
  ASSUME TtyIInv, NEW c \in Context, UpdateCursor(c)
  PROVE  TtyIInv'
<1> USE TtyAssumption, PositionIsNat, PositionStays
    DEF TtyIInv, TypeOK, LineEnds, Registers, Positions, KernelGoesOn, CursorSoFar, UpdatePlace, Context,
        Place, At, Goto, UpdateCursor, TakePosition, Select, Data, position, routine, crtc, history
<1>1. CASE c = "kernel"
  BY <1>1
<1>2. CASE c = "routine"
  BY <1>2
<1> QED
  BY <1>1, <1>2

LEMMA KernelCharStep ==
  ASSUME TtyIInv, KernelChar
  PROVE  TtyIInv'
  BY TtyAssumption, PositionIsNat, PositionStays, NoneIsNoPair
  DEF TtyIInv, TypeOK, LineEnds, Registers, Positions, KernelGoesOn, CursorSoFar, UpdatePlace, Context,
      Place, At, Goto, KernelChar, position, routine, crtc, history

LEMMA KernelNewlineStep ==
  ASSUME TtyIInv, KernelNewline
  PROVE  TtyIInv'
  BY TtyAssumption, PositionIsNat, PositionStays, NoneIsNoPair
  DEF TtyIInv, TypeOK, LineEnds, Registers, Positions, KernelGoesOn, CursorSoFar, UpdatePlace, Context,
      Place, At, Goto, KernelNewline, position, routine, crtc, history

LEMMA PrintLineStep ==
  ASSUME TtyIInv, PrintLine
  PROVE  TtyIInv'
<1>1. left' \in Nat /\ left' # 0
  BY TtyAssumption DEF PrintLine
<1>2. old' = None /\ running' = "routine" /\ undisturbed' = FALSE
  BY DEF TtyIInv, Positions, PrintLine
<1>3. UNCHANGED <<terminal_row, terminal_column, at, reg, curr_pos, index, cursor, blank>>
  BY DEF PrintLine, position, crtc
<1>4. TypeOK'
  BY <1>1, <1>2, <1>3 DEF TtyIInv, TypeOK, Context
<1>5. LineEnds' /\ Registers'
  BY <1>1, <1>3 DEF TtyIInv, LineEnds, Registers
<1>6. Positions' /\ CursorSoFar'
  BY <1>2, <1>3 DEF TtyIInv, PrintLine, Positions, CursorSoFar
<1> QED
  BY <1>4, <1>5, <1>6 DEF TtyIInv

LEMMA MousePrintStep ==
  ASSUME TtyIInv, MousePrint
  PROVE  TtyIInv'
<1>1. PICK p \in Pointer : terminal_column' = p[1] /\ terminal_row' = p[2]
  BY DEF MousePrint
<1>2. p[1] \in Nat /\ p[2] \in Nat
  BY TtyAssumption
<1>3. left' = Words /\ running' = "routine" /\ undisturbed' = FALSE
  BY DEF MousePrint
<1>4. old' # None /\ old' \in Nat \X Nat /\ old'[1] = terminal_row /\ old'[2] = terminal_column
  BY NoneIsNoPair DEF MousePrint, position, TtyIInv, TypeOK
<1>5. UNCHANGED <<at, reg, curr_pos, index, cursor, blank>>
  BY DEF MousePrint, crtc
<1>6. TypeOK'
  BY <1>1, <1>2, <1>3, <1>4, <1>5, TtyAssumption DEF TtyIInv, TypeOK, Context
<1>7. LineEnds' /\ Registers'
  BY <1>4, <1>5 DEF TtyIInv, LineEnds, Registers
<1>8. KernelGoesOn(terminal_row, terminal_column) /\ at["routine"] = "idle"
  BY DEF TtyIInv, Positions, MousePrint
<1>9. Positions' /\ CursorSoFar'
  BY <1>3, <1>4, <1>5, <1>8 DEF Positions, KernelGoesOn, CursorSoFar
<1> QED
  BY <1>6, <1>7, <1>9 DEF TtyIInv

LEMMA RoutineCharStep ==
  ASSUME TtyIInv, RoutineChar
  PROVE  TtyIInv'
  BY TtyAssumption, PositionIsNat, PositionStays, NoneIsNoPair
  DEF TtyIInv, TypeOK, LineEnds, Registers, Positions, KernelGoesOn, CursorSoFar, UpdatePlace, Context,
      Place, At, Goto, RoutineChar, position, routine, crtc, history

LEMMA RoutineNewlineStep ==
  ASSUME TtyIInv, RoutineNewline
  PROVE  TtyIInv'
  BY TtyAssumption, PositionIsNat, PositionStays, NoneIsNoPair
  DEF TtyIInv, TypeOK, LineEnds, Registers, Positions, KernelGoesOn, CursorSoFar, UpdatePlace, Context,
      Place, At, Goto, RoutineNewline, position, routine, crtc, history

LEMMA ReturnStep ==
  ASSUME TtyIInv, Return
  PROVE  TtyIInv'
  BY TtyAssumption, PositionIsNat, PositionStays, NoneIsNoPair
  DEF TtyIInv, TypeOK, LineEnds, Registers, Positions, KernelGoesOn, CursorSoFar, UpdatePlace, Context,
      Place, At, Goto, Return, position, routine, crtc, history

LEMMA StutterStep ==
  ASSUME TtyIInv, UNCHANGED vars
  PROVE  TtyIInv'
  BY PositionStays
  DEF TtyIInv, TypeOK, LineEnds, Registers, Positions, KernelGoesOn, CursorSoFar, At, vars, position, routine, crtc, history

LEMMA NextIInv == TtyIInv /\ [Next]_vars => TtyIInv'
<1> SUFFICES ASSUME TtyIInv, [Next]_vars PROVE TtyIInv'
  OBVIOUS
<1>1. ASSUME NEW c \in Context, Putchar(c) PROVE TtyIInv'
  BY <1>1, NewRowStep, ScrollStep, RowUpStep, PutStep, NextColumnStep, ColumnTestStep, WrapStep, UpdateCursorStep
  DEF Putchar
<1>2. ASSUME KernelChar \/ KernelNewline PROVE TtyIInv'
  BY <1>2, KernelCharStep, KernelNewlineStep
<1>3. ASSUME PrintLine \/ MousePrint \/ RoutineChar \/ RoutineNewline \/ Return PROVE TtyIInv'
  BY <1>3, PrintLineStep, MousePrintStep, RoutineCharStep, RoutineNewlineStep, ReturnStep
<1>4. CASE UNCHANGED vars
  BY <1>4, StutterStep
<1> QED
  BY <1>1, <1>2, <1>3, <1>4 DEF Next

(***************************************************************************)
(* The row.  A line of a routine leaves it where the interrupted character *)
(* can have it: each character takes a row away that is below the screen,  *)
(* and only the '\n' adds one.                                             *)
(***************************************************************************)
\* Below the screen the column is near the beginning of the row.
Shape(row, column) ==
    /\ row <= VGA_HEIGHT + 2
    /\ row = VGA_HEIGHT + 1 => column <= 1
    /\ row = VGA_HEIGHT + 2 => column = 0

\* How far down the kernel's character can have the row at each of its places.
KernelTop ==
    IF \/ at["kernel"] \in {"wrap", "wrap_row", "wrap_store", "wrap_top"}
       \/ at["kernel"] = "column_store" /\ reg["kernel"] # 0
    THEN VGA_HEIGHT
    ELSE IF \/ at["kernel"] \in {"scroll", "up", "up_store"}
            \/ at["kernel"] \in UpdatePlace \union {"idle"} /\ blank
    THEN VGA_HEIGHT + 2
    ELSE VGA_HEIGHT + 1

KernelNear(row, column) ==
    /\ row <= KernelTop /\ Shape(row, column)
    /\ at["kernel"] \in {"put", "column", "column_store"} /\ row = VGA_HEIGHT + 1 => column = 0
    /\ at["kernel"] \in {"newline", "newline_store", "wrap_row", "wrap_store", "wrap_test", "wrap_top"}
          => column = 0
    /\ at["kernel"] = "up_store" /\ reg["kernel"] = VGA_HEIGHT + 2 => column = 0

KernelRegisters ==
    /\ at["kernel"] \in {"newline", "newline_store"} => blank
    /\ at["kernel"] = "newline_store" => reg["kernel"] <= VGA_HEIGHT + 1
    /\ at["kernel"] = "up_store" => reg["kernel"] <= VGA_HEIGHT + 2
    /\ at["kernel"] = "wrap_store" => reg["kernel"] <= VGA_HEIGHT

RoutineTop == IF old = None THEN KernelTop ELSE VGA_HEIGHT

\* The row of a routine, from the test of its first character to its return.
RoutineRow ==
    LET place == at["routine"]
        row == terminal_row
        column == terminal_column
    IN  /\ row <= RoutineTop /\ Shape(row, column)
        /\ place \in {"newline", "newline_store"} => left = 0 /\ old = None
        /\ place \in {"newline", "newline_store", "put", "column", "column_store", "column_test"}
              => row < RoutineTop
        /\ place \in UpdatePlace /\ (left = 0 => old # None) => row < RoutineTop
        /\ place = "idle" /\ left = 1 /\ old = None => row < RoutineTop
        /\ place \in {"up", "up_store"} => row >= VGA_HEIGHT
        /\ place \in {"put", "column", "column_store"} /\ row >= VGA_HEIGHT => row + column <= VGA_HEIGHT + 1
        /\ place = "column_test" /\ row >= VGA_HEIGHT => row + column <= VGA_HEIGHT + 2
        /\ place \in {"wrap", "wrap_row", "wrap_store"} => row < VGA_HEIGHT
        /\ place = "wrap_test" => row <= VGA_HEIGHT
        /\ place \in {"newline_store", "up_store", "wrap_store"} => reg["routine"] = row
        /\ place = "column_store" => reg["routine"] = column

BeforeColumn == {"scroll", "up", "up_store", "put", "column", "column_store"}

RoutineColumn ==
    /\ old = None =>
          /\ terminal_column + left <= 3 * VGA_WIDTH + 1
          /\ at["routine"] \in BeforeColumn => terminal_column + left <= 3 * VGA_WIDTH /\ left >= 1
    /\ old # None =>
          /\ terminal_column <= VGA_WIDTH
          /\ at["routine"] \notin {"column_test", "wrap"} => terminal_column < VGA_WIDTH

\* The row's part of the inductive invariant.
Near ==
    /\ KernelRegisters
    /\ running = "kernel" => KernelNear(terminal_row, terminal_column)
    /\ running = "routine" /\ old # None => KernelNear(old[1], old[2])
    /\ running = "routine" => RoutineRow /\ RoutineColumn

LEMMA InitNear == Init => Near
<1> SUFFICES ASSUME Init PROVE Near
  OBVIOUS
<1> QED
  BY TtyAssumption DEF Init, Context, Near, KernelRegisters, KernelNear, KernelTop, Shape, UpdatePlace

LEMMA NewRowNear ==
  ASSUME TtyIInv, Near, NEW c \in Context, NewRow(c)
  PROVE  Near'
<1> USE TtyAssumption, NearAssumption
    DEF Near, KernelRegisters, KernelNear, KernelTop, Shape, RoutineTop, RoutineRow, RoutineColumn, BeforeColumn,
        UpdatePlace, TtyIInv, TypeOK, LineEnds, Registers, Positions, KernelGoesOn, Context, Place, At, Goto,
        NewRow, LoadRow, StoreRow, position, routine, crtc, history
<1>1. CASE c = "kernel"
  BY <1>1
<1>2. CASE c = "routine"
  BY <1>2
<1> QED
  BY <1>1, <1>2

LEMMA ScrollNear ==
  ASSUME TtyIInv, Near, NEW c \in Context, Scroll(c)
  PROVE  Near'
<1> USE TtyAssumption, NearAssumption
    DEF Near, KernelRegisters, KernelNear, KernelTop, Shape, RoutineTop, RoutineRow, RoutineColumn, BeforeColumn,
        UpdatePlace, TtyIInv, TypeOK, LineEnds, Registers, Positions, KernelGoesOn, Context, Place, At, Goto,
        Scroll, position, routine, crtc, history
<1>1. CASE c = "kernel"
  BY <1>1
<1>2. CASE c = "routine"
  BY <1>2
<1> QED
  BY <1>1, <1>2

LEMMA RowUpNear ==
  ASSUME TtyIInv, Near, NEW c \in Context, RowUp(c)
  PROVE  Near'
<1> USE TtyAssumption, NearAssumption
    DEF Near, KernelRegisters, KernelNear, KernelTop, Shape, RoutineTop, RoutineRow, RoutineColumn, BeforeColumn,
        UpdatePlace, TtyIInv, TypeOK, LineEnds, Registers, Positions, KernelGoesOn, Context, Place, At, Goto,
        RowUp, LoadRow, StoreRow, position, routine, crtc, history
<1>1. CASE c = "kernel"
  BY <1>1
<1>2. CASE c = "routine"
  BY <1>2
<1> QED
  BY <1>1, <1>2

LEMMA PutNear ==
  ASSUME TtyIInv, Near, NEW c \in Context, Put(c)
  PROVE  Near'
<1> USE TtyAssumption, NearAssumption
    DEF Near, KernelRegisters, KernelNear, KernelTop, Shape, RoutineTop, RoutineRow, RoutineColumn, BeforeColumn,
        UpdatePlace, TtyIInv, TypeOK, LineEnds, Registers, Positions, KernelGoesOn, Context, Place, At, Goto,
        Put, position, routine, crtc, history
<1>1. CASE c = "kernel"
  BY <1>1
<1>2. CASE c = "routine"
  BY <1>2
<1> QED
  BY <1>1, <1>2

LEMMA NextColumnNear ==
  ASSUME TtyIInv, Near, NEW c \in Context, NextColumn(c)
  PROVE  Near'
<1> USE TtyAssumption, NearAssumption
    DEF Near, KernelRegisters, KernelNear, KernelTop, Shape, RoutineTop, RoutineRow, RoutineColumn, BeforeColumn,
        UpdatePlace, TtyIInv, TypeOK, LineEnds, Registers, Positions, KernelGoesOn, Context, Place, At, Goto,
        NextColumn, StoreColumn, position, routine, crtc, history
<1>1. CASE c = "kernel"
  BY <1>1
<1>2. CASE c = "routine"
  BY <1>2
<1> QED
  BY <1>1, <1>2

LEMMA ColumnTestNear ==
  ASSUME TtyIInv, Near, NEW c \in Context, ColumnTest(c)
  PROVE  Near'
<1> USE TtyAssumption, NearAssumption
    DEF Near, KernelRegisters, KernelNear, KernelTop, Shape, RoutineTop, RoutineRow, RoutineColumn, BeforeColumn,
        UpdatePlace, TtyIInv, TypeOK, LineEnds, Registers, Positions, KernelGoesOn, Context, Place, At, Goto,
        ColumnTest, position, routine, crtc, history
<1>1. CASE c = "kernel"
  BY <1>1
<1>2. CASE c = "routine"
  BY <1>2
<1> QED
  BY <1>1, <1>2

LEMMA WrapNear ==
  ASSUME TtyIInv, Near, NEW c \in Context, Wrap(c)
  PROVE  Near'
<1> USE TtyAssumption, NearAssumption
    DEF Near, KernelRegisters, KernelNear, KernelTop, Shape, RoutineTop, RoutineRow, RoutineColumn, BeforeColumn,
        UpdatePlace, TtyIInv, TypeOK, LineEnds, Registers, Positions, KernelGoesOn, Context, Place, At, Goto,
        Wrap, LoadRow, StoreRow, StoreColumn, position, routine, crtc, history
<1>1. CASE c = "kernel"
  BY <1>1
<1>2. CASE c = "routine"
  BY <1>2
<1> QED
  BY <1>1, <1>2

LEMMA UpdateCursorNear ==
  ASSUME TtyIInv, Near, NEW c \in Context, UpdateCursor(c)
  PROVE  Near'
<1> USE TtyAssumption, NearAssumption
    DEF Near, KernelRegisters, KernelNear, KernelTop, Shape, RoutineTop, RoutineRow, RoutineColumn, BeforeColumn,
        UpdatePlace, TtyIInv, TypeOK, LineEnds, Registers, Positions, KernelGoesOn, Context, Place, At, Goto,
        UpdateCursor, TakePosition, Select, Data, position, routine, crtc, history
<1>1. CASE c = "kernel"
  BY <1>1
<1>2. CASE c = "routine"
  BY <1>2
<1> QED
  BY <1>1, <1>2

LEMMA KernelCharNear ==
  ASSUME TtyIInv, Near, KernelChar
  PROVE  Near'
  BY TtyAssumption, NearAssumption, NoneIsNoPair
  DEF Near, KernelRegisters, KernelNear, KernelTop, Shape, RoutineTop, RoutineRow, RoutineColumn, BeforeColumn,
        UpdatePlace, TtyIInv, TypeOK, LineEnds, Registers, Positions, KernelGoesOn, Context, Place, At, Goto,
      KernelChar, position, routine, crtc, history

LEMMA KernelNewlineNear ==
  ASSUME TtyIInv, Near, KernelNewline
  PROVE  Near'
  BY TtyAssumption, NearAssumption, NoneIsNoPair
  DEF Near, KernelRegisters, KernelNear, KernelTop, Shape, RoutineTop, RoutineRow, RoutineColumn, BeforeColumn,
        UpdatePlace, TtyIInv, TypeOK, LineEnds, Registers, Positions, KernelGoesOn, Context, Place, At, Goto,
      KernelNewline, position, routine, crtc, history

LEMMA PrintLineNear ==
  ASSUME TtyIInv, Near, PrintLine
  PROVE  Near'
  BY TtyAssumption, NearAssumption, NoneIsNoPair
  DEF Near, KernelRegisters, KernelNear, KernelTop, Shape, RoutineTop, RoutineRow, RoutineColumn, BeforeColumn,
        UpdatePlace, TtyIInv, TypeOK, LineEnds, Registers, Positions, KernelGoesOn, Context, Place, At, Goto,
      PrintLine, position, routine, crtc, history

LEMMA MousePrintNear ==
  ASSUME TtyIInv, Near, MousePrint
  PROVE  Near'
  BY TtyAssumption, NearAssumption, NoneIsNoPair
  DEF Near, KernelRegisters, KernelNear, KernelTop, Shape, RoutineTop, RoutineRow, RoutineColumn, BeforeColumn,
        UpdatePlace, TtyIInv, TypeOK, LineEnds, Registers, Positions, KernelGoesOn, Context, Place, At, Goto,
      MousePrint, position, routine, crtc, history

LEMMA RoutineCharNear ==
  ASSUME TtyIInv, Near, RoutineChar
  PROVE  Near'
  BY TtyAssumption, NearAssumption, NoneIsNoPair
  DEF Near, KernelRegisters, KernelNear, KernelTop, Shape, RoutineTop, RoutineRow, RoutineColumn, BeforeColumn,
        UpdatePlace, TtyIInv, TypeOK, LineEnds, Registers, Positions, KernelGoesOn, Context, Place, At, Goto,
      RoutineChar, position, routine, crtc, history

LEMMA RoutineNewlineNear ==
  ASSUME TtyIInv, Near, RoutineNewline
  PROVE  Near'
  BY TtyAssumption, NearAssumption, NoneIsNoPair
  DEF Near, KernelRegisters, KernelNear, KernelTop, Shape, RoutineTop, RoutineRow, RoutineColumn, BeforeColumn,
        UpdatePlace, TtyIInv, TypeOK, LineEnds, Registers, Positions, KernelGoesOn, Context, Place, At, Goto,
      RoutineNewline, position, routine, crtc, history

LEMMA ReturnNear ==
  ASSUME TtyIInv, Near, Return
  PROVE  Near'
  BY TtyAssumption, NearAssumption, NoneIsNoPair
  DEF Near, KernelRegisters, KernelNear, KernelTop, Shape, RoutineTop, RoutineRow, RoutineColumn, BeforeColumn,
        UpdatePlace, TtyIInv, TypeOK, LineEnds, Registers, Positions, KernelGoesOn, Context, Place, At, Goto,
      Return, position, routine, crtc, history

LEMMA StutterNear == TtyIInv /\ Near /\ UNCHANGED vars => Near'
  BY DEF Near, KernelRegisters, KernelNear, KernelTop, Shape, RoutineTop, RoutineRow, RoutineColumn,
         vars, position, routine, crtc, history

LEMMA NextNear == TtyIInv /\ Near /\ [Next]_vars => Near'
<1> SUFFICES ASSUME TtyIInv, Near, [Next]_vars PROVE Near'
  OBVIOUS
<1>1. ASSUME NEW c \in Context, Putchar(c) PROVE Near'
  BY <1>1, NewRowNear, ScrollNear, RowUpNear, PutNear, NextColumnNear, ColumnTestNear, WrapNear, UpdateCursorNear
  DEF Putchar
<1>2. ASSUME KernelChar \/ KernelNewline PROVE Near'
  BY <1>2, KernelCharNear, KernelNewlineNear
<1>3. ASSUME PrintLine \/ MousePrint \/ RoutineChar \/ RoutineNewline \/ Return PROVE Near'
  BY <1>3, PrintLineNear, MousePrintNear, RoutineCharNear, RoutineNewlineNear, ReturnNear
<1>4. CASE UNCHANGED vars
  BY <1>4, StutterNear
<1> QED
  BY <1>1, <1>2, <1>3, <1>4 DEF Next

\* The places, registers and positions of both contexts agree with the
\* screen at every moment (tty.cc:92-117).
THEOREM TtyInvariant == Spec => []TtyIInv
  BY InitIInv, NextIInv, PTL DEF Spec

\* Between two characters of the kernel the column is one of the row, for a
\* screen of any size and lines of any length (tty.cc:92-105).
THEOREM ColumnStaysOnScreen == Spec => []ColumnOnScreen
<1>1. TtyIInv => ColumnOnScreen
  BY DEF TtyIInv, ColumnOnScreen, Positions, KernelGoesOn, At
<1> QED
  BY <1>1, TtyInvariant, PTL

\* A character that no interrupt came into leaves both bytes of the cursor
\* behind itself (tty.cc:106-117).
THEOREM CursorIsBehind == Spec => []CursorFollows
<1>1. TtyIInv => CursorFollows
  <2> SUFFICES ASSUME TtyIInv, At("kernel", "idle"), undisturbed PROVE cursor = [r \in {14, 15} |-> Position]
    BY DEF CursorFollows
  <2>1. cursor[14] = Position /\ cursor[15] = Position
    BY DEF TtyIInv, CursorSoFar, At
  <2> QED
    BY <2>1 DEF TtyIInv, TypeOK
<1> QED
  BY <1>1, TtyInvariant, PTL

\* On a screen of three columns or more the row is never further down than the
\* second below it, and no character is written beyond, whatever interrupts
\* came into the increments and decrements of the row (tty.cc:13-24,92-105).
THEOREM RowStaysNear == Spec => []NearTheScreen
<1>1. TtyIInv /\ Near => NearTheScreen
  <2> SUFFICES ASSUME TtyIInv, Near PROVE NearTheScreen
    OBVIOUS
  <2>1. terminal_row \in Nat /\ terminal_column \in Nat /\ VGA_HEIGHT \in Nat /\ VGA_WIDTH \in Nat
    BY TtyAssumption DEF TtyIInv, TypeOK
  <2>2. terminal_row <= VGA_HEIGHT + 2
    <3>1. CASE running = "kernel"
      BY <3>1 DEF Near, KernelNear, Shape
    <3>2. CASE running = "routine"
      BY <3>2 DEF Near, RoutineRow, Shape
    <3> QED
      BY <3>1, <3>2 DEF TtyIInv, TypeOK, Context
  <2>3. ASSUME NEW c \in Context, At(c, "put") PROVE Position < (VGA_HEIGHT + 2) * VGA_WIDTH
    <3>1. \/ terminal_row <= VGA_HEIGHT + 1 /\ terminal_column < VGA_WIDTH
          \/ terminal_row <= VGA_HEIGHT - 1 /\ terminal_column < 3 * VGA_WIDTH
      <4>1. CASE c = "kernel"
        BY <2>1, <2>3, <4>1 DEF Near, KernelNear, KernelTop, TtyIInv, Positions, KernelGoesOn, At, UpdatePlace
      <4>2. CASE c = "routine"
        <5>1. running = "routine" /\ at["routine"] = "put" /\ RoutineRow /\ RoutineColumn /\ left \in Nat
          BY <2>3, <4>2 DEF Near, At, TtyIInv, TypeOK
        <5>2. CASE terminal_row >= VGA_HEIGHT
          BY <2>1, <5>1, <5>2, NearAssumption DEF RoutineRow
        <5>3. CASE terminal_row < VGA_HEIGHT
          BY <2>1, <5>1, <5>3 DEF RoutineColumn, BeforeColumn
        <5> QED
          BY <2>1, <5>2, <5>3
      <4> QED
        BY <4>1, <4>2 DEF Context
    <3>2. \A a, b \in Nat : a <= b => a * VGA_WIDTH <= b * VGA_WIDTH
      BY <2>1
    <3>3. CASE terminal_row <= VGA_HEIGHT + 1 /\ terminal_column < VGA_WIDTH
      <4>1. terminal_row * VGA_WIDTH <= (VGA_HEIGHT + 1) * VGA_WIDTH
        BY <2>1, <3>2, <3>3
      <4>2. (VGA_HEIGHT + 1) * VGA_WIDTH + VGA_WIDTH = (VGA_HEIGHT + 2) * VGA_WIDTH
        BY <2>1
      <4> QED
        BY <2>1, <3>3, <4>1, <4>2 DEF Position
    <3>4. CASE terminal_row <= VGA_HEIGHT - 1 /\ terminal_column < 3 * VGA_WIDTH
      <4>1. VGA_HEIGHT - 1 \in Nat
        BY TtyAssumption
      <4>2. terminal_row * VGA_WIDTH <= (VGA_HEIGHT - 1) * VGA_WIDTH
        BY <2>1, <3>2, <3>4, <4>1
      <4>3. (VGA_HEIGHT - 1) * VGA_WIDTH + 3 * VGA_WIDTH = (VGA_HEIGHT + 2) * VGA_WIDTH
        BY <2>1
      <4> QED
        BY <2>1, <3>4, <4>2, <4>3 DEF Position
    <3> QED
      BY <3>1, <3>3, <3>4
  <2> QED
    BY <2>2, <2>3 DEF NearTheScreen
<1> QED
  BY <1>1, InitIInv, NextIInv, InitNear, NextNear, PTL DEF Spec

(***************************************************************************)
(* printf: the least of a set of numbers.                                  *)
(***************************************************************************)
\* A set of natural numbers that is not empty has a least one: every induction
\* below takes the least number a statement is false for.
LEMMA Least ==
  ASSUME NEW T \in SUBSET Nat, T # {}
  PROVE  \E x \in T : \A y \in T : x <= y
<1> DEFINE R == {ss \in Nat \X Nat : ss[1] < ss[2]}
<1>1. IsWellFoundedOn(R, Nat)
  BY NatLessThanWellFounded DEF OpToRel
<1> HIDE DEF R
<1>2. PICK x \in T : \A y \in T : ~ (<<y, x>> \in R)
  BY <1>1, WFMin, Zenon
<1>3. ASSUME NEW y \in T PROVE x <= y
  <2>1. x \in Nat /\ y \in Nat /\ <<y, x>> \notin R
    BY <1>2
  <2>2. ~ (y < x)
    BY <2>1 DEF R
  <2> QED
    BY <2>1, <2>2
<1> QED
  BY <1>3

(***************************************************************************)
(* Figures.                                                                *)
(***************************************************************************)
FigureSet == {Figures[d] : d \in 1 .. 16}

Digits16 == {"0", "1", "2", "3", "4", "5", "6", "7", "8", "9", "a", "b", "c", "d", "e", "f"}

LEMMA FigureIs ==
  /\ \A d \in 0 .. 15 : FigureValue(Figures[d + 1]) = d /\ Figures[d + 1] \in FigureSet
  /\ \A d \in 1 .. 15 : Figures[d + 1] # "0"
  /\ Figures[1] = "0"
  /\ FigureSet = {Figures[d] : d \in DOMAIN Figures}
  /\ NUL \notin FigureSet
<1>1. DOMAIN Figures = 1 .. 16
  BY DEF Figures
<1>2. \A i, j \in 1 .. 16 : Figures[i] = Figures[j] => i = j
  BY DEF Figures
<1>3. ASSUME NEW d \in 0 .. 15
      PROVE  FigureValue(Figures[d + 1]) = d /\ Figures[d + 1] \in FigureSet
  <2>1. \A i \in DOMAIN Figures : Figures[i] = Figures[d + 1] => i = d + 1
    BY <1>1, <1>2
  <2> QED
    BY <1>1, <2>1 DEF FigureValue, FigureSet
<1>4. Figures[1] = "0"
  BY DEF Figures
<1>5. \A d \in 1 .. 15 : Figures[d + 1] # "0"
  BY <1>2, <1>4
<1>6. \A d \in 1 .. 16 : Figures[d] # NUL
  <2>1. \A d \in 1 .. 16 : Figures[d] \in Digits16
    BY DEF Figures, Digits16
  <2>2. NUL \notin Digits16
    BY Zenon DEF NUL, Digits16
  <2> QED
    BY <2>1, <2>2
<1> QED
  BY <1>1, <1>3, <1>4, <1>5, <1>6 DEF FigureSet

(***************************************************************************)
(* The digits itoa finds.                                                  *)
(***************************************************************************)
ProducedAt(f, base, m) ==
    <<Figures[(m % base) + 1]>> \o IF m < base THEN <<>> ELSE f[m \div base]
ProducedFrom(base) == CHOOSE f : f = [m \in Nat |-> ProducedAt(f, base, m)]

LEMMA ProducedIs == \A n, base : Produced(n, base) = ProducedFrom(base)[n]
  BY DEF Produced, ProducedFrom, ProducedAt

LEMMA Divide ==
  ASSUME NEW base \in {10, 16}, NEW n \in Nat
  PROVE  /\ n % base \in 0 .. base - 1 /\ n % base \in 0 .. 15
         /\ n \div base \in Nat
         /\ n = base * (n \div base) + (n % base)
         /\ n < base => n % base = n
         /\ n >= base => n \div base < n /\ n \div base >= 1
<1>1. base \in Nat /\ base > 0
  OBVIOUS
<1>2. n = (n \div base) * base + (n % base) /\ n \div base \in Nat /\ n % base \in 0 .. base - 1
  BY <1>1
<1> DEFINE q == n \div base
           r == n % base
<1>3. q \in Nat /\ r \in Nat /\ r < base /\ n = q * base + r
  BY <1>1, <1>2
<1> HIDE DEF q, r
<1>4. n = base * q + r
  BY <1>3
<1>5. n < base => q = 0
  BY <1>3
<1>6. n < base => r = n
  BY <1>3, <1>5
<1>7. n >= base => q < n /\ q >= 1
  BY <1>3
<1>8. r \in 0 .. 15
  BY <1>3
<1> QED
  BY <1>2, <1>4, <1>6, <1>7, <1>8 DEF q, r

\* Two functions that satisfy the equation below m agree there.
Finds(f, base, m) == f = [a \in Nat |-> f[a]] /\ \A a \in Nat : a < m => f[a] = ProducedAt(f, base, a)

LEMMA FindsAgree ==
  ASSUME NEW base \in {10, 16}, NEW m \in Nat, NEW k \in Nat,
         NEW f, Finds(f, base, m), NEW g, Finds(g, base, k)
  PROVE  \A a \in Nat : a < m /\ a < k => f[a] = g[a]
<1> DEFINE T == {a \in Nat : a < m /\ a < k /\ f[a] # g[a]}
<1> SUFFICES ASSUME T # {} PROVE FALSE
  OBVIOUS
<1>1. PICK x \in T : \A y \in T : x <= y
  BY Least
<1>2. x \in Nat /\ x < m /\ x < k /\ f[x] # g[x]
  BY <1>1
<1>3. f[x] = ProducedAt(f, base, x) /\ g[x] = ProducedAt(g, base, x)
  BY <1>2 DEF Finds
<1>4. CASE x < base
  BY <1>2, <1>3, <1>4 DEF ProducedAt
<1>5. CASE ~ (x < base)
  <2>1. x \div base \in Nat /\ x \div base < x
    BY <1>2, <1>5, Divide
  <2>2. x \div base \notin T
    BY <1>1, <1>2, <2>1
  <2>3. f[x \div base] = g[x \div base]
    BY <1>2, <2>1, <2>2
  <2> QED
    BY <1>2, <1>3, <1>5, <2>3 DEF ProducedAt
<1> QED
  BY <1>4, <1>5

LEMMA SomeFinds ==
  ASSUME NEW base \in {10, 16}
  PROVE  \A m \in Nat : \E f : Finds(f, base, m)
<1> DEFINE P(m) == \E f : Finds(f, base, m)
           T == {m \in Nat : ~P(m)}
<1>1. P(0)
  <2> DEFINE f == [a \in Nat |-> <<>>]
  <2>1. Finds(f, base, 0)
    BY DEF Finds
  <2> QED
    BY <2>1
<1>2. ASSUME NEW m \in Nat, P(m) PROVE P(m + 1)
  <2>1. PICK f : Finds(f, base, m)
    BY <1>2
  <2> DEFINE g == [a \in Nat |-> IF a = m THEN ProducedAt(f, base, m) ELSE f[a]]
  <2>2. ASSUME NEW a \in Nat, a < m + 1 PROVE g[a] = ProducedAt(g, base, a)
    <3>1. g[a] = ProducedAt(f, base, a)
      BY <2>1, <2>2 DEF Finds
    <3>2. ~ (a < base) => g[a \div base] = f[a \div base]
      BY <2>2, Divide
    <3> HIDE DEF g
    <3> QED
      BY <3>1, <3>2 DEF ProducedAt
  <2>3. g = [a \in Nat |-> g[a]]
    OBVIOUS
  <2> HIDE DEF g
  <2>4. Finds(g, base, m + 1)
    BY <2>2, <2>3 DEF Finds
  <2> QED
    BY <2>4
<1> HIDE DEF P
<1>3. T = {}
  <2> SUFFICES ASSUME T # {} PROVE FALSE
    OBVIOUS
  <2>1. PICK x \in T : \A y \in T : x <= y
    BY Least
  <2>2. x \in Nat \ {0} /\ x - 1 \in Nat /\ x - 1 + 1 = x
    BY <1>1, <2>1
  <2>3. P(x - 1)
    BY <2>1, <2>2
  <2> QED
    BY <1>2, <2>1, <2>2, <2>3
<1> QED
  BY <1>3 DEF P

LEMMA ProducedExists ==
  ASSUME NEW base \in {10, 16}
  PROVE  \A n \in Nat : ProducedFrom(base)[n] = ProducedAt(ProducedFrom(base), base, n)
<1> DEFINE C(m) == CHOOSE f : Finds(f, base, m)
           h == [a \in Nat |-> C(a + 1)[a]]
<1>1. \A m \in Nat : Finds(C(m), base, m)
  BY SomeFinds
<1> HIDE DEF C
<1>2. ASSUME NEW a \in Nat PROVE h[a] = ProducedAt(h, base, a)
  <2>1. Finds(C(a + 1), base, a + 1)
    BY <1>1
  <2>2. h[a] = ProducedAt(C(a + 1), base, a)
    BY <2>1 DEF Finds
  <2>3. ASSUME ~ (a < base) PROVE h[a \div base] = C(a + 1)[a \div base]
    <3> DEFINE b == a \div base
    <3>1. b \in Nat /\ b < a
      BY <2>3, Divide
    <3>2. Finds(C(b + 1), base, b + 1) /\ b + 1 \in Nat /\ a + 1 \in Nat /\ b < b + 1 /\ b < a + 1
      BY <1>1, <3>1
    <3>3. C(b + 1)[b] = C(a + 1)[b]
      BY <2>1, <3>1, <3>2, FindsAgree
    <3> QED
      BY <3>1, <3>3
  <2> HIDE DEF h
  <2> QED
    BY <2>2, <2>3 DEF ProducedAt
<1>3. h = [a \in Nat |-> h[a]]
  OBVIOUS
<1> HIDE DEF h
<1>4. h = [a \in Nat |-> ProducedAt(h, base, a)]
  BY <1>2, <1>3
<1>5. ProducedFrom(base) = [a \in Nat |-> ProducedAt(ProducedFrom(base), base, a)]
  BY <1>4 DEF ProducedFrom
<1> QED
  BY <1>5

\* The last digit first, and behind it the digits of what is left.
LEMMA ProducedNext ==
  ASSUME NEW base \in {10, 16}, NEW n \in Nat
  PROVE  /\ n < base => Produced(n, base) = <<Figures[n + 1]>>
         /\ n >= base => Produced(n, base) = <<Figures[(n % base) + 1]>> \o Produced(n \div base, base)
<1>1. Produced(n, base) = ProducedAt(ProducedFrom(base), base, n)
  BY ProducedExists, ProducedIs
<1>2. n \div base \in Nat /\ Produced(n \div base, base) = ProducedFrom(base)[n \div base]
  BY Divide, ProducedIs
<1>3. n < base => n % base = n
  BY Divide
<1>4. n < base => Produced(n, base) = <<Figures[n + 1]>> \o <<>>
  BY <1>1, <1>3 DEF ProducedAt
<1>5. n >= base => Produced(n, base) = <<Figures[(n % base) + 1]>> \o Produced(n \div base, base)
  BY <1>1, <1>2 DEF ProducedAt
<1>6. \A f : <<f>> \o <<>> = <<f>>
  OBVIOUS
<1> QED
  BY <1>4, <1>5, <1>6

LEMMA ProducedDigits ==
  ASSUME NEW base \in {10, 16}
  PROVE  \A n \in Nat : /\ Produced(n, base) \in Seq(FigureSet)
                        /\ Len(Produced(n, base)) \in Nat /\ Len(Produced(n, base)) >= 1
<1> DEFINE G(n) == Produced(n, base) \in Seq(FigureSet) /\ Len(Produced(n, base)) \in Nat /\ Len(Produced(n, base)) >= 1
           T == {n \in Nat : ~G(n)}
<1> SUFFICES ASSUME T # {} PROVE FALSE
  OBVIOUS
<1>1. PICK x \in T : \A y \in T : x <= y
  BY Least
<1>2. x \in Nat /\ ~G(x)
  BY <1>1
<1>3. CASE x < base
  <2>1. Produced(x, base) = <<Figures[x + 1]>>
    BY <1>2, <1>3, ProducedNext
  <2>2. Figures[x + 1] \in FigureSet
    <3>1. x \in 0 .. 15
      BY <1>2, <1>3
    <3> HIDE DEF G, T
    <3> QED
      BY <3>1, FigureIs
  <2> QED
    BY <1>2, <2>1, <2>2
<1>4. CASE x >= base
  <2> DEFINE q == x \div base
             d == Figures[(x % base) + 1]
             s == Produced(q, base)
  <2>1. q \in Nat /\ q < x /\ d \in FigureSet
    BY <1>2, <1>4, Divide, FigureIs
  <2>2. Produced(x, base) = <<d>> \o s
    BY <1>2, <1>4, ProducedNext
  <2>3. s \in Seq(FigureSet)
    BY <1>1, <1>2, <2>1
  <2> HIDE DEF s, d, q
  <2>4. <<d>> \o s \in Seq(FigureSet) /\ Len(<<d>> \o s) = 1 + Len(s) /\ Len(s) \in Nat
    BY <2>1, <2>3
  <2> QED
    BY <1>2, <2>2, <2>4
<1> QED
  BY <1>2, <1>3, <1>4

LEMMA Turned ==
  ASSUME NEW S, NEW s \in Seq(S)
  PROVE  /\ Reverse(s) \in Seq(S) /\ Len(Reverse(s)) = Len(s)
         /\ \A i \in 1 .. Len(s) : Reverse(s)[i] = s[Len(s) - i + 1]
<1>1. Len(s) \in Nat /\ Reverse(s) = [i \in 1 .. Len(s) |-> s[Len(s) - i + 1]]
  BY DEF Reverse
<1>2. \A i \in 1 .. Len(s) : s[Len(s) - i + 1] \in S
  BY <1>1
<1> QED
  BY <1>1, <1>2

LEMMA TurnedNext ==
  ASSUME NEW S, NEW s \in Seq(S), NEW d \in S
  PROVE  Reverse(<<d>> \o s) = Append(Reverse(s), d)
<1> DEFINE t == <<d>> \o s
           n == Len(s)
<1>1. /\ t \in Seq(S) /\ Len(t) = n + 1 /\ n \in Nat
      /\ t[1] = d /\ \A i \in 2 .. n + 1 : t[i] = s[i - 1]
  OBVIOUS
<1>3. /\ Reverse(s) \in Seq(S) /\ Len(Reverse(s)) = n
      /\ \A i \in 1 .. n : Reverse(s)[i] = s[n - i + 1]
  BY Turned
<1> HIDE DEF t, n
<1>2. /\ Reverse(t) \in Seq(S) /\ Len(Reverse(t)) = n + 1
      /\ \A i \in 1 .. n + 1 : Reverse(t)[i] = t[n + 1 - i + 1]
  <2>1. /\ Reverse(t) \in Seq(S) /\ Len(Reverse(t)) = Len(t)
        /\ \A i \in 1 .. Len(t) : Reverse(t)[i] = t[Len(t) - i + 1]
    BY <1>1, Turned
  <2> QED
    BY <1>1, <2>1
<1> DEFINE u == Append(Reverse(s), d)
<1>4. u \in Seq(S) /\ Len(u) = n + 1 /\ u[n + 1] = d /\ \A i \in 1 .. n : u[i] = Reverse(s)[i]
  BY <1>3
<1> HIDE DEF u
<1>5. ASSUME NEW i \in 1 .. n + 1 PROVE Reverse(t)[i] = u[i]
  <2>1. CASE i = n + 1
    BY <1>1, <1>2, <1>4, <2>1
  <2>2. CASE i # n + 1
    <3>1. i \in 1 .. n /\ n + 1 - i + 1 \in 2 .. n + 1
      BY <1>1, <2>2
    <3>2. t[n + 1 - i + 1] = s[n + 1 - i + 1 - 1] /\ n + 1 - i + 1 - 1 = n - i + 1
      BY <1>1, <3>1
    <3> QED
      BY <1>2, <1>3, <1>4, <3>1, <3>2
  <2> QED
    BY <2>1, <2>2
<1>6. Reverse(t) = u
  BY <1>1, <1>2, <1>4, <1>5
<1> QED
  BY <1>6 DEF t, u

(***************************************************************************)
(* What itoa writes: the digits, the first one first.                      *)
(***************************************************************************)
Digits(n, base) == Reverse(Produced(n, base))

LEMMA DigitsNext ==
  ASSUME NEW base \in {10, 16}, NEW n \in Nat
  PROVE  /\ Digits(n, base) \in Seq(FigureSet)
         /\ Len(Digits(n, base)) = Len(Produced(n, base)) /\ Len(Digits(n, base)) >= 1
         /\ n < base => Digits(n, base) = <<Figures[n + 1]>>
         /\ n >= base => Digits(n, base) = Append(Digits(n \div base, base), Figures[(n % base) + 1])
<1>1. Produced(n, base) \in Seq(FigureSet) /\ Len(Produced(n, base)) >= 1
  BY ProducedDigits
<1>2. ASSUME n < base PROVE Digits(n, base) = <<Figures[n + 1]>>
  <2>1. Produced(n, base) = <<Figures[n + 1]>>
    BY <1>2, ProducedNext
  <2> DEFINE p == Produced(n, base)
  <2>2. p \in Seq(FigureSet) /\ Len(p) = 1 /\ p[1] = Figures[n + 1] /\ Digits(n, base) = Reverse(p)
    BY <1>1, <2>1 DEF Digits
  <2> HIDE DEF p
  <2>3. Reverse(p) \in Seq(FigureSet) /\ Len(Reverse(p)) = 1 /\ Reverse(p)[1] = Figures[n + 1]
    BY <2>2, Turned
  <2> QED
    BY <2>2, <2>3
<1>3. ASSUME n >= base PROVE Digits(n, base) = Append(Digits(n \div base, base), Figures[(n % base) + 1])
  <2>1. n \div base \in Nat /\ Figures[(n % base) + 1] \in FigureSet
    BY Divide, FigureIs
  <2>2. Produced(n \div base, base) \in Seq(FigureSet)
    BY <2>1, ProducedDigits
  <2> QED
    BY <1>3, <2>1, <2>2, ProducedNext, TurnedNext DEF Digits
<1> QED
  BY <1>1, <1>2, <1>3, Turned DEF Digits

\* The first of several digits is no zero.
LEMMA FirstDigit ==
  ASSUME NEW base \in {10, 16}
  PROVE  \A n \in Nat : n >= 1 => Digits(n, base)[1] # "0"
<1> DEFINE T == {n \in Nat : n >= 1 /\ Digits(n, base)[1] = "0"}
<1> SUFFICES ASSUME T # {} PROVE FALSE
  OBVIOUS
<1>1. PICK x \in T : \A y \in T : x <= y
  BY Least
<1>2. x \in Nat /\ x >= 1 /\ Digits(x, base)[1] = "0"
  BY <1>1
<1>3. CASE x < base
  <2>1. Digits(x, base) = <<Figures[x + 1]>>
    BY <1>2, <1>3, DigitsNext
  <2> QED
    BY <1>2, <1>3, <2>1, FigureIs
<1>4. CASE x >= base
  <2> DEFINE q == x \div base
             s == Digits(q, base)
             d == Figures[(x % base) + 1]
  <2>1. q \in Nat /\ q < x /\ q >= 1
    BY <1>2, <1>4, Divide
  <2>2. s \in Seq(FigureSet) /\ Len(s) >= 1 /\ s[1] # "0"
    <3>1. q \notin T
      BY <1>1, <1>2, <2>1
    <3> QED
      BY <2>1, <3>1, DigitsNext
  <2>3. Digits(x, base) = Append(s, d)
    BY <1>2, <1>4, DigitsNext
  <2> HIDE DEF s, d
  <2>4. Append(s, d)[1] = s[1]
    BY <2>2
  <2> QED
    BY <1>2, <2>2, <2>3, <2>4
<1> QED
  BY <1>2, <1>3, <1>4

\* A smaller number has no more digits, and none has more in base 16.
LEMMA NoMoreDigits ==
  ASSUME NEW base \in {10, 16}
  PROVE  \A n \in Nat : \A m \in 0 .. n : Len(Produced(m, base)) <= Len(Produced(n, 10))
<1> DEFINE G(n) == \A m \in 0 .. n : Len(Produced(m, base)) <= Len(Produced(n, 10))
           T == {n \in Nat : ~G(n)}
<1> SUFFICES ASSUME T # {} PROVE FALSE
  OBVIOUS
<1>1. PICK n \in T : \A y \in T : n <= y
  BY Least
<1>2. PICK m \in 0 .. n : ~ (Len(Produced(m, base)) <= Len(Produced(n, 10)))
  BY <1>1
<1>3. n \in Nat /\ m \in Nat /\ m <= n
  BY <1>1, <1>2
<1>4. Len(Produced(n, 10)) \in Nat /\ Len(Produced(n, 10)) >= 1
  BY <1>3, ProducedDigits
<1>5. CASE m < base
  <2>1. Produced(m, base) = <<Figures[m + 1]>>
    BY <1>3, <1>5, ProducedNext
  <2>2. Len(Produced(m, base)) = 1
    BY <2>1
  <2> QED
    BY <1>2, <1>4, <2>2
<1>6. CASE m >= base
  <2> DEFINE q == m \div base
             r == n \div 10
  <2>1. q \in Nat /\ m = base * q + (m % base) /\ m % base \in Nat /\ base \in {10, 16}
    BY <1>3, Divide
  <2>2. n >= 10 /\ r \in Nat /\ n = 10 * r + (n % 10) /\ n % 10 \in 0 .. 9 /\ r < n
    BY <1>3, <1>6, Divide
  <2>3. Produced(m, base) = <<Figures[(m % base) + 1]>> \o Produced(q, base)
    BY <1>3, <1>6, ProducedNext
  <2>4. Produced(n, 10) = <<Figures[(n % 10) + 1]>> \o Produced(r, 10)
    BY <1>3, <2>2, ProducedNext
  <2>5. /\ Produced(q, base) \in Seq(FigureSet) /\ Produced(r, 10) \in Seq(FigureSet)
        /\ Len(Produced(q, base)) \in Nat /\ Len(Produced(r, 10)) \in Nat
    BY <2>1, <2>2, ProducedDigits
  <2>6. q <= r
    <3>1. base * q >= 10 * q
      BY <2>1
    <3> QED
      BY <1>3, <2>1, <2>2, <3>1
  <2>7. Len(Produced(q, base)) <= Len(Produced(r, 10))
    <3>1. r \notin T
      BY <1>1, <2>2, <1>3
    <3>2. G(r)
      BY <2>2, <3>1
    <3> QED
      BY <2>1, <2>2, <2>6, <3>2
  <2>8. \A f : \A s \in Seq(FigureSet) : Len(<<f>> \o s) = 1 + Len(s)
    OBVIOUS
  <2>9. Len(Produced(m, base)) = 1 + Len(Produced(q, base)) /\ Len(Produced(n, 10)) = 1 + Len(Produced(r, 10))
    BY <2>3, <2>4, <2>5, <2>8
  <2> QED
    BY <1>2, <2>5, <2>7, <2>9
<1> QED
  BY <1>3, <1>5, <1>6

(***************************************************************************)
(* What digits denote.                                                     *)
(***************************************************************************)
UptoAt(f, digits, base, i) == IF i = 0 THEN 0 ELSE base * f[i - 1] + FigureValue(digits[i])
Upto(digits, base) == CHOOSE f : f = [i \in 0 .. Len(digits) |-> UptoAt(f, digits, base, i)]

LEMMA ReadAsIs == \A digits, base : ReadAs(digits, base) = Upto(digits, base)[Len(digits)]
  BY DEF ReadAs, Upto, UptoAt

LEMMA UptoExists ==
  ASSUME NEW s, Len(s) \in Nat, NEW base
  PROVE  Upto(s, base) = [i \in 0 .. Len(s) |-> UptoAt(Upto(s, base), s, base, i)]
<1> DEFINE P(m) == \E f : f = [n \in 0 .. m |-> UptoAt(f, s, base, n)]
           T == {m \in Nat : ~P(m)}
<1>1. P(0)
  <2> DEFINE f == [n \in 0 .. 0 |-> 0]
  <2>1. f = [n \in 0 .. 0 |-> UptoAt(f, s, base, n)]
    BY DEF UptoAt
  <2> QED
    BY <2>1
<1>2. ASSUME NEW m \in Nat, P(m) PROVE P(m + 1)
  <2>1. PICK f : f = [n \in 0 .. m |-> UptoAt(f, s, base, n)]
    BY <1>2
  <2> DEFINE g == [n \in 0 .. m + 1 |-> IF n = m + 1 THEN UptoAt(f, s, base, n) ELSE f[n]]
  <2>2. ASSUME NEW n \in 0 .. m + 1 PROVE g[n] = UptoAt(g, s, base, n)
    <3>1. g[n] = UptoAt(f, s, base, n)
      <4>1. CASE n = m + 1
        BY <4>1
      <4>2. CASE n # m + 1
        <5>1. n \in 0 .. m /\ g[n] = f[n]
          BY <4>2
        <5> HIDE DEF g
        <5> QED
          BY <2>1, <5>1
      <4> QED
        BY <4>1, <4>2
    <3>2. n # 0 => g[n - 1] = f[n - 1]
      OBVIOUS
    <3> HIDE DEF g
    <3> QED
      BY <3>1, <3>2 DEF UptoAt
  <2>3. g = [n \in 0 .. m + 1 |-> g[n]]
    OBVIOUS
  <2> HIDE DEF g
  <2>4. g = [n \in 0 .. m + 1 |-> UptoAt(g, s, base, n)]
    BY <2>2, <2>3
  <2> QED
    BY <2>4
<1> HIDE DEF P
<1>3. T = {}
  <2> SUFFICES ASSUME T # {} PROVE FALSE
    OBVIOUS
  <2>1. PICK x \in T : \A y \in T : x <= y
    BY Least
  <2>2. x \in Nat \ {0} /\ x - 1 \in Nat /\ x - 1 + 1 = x
    BY <1>1, <2>1
  <2>3. P(x - 1)
    BY <2>1, <2>2
  <2> QED
    BY <1>2, <2>1, <2>2, <2>3
<1>4. P(Len(s))
  BY <1>3
<1> QED
  BY <1>4 DEF P, Upto

LEMMA UptoNext ==
  ASSUME NEW s, Len(s) \in Nat, NEW base
  PROVE  /\ Upto(s, base)[0] = 0
         /\ \A i \in 1 .. Len(s) : Upto(s, base)[i] = base * Upto(s, base)[i - 1] + FigureValue(s[i])
<1>1. \A i \in 0 .. Len(s) : Upto(s, base)[i] = UptoAt(Upto(s, base), s, base, i)
  BY UptoExists
<1> DEFINE u == Upto(s, base)
<1> HIDE DEF u
<1>2. \A i \in 0 .. Len(s) : u[i] = UptoAt(u, s, base, i)
  BY <1>1 DEF u
<1>3. u[0] = 0
  BY <1>2 DEF UptoAt
<1>4. \A i \in 1 .. Len(s) : u[i] = base * u[i - 1] + FigureValue(s[i])
  BY <1>2 DEF UptoAt
<1> QED
  BY <1>3, <1>4 DEF u

\* k digits behind z digits that denote 0 denote what they denote alone.
Behind(s, t, base, z, k) ==
    /\ Len(s) \in Nat /\ Len(t) \in Nat /\ z \in Nat /\ k \in Nat
    /\ k <= Len(s) /\ z + k <= Len(t)
    /\ Upto(t, base)[z] = 0
    /\ \A j \in 1 .. k : t[z + j] = s[j]

LEMMA UptoShifted ==
  ASSUME NEW s, NEW t, NEW base, NEW z, NEW k, Behind(s, t, base, z, k)
  PROVE  \A j \in 0 .. k : Upto(t, base)[z + j] = Upto(s, base)[j]
<1> DEFINE u == Upto(s, base)
           v == Upto(t, base)
           T == {j \in Nat : j <= k /\ v[z + j] # u[j]}
<1>0. /\ Len(s) \in Nat /\ Len(t) \in Nat /\ z \in Nat /\ k \in Nat
      /\ k <= Len(s) /\ z + k <= Len(t)
      /\ \A j \in 1 .. k : t[z + j] = s[j]
  BY DEF Behind
<1>1. u[0] = 0 /\ \A i \in 1 .. Len(s) : u[i] = base * u[i - 1] + FigureValue(s[i])
  BY <1>0, UptoNext
<1>2. \A i \in 1 .. Len(t) : v[i] = base * v[i - 1] + FigureValue(t[i])
  BY <1>0, UptoNext
<1>3. v[z] = 0
  BY DEF Behind
<1> HIDE DEF u, v
<1>4. T = {}
  <2> SUFFICES ASSUME T # {} PROVE FALSE
    OBVIOUS
  <2>1. PICK x \in T : \A y \in T : x <= y
    BY Least
  <2>2. x \in Nat /\ x <= k /\ v[z + x] # u[x]
    BY <2>1
  <2>3. x # 0
    BY <1>0, <1>1, <1>3, <2>2
  <2>4. x - 1 \in Nat /\ x - 1 < x
    BY <2>2, <2>3
  <2>5. x - 1 \notin T
    BY <2>1, <2>2, <2>4
  <2>6. v[z + (x - 1)] = u[x - 1]
    BY <1>0, <2>2, <2>4, <2>5
  <2>7. x \in 1 .. Len(s) /\ z + x \in 1 .. Len(t) /\ x \in 1 .. k /\ (z + x) - 1 = z + (x - 1)
    BY <1>0, <2>2, <2>3
  <2>8. t[z + x] = s[x]
    BY <1>0, <2>7
  <2>9. v[z + x] = base * v[(z + x) - 1] + FigureValue(t[z + x])
    BY <1>2, <2>7
  <2>10. u[x] = base * u[x - 1] + FigureValue(s[x])
    BY <1>1, <2>7
  <2> QED
    BY <2>2, <2>6, <2>7, <2>8, <2>9, <2>10
<1>5. ASSUME NEW j \in 0 .. k PROVE v[z + j] = u[j]
  <2>1. j \in Nat /\ j <= k /\ j \notin T
    BY <1>0, <1>4
  <2> QED
    BY <2>1
<1> QED
  BY <1>5 DEF u, v

LEMMA UptoZeros ==
  ASSUME NEW t, Len(t) \in Nat, NEW base \in {10, 16},
         NEW z \in 0 .. Len(t), \A i \in 1 .. z : t[i] = "0"
  PROVE  Upto(t, base)[z] = 0
<1> DEFINE v == Upto(t, base)
           T == {j \in Nat : j <= z /\ v[j] # 0}
<1>1. v[0] = 0 /\ \A i \in 1 .. Len(t) : v[i] = base * v[i - 1] + FigureValue(t[i])
  BY UptoNext
<1> HIDE DEF v
<1>2. FigureValue("0") = 0
  BY FigureIs
<1>3. T = {}
  <2> SUFFICES ASSUME T # {} PROVE FALSE
    OBVIOUS
  <2>1. PICK x \in T : \A y \in T : x <= y
    BY Least
  <2>2. x \in Nat /\ x <= z /\ v[x] # 0
    BY <2>1
  <2>3. x # 0
    BY <1>1, <2>2
  <2>4. x - 1 \in Nat /\ x - 1 < x /\ x \in 1 .. z /\ x \in 1 .. Len(t)
    BY <2>2, <2>3
  <2>5. x - 1 \notin T
    BY <2>1, <2>2, <2>4
  <2>6. v[x - 1] = 0
    BY <2>2, <2>4, <2>5
  <2>7. FigureValue(t[x]) = 0
    BY <1>2, <2>4
  <2>8. v[x] = base * v[x - 1] + FigureValue(t[x])
    BY <1>1, <2>4
  <2> QED
    BY <2>2, <2>6, <2>7, <2>8
<1>4. v[z] = 0
  BY <1>3
<1> QED
  BY <1>4 DEF v

\* Zeros in front of digits change nothing.
LEMMA ReadAsFilled ==
  ASSUME NEW s, Len(s) \in Nat, NEW t, Len(t) \in Nat, NEW base \in {10, 16},
         NEW z \in Nat, Len(t) = z + Len(s),
         \A i \in 1 .. z : t[i] = "0", \A j \in 1 .. Len(s) : t[z + j] = s[j]
  PROVE  ReadAs(t, base) = ReadAs(s, base)
<1>1. z \in 0 .. Len(t) /\ Len(s) \in 0 .. Len(s)
  OBVIOUS
<1>2. Upto(t, base)[z] = 0
  BY <1>1, UptoZeros
<1>3. Upto(t, base)[z + Len(s)] = Upto(s, base)[Len(s)]
  <2>1. /\ Len(s) \in Nat /\ Len(t) \in Nat /\ z \in Nat /\ Len(s) <= Len(s) /\ z + Len(s) <= Len(t)
        /\ \A j \in 1 .. Len(s) : t[z + j] = s[j]
    OBVIOUS
  <2>2. Behind(s, t, base, z, Len(s))
    BY <1>2, <2>1 DEF Behind
  <2>3. \A j \in 0 .. Len(s) : Upto(t, base)[z + j] = Upto(s, base)[j]
    BY <2>2, UptoShifted
  <2> QED
    BY <1>1, <2>3
<1> QED
  BY <1>3, ReadAsIs

LEMMA ReadAsNext ==
  ASSUME NEW S, NEW s \in Seq(S), NEW d \in S, NEW base \in {10, 16}
  PROVE  ReadAs(Append(s, d), base) = base * ReadAs(s, base) + FigureValue(d)
<1> DEFINE t == Append(s, d)
           n == Len(s)
<1>1. n \in Nat /\ t \in Seq(S) /\ Len(t) = n + 1 /\ t[n + 1] = d /\ \A j \in 1 .. n : t[j] = s[j]
  OBVIOUS
<1> HIDE DEF t, n
<1>2. Upto(t, base)[0] = 0 /\ Upto(t, base)[n + 1] = base * Upto(t, base)[(n + 1) - 1] + FigureValue(t[n + 1])
  <2>1. Len(t) \in Nat /\ n + 1 \in 1 .. Len(t)
    BY <1>1
  <2>2. /\ Upto(t, base)[0] = 0
        /\ \A i \in 1 .. Len(t) : Upto(t, base)[i] = base * Upto(t, base)[i - 1] + FigureValue(t[i])
    BY <2>1, UptoNext, Zenon
  <2> QED
    BY <2>1, <2>2, Zenon
<1>3. Upto(t, base)[0 + n] = Upto(s, base)[n]
  <2>1. Len(s) = n /\ Len(s) \in Nat /\ Len(t) \in Nat /\ 0 \in Nat /\ n <= Len(s) /\ 0 + n <= Len(t) /\ n \in 0 .. n
    BY <1>1 DEF n
  <2>2. \A j \in 1 .. n : t[0 + j] = s[j]
    BY <1>1
  <2>3. \A j \in 0 .. n : Upto(t, base)[0 + j] = Upto(s, base)[j]
    <3>1. n \in Nat /\ Upto(t, base)[0] = 0
      BY <1>1, <1>2
    <3>2. Behind(s, t, base, 0, n)
      BY <2>1, <2>2, <3>1 DEF Behind
    <3> QED
      BY <3>2, UptoShifted
  <2> QED
    BY <2>1, <2>3
<1>4. (n + 1) - 1 = 0 + n
  BY <1>1
<1> QED
  BY <1>1, <1>2, <1>3, <1>4, ReadAsIs DEF t, n

\* itoa's digits denote the number.
LEMMA DigitsDenote ==
  ASSUME NEW base \in {10, 16}
  PROVE  \A n \in Nat : ReadAs(Digits(n, base), base) = n
<1> DEFINE T == {n \in Nat : ReadAs(Digits(n, base), base) # n}
<1> SUFFICES ASSUME T # {} PROVE FALSE
  OBVIOUS
<1>1. PICK x \in T : \A y \in T : x <= y
  BY Least
<1>2. x \in Nat /\ ReadAs(Digits(x, base), base) # x
  BY <1>1
<1>3. CASE x < base
  <2> DEFINE s == Digits(x, base)
  <2>1. s = <<Figures[x + 1]>>
    BY <1>2, <1>3, DigitsNext
  <2>2. Len(s) = 1 /\ s[1] = Figures[x + 1] /\ FigureValue(Figures[x + 1]) = x
    BY <1>2, <1>3, <2>1, FigureIs
  <2> HIDE DEF s
  <2>3. Upto(s, base)[0] = 0 /\ Upto(s, base)[1] = base * Upto(s, base)[1 - 1] + FigureValue(s[1])
    <3>1. Len(s) \in Nat /\ 1 \in 1 .. Len(s)
      BY <2>2
    <3> QED
      BY <3>1, UptoNext
  <2>4. Upto(s, base)[1] = x
    BY <1>2, <2>2, <2>3
  <2>5. ReadAs(s, base) = x
    BY <2>2, <2>4, ReadAsIs
  <2> QED
    BY <1>2, <2>5 DEF s
<1>4. CASE x >= base
  <2> DEFINE q == x \div base
             s == Digits(q, base)
             d == Figures[(x % base) + 1]
  <2>1. q \in Nat /\ q < x /\ x = base * q + (x % base)
    BY <1>2, <1>4, Divide
  <2>2. s \in Seq(FigureSet)
    BY <2>1, DigitsNext
  <2>3. d \in FigureSet /\ FigureValue(d) = x % base
    BY <1>2, Divide, FigureIs
  <2>4. Digits(x, base) = Append(s, d)
    BY <1>2, <1>4, DigitsNext
  <2>5. ReadAs(s, base) = q
    <3>1. q \notin T
      BY <1>1, <1>2, <2>1
    <3> QED
      BY <2>1, <3>1
  <2> HIDE DEF s, d, q
  <2>6. ReadAs(Append(s, d), base) = base * q + (x % base)
    BY <2>2, <2>3, <2>5, ReadAsNext
  <2> QED
    BY <1>2, <2>1, <2>4, <2>6
<1> QED
  BY <1>2, <1>3, <1>4

(***************************************************************************)
(* Strings in buf.                                                         *)
(***************************************************************************)
Buffers == [0 .. BufLen - 1 -> {NUL} \union FigureSet]

LEMMA StrlenIs ==
  ASSUME NEW b \in Buffers, NEW n \in 0 .. BufLen - 1, b[n] = NUL, \A i \in 0 .. n - 1 : b[i] # NUL
  PROVE  strlen(b) = n
<1>1. DOMAIN b = 0 .. BufLen - 1 /\ BufLen \in Nat
  BY PrintfAssumption DEF Buffers
<1>2. ASSUME NEW m \in DOMAIN b, b[m] = NUL, \A i \in 0 .. m - 1 : b[i] # NUL PROVE m = n
  <2>1. m \in Nat /\ n \in Nat
    BY <1>1
  <2>2. ~ (m < n)
    BY <1>2, <2>1
  <2>3. ~ (n < m)
    BY <1>2, <2>1
  <2> QED
    BY <2>1, <2>2, <2>3
<1> QED
  BY <1>1, <1>2 DEF strlen

LEMMA StrlenStops ==
  ASSUME NEW b \in Buffers, NEW m \in 0 .. BufLen - 1, b[m] = NUL
  PROVE  /\ strlen(b) \in 0 .. m /\ b[strlen(b)] = NUL
         /\ \A i \in 0 .. strlen(b) - 1 : b[i] # NUL
<1> DEFINE T == {i \in Nat : i <= m /\ b[i] = NUL}
<1>1. m \in T /\ m \in Nat /\ BufLen \in Nat
  BY PrintfAssumption
<1>2. PICK n \in T : \A y \in T : n <= y
  BY <1>1, Least
<1>3. n \in 0 .. m /\ n \in 0 .. BufLen - 1 /\ b[n] = NUL
  BY <1>1, <1>2
<1>4. ASSUME NEW i \in 0 .. n - 1 PROVE b[i] # NUL
  <2>1. i \in Nat /\ i < n /\ i <= m
    BY <1>1, <1>3
  <2>2. i \notin T
    BY <1>2, <1>3, <2>1
  <2> QED
    BY <2>1, <2>2
<1>5. strlen(b) = n
  BY <1>3, <1>4, StrlenIs
<1> QED
  BY <1>3, <1>4, <1>5

LEMMA StoredIs ==
  ASSUME NEW b \in Buffers, NEW s \in Seq(FigureSet), Len(s) < BufLen
  PROVE  /\ Stored(b, s) \in Buffers
         /\ \A i \in 1 .. Len(s) : Stored(b, s)[i - 1] = s[i]
         /\ \A i \in 0 .. Len(s) - 1 : Stored(b, s)[i] = s[i + 1] /\ Stored(b, s)[i] \in FigureSet
         /\ Stored(b, s)[Len(s)] = NUL
         /\ \A i \in Len(s) + 1 .. BufLen - 1 : Stored(b, s)[i] = b[i]
         /\ strlen(Stored(b, s)) = Len(s)
<1> DEFINE w == Stored(b, s)
           n == Len(s)
<1>1. DOMAIN b = 0 .. BufLen - 1 /\ BufLen \in Nat /\ n \in Nat /\ n < BufLen
  BY PrintfAssumption DEF Buffers
<1>2. w = [i \in 0 .. BufLen - 1 |-> IF i < n THEN s[i + 1] ELSE IF i = n THEN NUL ELSE b[i]]
  BY <1>1 DEF Stored
<1>3. \A i \in 1 .. n : s[i] \in FigureSet
  OBVIOUS
<1> HIDE DEF w, n
<1>4. \A i \in 0 .. n - 1 : w[i] = s[i + 1] /\ w[i] \in FigureSet
  BY <1>1, <1>2, <1>3
<1>5. w[n] = NUL /\ \A i \in n + 1 .. BufLen - 1 : w[i] = b[i]
  BY <1>1, <1>2
<1>6. w \in Buffers
  <2>1. ASSUME NEW i \in 0 .. BufLen - 1 PROVE w[i] \in {NUL} \union FigureSet
    <3>1. b[i] \in {NUL} \union FigureSet
      BY DEF Buffers
    <3>2. i < n => i \in 0 .. n - 1
      BY <1>1
    <3> QED
      BY <1>2, <1>4, <3>1, <3>2
  <2> QED
    BY <1>2, <2>1 DEF Buffers
<1>7. strlen(w) = n
  <2>1. \A i \in 0 .. n - 1 : w[i] # NUL
    BY <1>4, FigureIs
  <2> QED
    BY <1>1, <1>5, <1>6, <2>1, StrlenIs
<1>8. \A i \in 1 .. n : w[i - 1] = s[i]
  <2> SUFFICES ASSUME NEW i \in 1 .. n PROVE w[i - 1] = s[i]
    OBVIOUS
  <2>1. i - 1 \in 0 .. n - 1 /\ (i - 1) + 1 = i
    BY <1>1
  <2> QED
    BY <1>4, <2>1
<1> QED
  BY <1>4, <1>5, <1>6, <1>7, <1>8 DEF w, n

Printed(b) == [i \in 1 .. strlen(b) |-> b[i - 1]]

LEMMA PrintedIs ==
  ASSUME NEW b \in Buffers, NEW m \in 0 .. BufLen - 1, b[m] = NUL
  PROVE  Printed(b) \in Seq(FigureSet) /\ Len(Printed(b)) = strlen(b)
<1> DEFINE n == strlen(b)
<1>1. n \in 0 .. m /\ (\A i \in 0 .. n - 1 : b[i] # NUL) /\ m \in Nat /\ m < BufLen /\ BufLen \in Nat
  BY StrlenStops, PrintfAssumption
<1> HIDE DEF n
<1>2. \A i \in 0 .. BufLen - 1 : b[i] \in {NUL} \union FigureSet
  BY DEF Buffers
<1>3. ASSUME NEW i \in 1 .. n PROVE b[i - 1] \in FigureSet
  <2>1. i - 1 \in 0 .. n - 1 /\ i - 1 \in 0 .. BufLen - 1
    BY <1>1
  <2> QED
    BY <1>1, <1>2, <2>1
<1> QED
  BY <1>1, <1>3 DEF Printed, n

(***************************************************************************)
(* One number, at least field digits long, in a buf that is 0 from the     *)
(* longest on.                                                             *)
(***************************************************************************)
Filled(w, field) == IF strlen(w) < field THEN ZeroFill(w, strlen(w), field) ELSE w

LEMMA UnfilledIs ==
  ASSUME NEW b \in Buffers, NEW base \in {10, 16}, NEW n \in Nat, Len(Digits(n, base)) < BufLen,
         NEW field \in Nat, field <= Len(Digits(n, base))
  PROVE  LET w == itoa(b, n, base) IN
         /\ strlen(w) = Len(Digits(n, base)) /\ Filled(w, field) = w
         /\ Printed(w) = Digits(n, base)
<1> DEFINE s == Digits(n, base)
           w == Stored(b, s)
<1>1. itoa(b, n, base) = w
  BY DEF itoa, Digits
<1>2. s \in Seq(FigureSet)
  BY DigitsNext
<1>3. w \in Buffers /\ strlen(w) = Len(s) /\ \A i \in 1 .. Len(s) : w[i - 1] = s[i]
  BY <1>2, StoredIs
<1> HIDE DEF w, s
<1>4. Filled(w, field) = w
  BY <1>2, <1>3 DEF Filled, s
<1>5. Printed(w) = s
  BY <1>2, <1>3 DEF Printed
<1> QED
  BY <1>1, <1>3, <1>4, <1>5 DEF s

LEMMA FilledIs ==
  ASSUME NEW w \in Buffers, NEW n \in Nat, NEW field \in 0 .. BufLen - 1, n < field,
         strlen(w) = n, \A i \in 0 .. n - 1 : w[i] \in FigureSet
  PROVE  LET filled == Filled(w, field) IN
         /\ filled \in Buffers
         /\ \A i \in 0 .. field - 1 : filled[i] \in FigureSet
         /\ \A i \in field .. BufLen - 1 : filled[i] = w[i]
         /\ \A i \in 1 .. field - n : filled[i - 1] = "0"
         /\ \A i \in 1 .. n : filled[(field - n) + i - 1] = w[i - 1]
<1> DEFINE z == field - n
           f == ZeroFill(w, n, field)
<1>1. DOMAIN w = 0 .. BufLen - 1 /\ BufLen \in Nat /\ field \in Nat /\ field < BufLen
  BY PrintfAssumption DEF Buffers
<1>2. z \in Nat /\ z >= 1 /\ z + n = field
  BY <1>1
<1>3. f = [i \in 0 .. BufLen - 1 |-> IF i >= field THEN w[i] ELSE IF i < z THEN "0" ELSE w[i - z]]
  BY <1>1 DEF ZeroFill
<1>4. Filled(w, field) = f
  BY DEF Filled
<1> HIDE DEF z, f
<1>5. "0" \in FigureSet
  BY FigureIs
<1>6. ASSUME NEW i \in 0 .. field - 1 PROVE f[i] \in FigureSet
  <2>1. i \in 0 .. BufLen - 1 /\ ~ (i >= field)
    BY <1>1
  <2>2. CASE i < z
    BY <1>3, <1>5, <2>1, <2>2
  <2>3. CASE ~ (i < z)
    <3>1. i - z \in 0 .. n - 1
      BY <1>1, <1>2, <2>3
    <3> QED
      BY <1>3, <2>1, <2>3, <3>1
  <2> QED
    BY <2>2, <2>3
<1>7. \A i \in field .. BufLen - 1 : f[i] = w[i]
  BY <1>1, <1>3
<1>8. \A i \in 1 .. z : f[i - 1] = "0"
  <2> SUFFICES ASSUME NEW i \in 1 .. z PROVE f[i - 1] = "0"
    OBVIOUS
  <2>1. i - 1 \in 0 .. BufLen - 1 /\ i - 1 < z /\ ~ (i - 1 >= field)
    BY <1>1, <1>2
  <2> QED
    BY <1>3, <2>1
<1>9. ASSUME NEW i \in 1 .. n PROVE f[z + (i - 1)] = w[i - 1]
  <2>1. /\ z + (i - 1) \in 0 .. BufLen - 1 /\ ~ (z + (i - 1) < z) /\ ~ (z + (i - 1) >= field)
        /\ (z + (i - 1)) - z = i - 1
    BY <1>1, <1>2
  <2> QED
    BY <1>3, <2>1
<1>10. f \in Buffers
  <2>1. ASSUME NEW i \in 0 .. BufLen - 1 PROVE f[i] \in {NUL} \union FigureSet
    <3>1. CASE i < field
      BY <1>1, <1>6, <3>1
    <3>2. CASE ~ (i < field)
      <4>1. i \in field .. BufLen - 1 /\ w[i] \in {NUL} \union FigureSet
        BY <1>1, <3>2 DEF Buffers
      <4> QED
        BY <1>7, <4>1
    <3> QED
      BY <3>1, <3>2
  <2> QED
    BY <1>3, <2>1 DEF Buffers
<1>11. \A i \in 1 .. n : f[(field - n) + i - 1] = w[i - 1]
  BY <1>9 DEF z
<1> QED
  BY <1>4, <1>6, <1>7, <1>8, <1>10, <1>11 DEF z

\* The buffer after a number, whatever was printed before it.
WrittenInField(b, base, n, field, most) ==
    LET w == Filled(itoa(b, n, base), field)
        t == Printed(w)
        d == Digits(n, base)
    IN  /\ strlen(itoa(b, n, base)) = Len(d)
        /\ w \in Buffers /\ t \in Seq(FigureSet) /\ Len(t) = strlen(w) /\ Len(t) \in 0 .. BufLen - 1
        /\ Len(t) <= Len(d) \/ Len(t) <= field \/ Len(t) <= most
        /\ \A i \in 0 .. BufLen - 1 : i >= most /\ i >= Len(t) => w[i] = NUL
        /\ field <= Len(d) => t = d
        /\ Len(d) < field => Len(t) >= field /\ ReadAs(SubSeq(t, 1, field), base) = ReadAs(d, base)

LEMMA NumberWritten ==
  ASSUME NEW b \in Buffers, NEW base \in {10, 16}, NEW n \in Nat, Len(Digits(n, base)) < BufLen,
         NEW field \in 0 .. BufLen - 1, NEW most \in 0 .. BufLen - 1,
         \A i \in most .. BufLen - 1 : b[i] = NUL
  PROVE  WrittenInField(b, base, n, field, most)
<1> DEFINE s == Digits(n, base)
           v == Stored(b, s)
           k == Len(s)
           w == Filled(v, field)
           t == Printed(w)
<1>1. itoa(b, n, base) = v
  BY DEF itoa, Digits
<1>2. s \in Seq(FigureSet) /\ k \in Nat /\ k >= 1 /\ k < BufLen /\ BufLen \in Nat
  <2>1. s \in Seq(FigureSet) /\ k >= 1 /\ BufLen \in Nat
    BY DigitsNext, PrintfAssumption
  <2> QED
    BY <2>1
<1>3. field \in Nat /\ field < BufLen /\ most \in Nat /\ most < BufLen
  BY <1>2
<1>4. /\ v \in Buffers /\ strlen(v) = k
      /\ \A i \in 1 .. k : v[i - 1] = s[i]
      /\ \A i \in 0 .. k - 1 : v[i] \in FigureSet
      /\ v[k] = NUL
      /\ \A i \in k + 1 .. BufLen - 1 : v[i] = b[i]
  BY <1>2, StoredIs
<1>5. \A i \in 0 .. BufLen - 1 : i >= most /\ i >= k => v[i] = NUL
  <2> SUFFICES ASSUME NEW i \in 0 .. BufLen - 1, i >= most, i >= k PROVE v[i] = NUL
    OBVIOUS
  <2>1. i \in most .. BufLen - 1 /\ (i = k \/ i \in k + 1 .. BufLen - 1)
    BY <1>2, <1>3
  <2> QED
    BY <1>4, <2>1
<1>6. CASE field <= k
  <2>1. w = v /\ t = s
    <3>1. itoa(b, n, base) = v /\ Filled(itoa(b, n, base), field) = itoa(b, n, base)
          /\ Printed(itoa(b, n, base)) = s
      BY <1>1, <1>2, <1>3, <1>6, UnfilledIs
    <3> QED
      BY <3>1
  <2> HIDE DEF v, s, w, t
  <2>2. k \in 0 .. BufLen - 1 /\ ~ (k < field)
    BY <1>2, <1>3, <1>6
  <2>3. t \in Seq(FigureSet) /\ Len(t) = strlen(w) /\ Len(t) = k
    BY <1>2, <1>4, <2>1
  <2>4. \A i \in 0 .. BufLen - 1 : i >= most /\ i >= Len(t) => w[i] = NUL
    BY <1>5, <2>1, <2>3
  <2> QED
    BY <1>1, <1>4, <2>1, <2>2, <2>3, <2>4 DEF w, t, s, WrittenInField
<1>7. CASE k < field
  <2> HIDE DEF v, s, k
  <2>1. /\ w \in Buffers
        /\ \A i \in 0 .. field - 1 : w[i] \in FigureSet
        /\ \A i \in field .. BufLen - 1 : w[i] = v[i]
        /\ \A i \in 1 .. field - k : w[i - 1] = "0"
        /\ \A i \in 1 .. k : w[(field - k) + i - 1] = v[i - 1]
    BY <1>2, <1>4, <1>7, FilledIs
  <2> HIDE DEF w
  <2> DEFINE m == IF field < most THEN most ELSE field
  <2>2. m \in 0 .. BufLen - 1 /\ m >= most /\ m >= field
    BY <1>2, <1>3
  <2>3. w[m] = NUL
    <3>1. m \in field .. BufLen - 1 /\ m >= k
      BY <1>2, <1>3, <1>7, <2>2
    <3> QED
      BY <1>5, <2>1, <2>2, <3>1
  <2> HIDE DEF m
  <2>4. /\ strlen(w) \in 0 .. m /\ w[strlen(w)] = NUL
        /\ t \in Seq(FigureSet) /\ Len(t) = strlen(w)
    BY <2>1, <2>2, <2>3, StrlenStops, PrintedIs
  <2>5. strlen(w) >= field /\ strlen(w) \in 0 .. BufLen - 1
    <3>1. strlen(w) \in Nat /\ strlen(w) <= m /\ m \in Nat /\ m < BufLen
      BY <1>2, <2>2, <2>4
    <3>2. ASSUME strlen(w) < field PROVE FALSE
      <4>1. strlen(w) \in 0 .. field - 1
        BY <1>3, <3>1, <3>2
      <4> QED
        BY <2>1, <2>4, <4>1, FigureIs
    <3> QED
      BY <1>2, <1>3, <3>1, <3>2
  <2>6. Len(t) <= field \/ Len(t) <= most
    BY <1>3, <2>2, <2>4 DEF m
  <2>7. \A i \in 0 .. BufLen - 1 : i >= most /\ i >= Len(t) => w[i] = NUL
    <3> SUFFICES ASSUME NEW i \in 0 .. BufLen - 1, i >= most, i >= Len(t) PROVE w[i] = NUL
      OBVIOUS
    <3>1. i \in field .. BufLen - 1 /\ i >= k
      BY <1>2, <1>3, <1>7, <2>4, <2>5
    <3> QED
      BY <1>5, <2>1, <3>1
  <2>8. Len(t) >= field /\ ReadAs(SubSeq(t, 1, field), base) = ReadAs(s, base)
    <3>1. Len(t) >= field /\ Len(t) \in Nat
      BY <1>3, <2>4, <2>5
    <3> DEFINE u == SubSeq(t, 1, field)
    <3>2. u = [i \in 1 .. field |-> w[i - 1]] /\ u \in Seq(FigureSet) /\ Len(u) = field
      <4>1. t = [i \in 1 .. Len(t) |-> w[i - 1]]
        BY <2>4 DEF Printed
      <4> HIDE DEF t
      <4>2. u = [i \in 1 .. field |-> t[i]]
        BY <1>3, <2>4, <3>1
      <4>3. \A i \in 1 .. field : i \in 1 .. Len(t) /\ t[i] = w[i - 1] /\ t[i] \in FigureSet
        BY <1>3, <2>4, <3>1, <4>1
      <4> QED
        BY <1>3, <4>2, <4>3
    <3> HIDE DEF t, u
    <3> DEFINE z == field - k
    <3>3. z \in Nat /\ field = z + k
      BY <1>2, <1>3, <1>7
    <3>4. \A i \in 1 .. z : u[i] = "0"
      <4> SUFFICES ASSUME NEW i \in 1 .. z PROVE u[i] = "0"
        OBVIOUS
      <4>1. i \in 1 .. field
        BY <1>2, <1>3, <3>3
      <4> QED
        BY <2>1, <3>2, <4>1
    <3>5. \A j \in 1 .. k : u[z + j] = s[j]
      <4> SUFFICES ASSUME NEW j \in 1 .. k PROVE u[z + j] = s[j]
        OBVIOUS
      <4>1. z + j \in 1 .. field
        BY <1>2, <1>3, <3>3
      <4>2. u[z + j] = w[(z + j) - 1]
        BY <3>2, <4>1
      <4>3. w[(field - k) + j - 1] = v[j - 1]
        BY <2>1
      <4>4. (z + j) - 1 = (field - k) + j - 1
        BY <1>2, <1>3
      <4> QED
        BY <1>4, <4>2, <4>3, <4>4
    <3> HIDE DEF z
    <3>6. Len(s) = k /\ Len(s) \in Nat /\ Len(u) \in Nat /\ Len(u) = z + Len(s)
      BY <1>2, <1>3, <3>2, <3>3 DEF k
    <3>7. \A j \in 1 .. Len(s) : u[z + j] = s[j]
      BY <3>5, <3>6
    <3>8. ReadAs(u, base) = ReadAs(s, base)
      BY <3>3, <3>4, <3>6, <3>7, ReadAsFilled
    <3> QED
      BY <3>1, <3>8 DEF u
  <2>9. ~ (field <= k)
    BY <1>2, <1>3, <1>7
  <2>10. Len(t) \in 0 .. BufLen - 1
    BY <2>4, <2>5
  <2> QED
    BY <1>1, <1>4, <2>1, <2>4, <2>6, <2>7, <2>8, <2>9, <2>10 DEF s, k, w, t, WrittenInField
<1> QED
  BY <1>2, <1>3, <1>6, <1>7

(***************************************************************************)
(* The inductive invariant.                                                *)
(***************************************************************************)
Arguments == IntArgs \union TextArgs

PrintfIInv ==
    /\ PlainCall
    /\ args \in Seq(Arguments)
    /\ ~size_override => args = <<>>
    /\ size_override => \E width \in Widths : size = atoi(width)

LEMMA ArgumentsTaken ==
  ASSUME NEW arg \in Arguments, args \in Seq(Arguments)
  PROVE  /\ NextArg(arg) \in Arguments
         /\ Append(args, arg) \in Seq(Arguments) /\ Tail(Append(args, arg)) \in Seq(Arguments)
         /\ args = <<>> => NextArg(arg) = arg /\ Tail(Append(args, arg)) = <<>>
<1> DEFINE a == Append(args, arg)
<1>1. a \in Seq(Arguments) /\ Len(a) >= 1 /\ a # <<>>
  OBVIOUS
<1>2. a[1] \in Arguments
  BY <1>1
<1>3. Head(a) \in Arguments /\ Tail(a) \in Seq(Arguments)
  BY <1>1, <1>2
<1>4. args = <<>> => Head(a) = arg /\ Tail(a) = <<>>
  OBVIOUS
<1> QED
  BY <1>1, <1>3, <1>4 DEF NextArg

LEMMA ArgumentIs ==
  ASSUME NEW a \in Arguments
  PROVE  /\ a.int \in BOOLEAN
         /\ a.int => a.value \in Ints
<1>1. CASE a \in IntArgs
  <2>1. PICK n \in Ints : a = [int |-> TRUE, value |-> n]
    BY <1>1 DEF IntArgs
  <2> QED
    BY <2>1
<1>2. CASE a \in TextArgs
  <2>1. PICK s \in Texts : a = [int |-> FALSE, value |-> s]
    BY <1>2 DEF TextArgs
  <2> QED
    BY <2>1
<1> QED
  BY <1>1, <1>2 DEF Arguments

LEMMA Remainder ==
  ASSUME NEW m \in Nat, m > 0, NEW n \in Int
  PROVE  n % m \in 0 .. m - 1 /\ (n \in 0 .. m - 1 => n % m = n)
  OBVIOUS

LEMMA MagnitudeIs ==
  ASSUME NEW c, NEW n \in Ints
  PROVE  /\ Magnitude(c, n) \in Nat /\ Magnitude(c, n) \in 0 .. 2 * Half - 1
         /\ c = "d" /\ n < 0 => Magnitude(c, n) = -n
         /\ ~ (c = "d" /\ n < 0) => Magnitude(c, n) = Unsigned(n)
<1>1. Half \in Nat /\ Half > 0 /\ n \in Int /\ -Half <= n /\ n < Half
  BY PrintfAssumption
<1>2. 2 * Half \in Nat /\ 2 * Half > 0
  BY <1>1
<1>3. n % (2 * Half) \in 0 .. 2 * Half - 1 /\ (-n) % (2 * Half) \in 0 .. 2 * Half - 1
  BY <1>1, <1>2, Remainder
<1>4. n < 0 => (-n) % (2 * Half) = -n
  BY <1>1, <1>2, Remainder
<1> QED
  BY <1>3, <1>4 DEF Magnitude, Unsigned

LEMMA DigitsFit ==
  ASSUME NEW base \in {10, 16}, NEW n \in 0 .. 2 * Half - 1
  PROVE  /\ Len(Digits(n, base)) \in Nat /\ Len(Digits(n, base)) >= 1
         /\ Len(Digits(n, base)) <= MostDigits
         /\ MostDigits \in Nat /\ MostDigits < BufLen
<1>1. 2 * Half - 1 \in Nat /\ n \in Nat
  BY PrintfAssumption
<1>2. Len(Produced(n, base)) <= Len(Produced(2 * Half - 1, 10))
  BY <1>1, NoMoreDigits
<1>3. Len(Produced(2 * Half - 1, 10)) \in Nat /\ Len(Produced(n, base)) \in Nat /\ Len(Produced(n, base)) >= 1
  BY <1>1, ProducedDigits
<1>4. Len(Digits(n, base)) = Len(Produced(n, base))
  BY <1>1, DigitsNext
<1> QED
  BY <1>2, <1>3, <1>4, PrintfAssumption DEF MostDigits

LEMMA LongestFits ==
  ASSUME BufEnds
  PROVE  /\ longest \in 0 .. BufLen - 1 /\ buf \in Buffers
         /\ \A i \in longest .. BufLen - 1 : buf[i] = NUL
<1>1. MostDigits \in Nat /\ MostDigits < BufLen /\ BufLen \in Nat
  <2>1. 0 \in 0 .. 2 * Half - 1
    BY PrintfAssumption
  <2> QED
    BY <2>1, DigitsFit, PrintfAssumption
<1>2. longest \in Nat /\ (longest <= MostDigits \/ \E width \in Widths : longest <= atoi(width))
  BY DEF BufEnds, WithinLongest
<1>3. longest < BufLen
  <2>1. CASE longest <= MostDigits
    BY <1>1, <1>2, <2>1
  <2>2. CASE \E width \in Widths : longest <= atoi(width)
    <3>1. PICK width \in Widths : longest <= atoi(width)
      BY <2>2
    <3>2. atoi(width) \in 0 .. BufLen - 1
      BY PrintfAssumption
    <3> QED
      BY <1>1, <1>2, <3>1, <3>2
  <2> QED
    BY <1>2, <2>1, <2>2
<1> QED
  BY <1>1, <1>2, <1>3, FigureIs DEF BufEnds, Buffers

LEMMA DenotesIs ==
  ASSUME NEW c \in {"d", "x", "p"}, NEW n \in Ints, NEW t \in Seq(FigureSet), NEW width \in Nat,
         Len(t) >= width,
         Len(t) > (IF width > 1 THEN width ELSE 1) => t[1] # "0",
         ReadAs(t, Base(c)) = Magnitude(c, n)
  PROVE  Denotes((IF c = "d" /\ n < 0 THEN <<"-">> ELSE <<>>) \o t, c, n, width)
<1>1. CASE c = "d" /\ n < 0
  <2> DEFINE u == <<"-">> \o t
  <2>1. u[1] = "-" /\ Tail(u) = t
    OBVIOUS
  <2>2. Magnitude(c, n) = -n
    BY <1>1, MagnitudeIs
  <2> HIDE DEF u
  <2>3. Denotes(u, c, n, width)
    BY <1>1, <2>1, <2>2 DEF Denotes
  <2> QED
    BY <1>1, <2>3 DEF u
<1>2. CASE ~ (c = "d" /\ n < 0)
  <2>1. <<>> \o t = t
    OBVIOUS
  <2>2. Magnitude(c, n) = Unsigned(n)
    BY <1>2, MagnitudeIs
  <2>3. Denotes(t, c, n, width)
    BY <1>2, <2>2 DEF Denotes
  <2> QED
    BY <1>2, <2>1, <2>3
<1> QED
  BY <1>1, <1>2

(***************************************************************************)
(* The items.                                                              *)
(***************************************************************************)
Sign(c, n) == IF c = "d" /\ n < 0 THEN <<"-">> ELSE <<>>

\* n comes first, and something behind it only if there were more than field digits.
BeginsWith(text, c, n, field, most) ==
    \E k \in 1 .. Len(text) :
        Denotes(SubSeq(text, 1, k), c, n, field) /\ (k < Len(text) => field < most)

CharSet == FigureSet \union {"-"}

LEMMA SignIs == \A c, n : \A t \in Seq(FigureSet) :
    t \in Seq(CharSet) /\ Sign(c, n) \in Seq(CharSet) /\ Len(Sign(c, n)) \in {0, 1}
<1> SUFFICES ASSUME NEW c, NEW n, NEW t \in Seq(FigureSet)
             PROVE  t \in Seq(CharSet) /\ Sign(c, n) \in Seq(CharSet) /\ Len(Sign(c, n)) \in {0, 1}
  OBVIOUS
<1>1. "-" \in CharSet /\ FigureSet \subseteq CharSet
  BY DEF CharSet
<1> HIDE DEF CharSet
<1>2. t \in Seq(CharSet)
  <2>1. \A i \in 1 .. Len(t) : t[i] \in CharSet
    BY <1>1
  <2> QED
    BY <2>1
<1>3. <<"-">> \in Seq(CharSet) /\ <<>> \in Seq(CharSet) /\ Len(<<"-">>) = 1
  BY <1>1
<1> QED
  BY <1>2, <1>3 DEF Sign

LEMMA WholeText ==
  ASSUME NEW text \in Seq(CharSet), Len(text) >= 1
  PROVE  Len(text) \in 1 .. Len(text) /\ SubSeq(text, 1, Len(text)) = text
  OBVIOUS

\* A sign and the first digits of t are the first of both together.
LEMMA SignAndField ==
  ASSUME NEW c, NEW n, NEW t \in Seq(CharSet), NEW field \in Nat, 1 <= field, field <= Len(t)
  PROVE  \E k \in 1 .. Len(Sign(c, n) \o t) :
           /\ SubSeq(Sign(c, n) \o t, 1, k) = Sign(c, n) \o SubSeq(t, 1, field)
           /\ k < Len(Sign(c, n) \o t) => field < Len(t)
<1>1. CASE Sign(c, n) = <<>>
  <2>1. Sign(c, n) \o t = t /\ Sign(c, n) \o SubSeq(t, 1, field) = SubSeq(t, 1, field)
    BY <1>1
  <2>2. field \in 1 .. Len(t)
    OBVIOUS
  <2> QED
    BY <2>1, <2>2
<1>2. CASE Sign(c, n) = <<"-">>
  <2> DEFINE u == <<"-">> \o t
             v == <<"-">> \o SubSeq(t, 1, field)
             x == SubSeq(t, 1, field)
  <2>0. <<"-">> \in Seq(CharSet) /\ Len(<<"-">>) = 1 /\ <<"-">>[1] = "-"
    BY DEF CharSet
  <2>5. x \in Seq(CharSet) /\ Len(x) = field /\ \A i \in 1 .. field : x[i] = t[i]
    OBVIOUS
  <2> HIDE DEF x
  <2>1. /\ Len(u) = Len(t) + 1 /\ u \in Seq(CharSet) /\ field + 1 \in 1 .. Len(u)
        /\ u[1] = "-" /\ \A i \in 2 .. Len(t) + 1 : u[i] = t[i - 1]
    BY <2>0
  <2>2. /\ Len(v) = field + 1 /\ v \in Seq(CharSet)
        /\ v[1] = "-" /\ \A i \in 2 .. field + 1 : v[i] = x[i - 1]
    BY <2>0, <2>5 DEF x
  <2>3. \A i \in 1 .. field + 1 : u[i] = v[i]
    <3> SUFFICES ASSUME NEW i \in 1 .. field + 1 PROVE u[i] = v[i]
      OBVIOUS
    <3>1. CASE i = 1
      BY <2>1, <2>2, <3>1
    <3>2. CASE i # 1
      <4>1. i \in 2 .. field + 1 /\ i \in 2 .. Len(t) + 1 /\ i - 1 \in 1 .. field
        BY <3>2
      <4> QED
        BY <2>1, <2>2, <2>5, <4>1
    <3> QED
      BY <3>1, <3>2
  <2> HIDE DEF u, v
  <2>4. SubSeq(u, 1, field + 1) = v
    BY <2>1, <2>2, <2>3
  <2>6. field + 1 < Len(u) => field < Len(t)
    BY <2>1
  <2> QED
    BY <1>2, <2>1, <2>4, <2>6 DEF u, v
<1> QED
  BY <1>1, <1>2 DEF Sign

\* What %d, %x and %p do, in every state of the call.
Prints(c, arg, t) ==
    LET n == NextArg(arg).value
        d == Digits(Magnitude(c, n), Base(c))
        field == Field(Len(d))
    IN  /\ NextArg(arg).int /\ n \in Ints
        /\ item' = [letter |-> c, arg |-> arg]
        /\ args' = Tail(Append(args, arg))
        /\ items < MaxItems /\ items' = items + 1
        /\ size_override' = size_override /\ size' = field
        /\ field \in 0 .. BufLen - 1
        /\ buf' \in Buffers
        /\ t \in Seq(FigureSet) /\ Len(t) \in 0 .. BufLen - 1
        /\ out' = Sign(c, n) \o t
        /\ longest' = IF Len(t) > longest THEN Len(t) ELSE longest
        /\ Len(t) <= Len(d) \/ Len(t) <= field \/ Len(t) <= longest
        /\ \A i \in 0 .. BufLen - 1 : i >= longest /\ i >= Len(t) => buf'[i] = NUL
        /\ BeginsWith(out', c, n, field, longest)
        /\ field <= Len(d) => Len(out') >= 1 /\ Denotes(out', c, n, 0)

LEMMA NumberPrints ==
  ASSUME PrintfIInv, Number
  PROVE  \E c \in {"d", "x", "p"}, arg \in IntArgs, t \in Seq(FigureSet) : Prints(c, arg, t)
<1>1. PICK c \in {"d", "x", "p"}, arg \in IntArgs :
        LET ival == NextArg(arg).value
            written == itoa(buf, Magnitude(c, ival), IF c = "d" THEN 10 ELSE 16)
            len == strlen(written)
            field == Field(len)
            filled == IF len < field THEN ZeroFill(written, len, field) ELSE written
            text == [i \in 1 .. strlen(filled) |-> filled[i - 1]]
        IN  /\ NextArg(arg).int
            /\ Item(c, arg, TRUE)
            /\ buf' = filled
            /\ size' = field
            /\ out' = (IF c = "d" /\ ival < 0 THEN <<"-">> ELSE <<>>) \o text
            /\ longest' = IF Len(text) > longest THEN Len(text) ELSE longest
            /\ UNCHANGED size_override
  BY DEF Number
<1> DEFINE n == NextArg(arg).value
           mag == Magnitude(c, n)
           base == Base(c)
           d == Digits(mag, base)
           written == itoa(buf, mag, base)
           field == Field(strlen(written))
           filled == Filled(written, field)
           t == Printed(filled)
<1>2. /\ NextArg(arg).int /\ Item(c, arg, TRUE) /\ buf' = filled /\ size' = field
      /\ out' = Sign(c, n) \o t
      /\ longest' = IF Len(t) > longest THEN Len(t) ELSE longest
      /\ size_override' = size_override
  BY <1>1 DEF Filled, Printed, Base, Sign
<1>3. arg \in Arguments /\ args \in Seq(Arguments) /\ PlainCall
  BY DEF Arguments, PrintfIInv
<1>4. n \in Ints
  <2>1. NextArg(arg) \in Arguments
    BY <1>3, ArgumentsTaken
  <2> QED
    BY <1>2, <2>1, ArgumentIs
<1>5. base \in {10, 16}
  BY DEF Base
<1>6. mag \in Nat /\ mag \in 0 .. 2 * Half - 1
  BY <1>4, MagnitudeIs
<1>7. /\ Len(d) \in Nat /\ Len(d) >= 1 /\ Len(d) <= MostDigits /\ MostDigits \in Nat
      /\ MostDigits < BufLen /\ Len(d) < BufLen /\ BufLen \in Nat
  <2>1. Len(d) \in Nat /\ Len(d) >= 1 /\ Len(d) <= MostDigits /\ MostDigits \in Nat /\ MostDigits < BufLen
    BY <1>5, <1>6, DigitsFit
  <2> QED
    BY <2>1, PrintfAssumption
<1>8. longest \in 0 .. BufLen - 1 /\ buf \in Buffers /\ \A i \in longest .. BufLen - 1 : buf[i] = NUL
  BY <1>3, LongestFits DEF PlainCall
<1> HIDE DEF n, mag, base, d
<1>9. strlen(written) = Len(d)
  <2>1. 0 \in Nat /\ 0 <= Len(Digits(mag, base))
    BY <1>7 DEF d
  <2> QED
    BY <1>5, <1>6, <1>7, <1>8, <2>1, UnfilledIs DEF d
<1>10. field = Field(Len(d)) /\ field \in 0 .. BufLen - 1 /\ field \in Nat
  <2>1. field = Field(Len(d))
    BY <1>9
  <2>2. CASE size_override
    <3>1. PICK width \in Widths : size = atoi(width)
      BY <2>2 DEF PrintfIInv
    <3> QED
      BY <1>7, <2>1, <2>2, <3>1, PrintfAssumption DEF Field
  <2>3. CASE ~size_override
    BY <1>7, <2>1, <2>3 DEF Field
  <2> QED
    BY <2>1, <2>2, <2>3
<1> HIDE DEF field
<1>11. /\ filled \in Buffers /\ t \in Seq(FigureSet) /\ Len(t) \in 0 .. BufLen - 1
       /\ Len(t) <= Len(d) \/ Len(t) <= field \/ Len(t) <= longest
       /\ \A i \in 0 .. BufLen - 1 : i >= longest /\ i >= Len(t) => filled[i] = NUL
       /\ field <= Len(d) => t = d
       /\ Len(d) < field => Len(t) >= field /\ ReadAs(SubSeq(t, 1, field), base) = ReadAs(d, base)
  <2>1. Len(Digits(mag, base)) < BufLen /\ field \in 0 .. BufLen - 1 /\ longest \in 0 .. BufLen - 1
    BY <1>7, <1>8, <1>10 DEF d
  <2>2. filled = Filled(itoa(buf, mag, base), field) /\ t = Printed(filled)
    BY <1>9, <1>10 DEF field
  <2> HIDE DEF filled, t, written
  <2>3. WrittenInField(buf, base, mag, field, longest)
    BY <1>5, <1>6, <1>8, <2>1, NumberWritten
  <2> QED
    BY <2>2, <2>3 DEF d, WrittenInField
<1>12. ReadAs(d, base) = mag /\ (Len(d) > 1 => d[1] # "0") /\ d \in Seq(FigureSet)
  <2>1. ReadAs(d, base) = mag /\ d \in Seq(FigureSet)
    BY <1>5, <1>6, DigitsDenote, DigitsNext DEF d
  <2>2. ASSUME Len(d) > 1 PROVE d[1] # "0"
    <3>1. CASE mag = 0
      <4>1. d = <<Figures[0 + 1]>>
        <5>1. mag \in Nat /\ mag < base /\ mag % base = 0
          BY <1>5, <3>1
        <5> QED
          BY <1>5, <3>1, <5>1, DigitsNext DEF d
      <4> QED
        BY <2>2, <4>1
    <3>2. CASE mag # 0
      BY <1>5, <1>6, <3>2, FirstDigit DEF d
    <3> QED
      BY <3>1, <3>2
  <2> QED
    BY <2>1, <2>2
<1> HIDE DEF filled, t, written
<1>0. t \in Seq(CharSet) /\ out' = Sign(c, n) \o t /\ out' \in Seq(CharSet) /\ Len(t) \in Nat /\ Len(out') >= Len(t)
  <2>1. t \in Seq(CharSet) /\ Sign(c, n) \in Seq(CharSet) /\ out' = Sign(c, n) \o t
    BY <1>2, <1>11, SignIs
  <2> HIDE DEF t
  <2> QED
    BY <2>1
<1>13. BeginsWith(out', c, n, field, longest)
  <2>1. CASE field <= Len(d)
    <3>1. /\ t = d /\ Len(t) >= field /\ ReadAs(t, Base(c)) = Magnitude(c, n)
          /\ Len(t) > (IF field > 1 THEN field ELSE 1) => t[1] # "0"
      BY <1>7, <1>10, <1>11, <1>12, <2>1 DEF mag, base
    <3>2. Denotes(out', c, n, field)
      BY <1>2, <1>4, <1>10, <1>11, <3>1, DenotesIs DEF Sign
    <3>3. Len(out') >= 1
      BY <1>0, <1>7, <3>1
    <3>4. Len(out') \in 1 .. Len(out') /\ SubSeq(out', 1, Len(out')) = out' /\ ~ (Len(out') < Len(out'))
      BY <1>0, <3>3, WholeText
    <3> QED
      BY <3>2, <3>4 DEF BeginsWith
  <2>2. CASE ~ (field <= Len(d))
    <3>1. Len(d) < field /\ field > 1 /\ field <= Len(t)
      BY <1>7, <1>10, <1>11, <2>2
    <3> DEFINE u == SubSeq(t, 1, field)
    <3>2. u \in Seq(FigureSet) /\ Len(u) = field
      BY <1>10, <1>11, <3>1
    <3>3. ReadAs(u, Base(c)) = Magnitude(c, n)
      BY <1>11, <1>12, <3>1 DEF mag, base
    <3> HIDE DEF u
    <3>4. Denotes(Sign(c, n) \o u, c, n, field)
      <4>1. /\ Len(u) >= field
            /\ Len(u) > (IF field > 1 THEN field ELSE 1) => u[1] # "0"
        BY <1>10, <3>1, <3>2
      <4> QED
        BY <1>4, <1>10, <3>2, <3>3, <4>1, DenotesIs DEF Sign
    <3>5. PICK k \in 1 .. Len(out') :
            SubSeq(out', 1, k) = Sign(c, n) \o u /\ (k < Len(out') => field < Len(t))
      <4>1. 1 <= field
        BY <1>10, <3>1
      <4>2. \E k \in 1 .. Len(Sign(c, n) \o t) :
              /\ SubSeq(Sign(c, n) \o t, 1, k) = Sign(c, n) \o SubSeq(t, 1, field)
              /\ k < Len(Sign(c, n) \o t) => field < Len(t)
        BY <1>0, <1>10, <3>1, <4>1, SignAndField
      <4> QED
        BY <1>0, <4>2, Zenon DEF u
    <3>6. field < Len(t) => field < longest
      BY <1>7, <1>8, <1>10, <1>11, <3>1
    <3> QED
      BY <3>4, <3>5, <3>6 DEF BeginsWith
  <2> QED
    BY <2>1, <2>2
<1>14. ASSUME field <= Len(d) PROVE Len(out') >= 1 /\ Denotes(out', c, n, 0)
  <2>1. /\ t = d /\ Len(t) >= 0 /\ ReadAs(t, Base(c)) = Magnitude(c, n)
        /\ Len(t) > (IF 0 > 1 THEN 0 ELSE 1) => t[1] # "0"
    BY <1>7, <1>11, <1>12, <1>14 DEF mag, base
  <2>2. Len(out') >= 1
    BY <1>0, <1>7, <2>1
  <2> QED
    BY <1>2, <1>4, <1>11, <2>1, <2>2, DenotesIs DEF Sign
<1>15. Prints(c, arg, t)
  <2>1. /\ NextArg(arg).int /\ NextArg(arg).value \in Ints
        /\ item' = [letter |-> c, arg |-> arg]
        /\ args' = Tail(Append(args, arg))
        /\ items < MaxItems /\ items' = items + 1
    BY <1>2, <1>4 DEF Item, n
  <2> QED
    BY <1>2, <1>10, <1>11, <1>13, <1>14, <2>1 DEF Prints, d, mag, base, n
<1> QED
  BY <1>11, <1>15


LEMMA PrintfStarts == PrintfInit => PrintfIInv
<1> SUFFICES ASSUME PrintfInit PROVE PrintfIInv
  OBVIOUS
<1>1. BufLen \in Nat /\ BufLen > 0 /\ MaxItems \in Nat /\ MostDigits \in Nat
  <2>1. 0 \in 0 .. 2 * Half - 1
    BY PrintfAssumption
  <2> QED
    BY <2>1, DigitsFit, PrintfAssumption
<1>2. buf \in [0 .. BufLen - 1 -> {NUL} \union {Figures[i] : i \in DOMAIN Figures}]
  BY DEF PrintfInit
<1>3. longest = 0 /\ 0 <= MostDigits
  <2>1. longest = 0
    BY DEF PrintfInit
  <2> QED
    BY <1>1, <2>1
<1>4. BufEnds
  <2>1. size_override \in BOOLEAN /\ size \in Int /\ items \in 0 .. MaxItems
    <3>1. size_override = FALSE /\ size = 8 /\ items = 0
      BY DEF PrintfInit
    <3>2. 8 \in Int /\ 0 \in 0 .. MaxItems
      BY <1>1
    <3>3. size_override \in BOOLEAN
      BY <3>1, Zenon
    <3> QED
      BY <3>1, <3>2, <3>3
  <2>2. \A i \in longest .. BufLen - 1 : buf[i] = NUL
    BY <1>1, <1>3 DEF PrintfInit
  <2> QED
    BY <1>2, <1>3, <2>1, <2>2 DEF BufEnds, WithinLongest
<1>5. item.letter = "" /\ item.arg.value = <<>> /\ out = <<>> /\ args = <<>> /\ size_override = FALSE
  BY DEF PrintfInit, printf
<1>6. ~IsNumber(item.letter)
  BY <1>5 DEF IsNumber
<1>7. PlainCall
  BY <1>4, <1>5, <1>6 DEF PlainCall
<1>8. <<>> \in Seq(Arguments)
  OBVIOUS
<1> QED
  BY <1>5, <1>7, <1>8 DEF PrintfIInv

LEMMA NumberKeeps ==
  ASSUME PrintfIInv, Number
  PROVE  PrintfIInv'
<1>1. PICK c \in {"d", "x", "p"}, arg \in IntArgs, t \in Seq(FigureSet) : Prints(c, arg, t)
  BY NumberPrints
<1> DEFINE n == NextArg(arg).value
           d == Digits(Magnitude(c, n), Base(c))
           field == Field(Len(d))
<1>2. /\ n \in Ints
      /\ item' = [letter |-> c, arg |-> arg]
      /\ args' = Tail(Append(args, arg))
      /\ items < MaxItems /\ items' = items + 1
      /\ size_override' = size_override /\ size' = field
      /\ field \in 0 .. BufLen - 1
      /\ buf' \in Buffers
      /\ Len(t) \in 0 .. BufLen - 1
      /\ longest' = IF Len(t) > longest THEN Len(t) ELSE longest
      /\ Len(t) <= Len(d) \/ Len(t) <= field \/ Len(t) <= longest
      /\ \A i \in 0 .. BufLen - 1 : i >= longest /\ i >= Len(t) => buf'[i] = NUL
      /\ field <= Len(d) => Denotes(out', c, n, 0)
  BY <1>1 DEF Prints
<1>3. arg \in Arguments /\ args \in Seq(Arguments) /\ PlainCall /\ BufEnds
  BY DEF Arguments, PrintfIInv, PlainCall
<1>4. Len(d) \in Nat /\ Len(d) <= MostDigits /\ MostDigits \in Nat
  <2>1. Magnitude(c, n) \in 0 .. 2 * Half - 1 /\ Base(c) \in {10, 16}
    BY <1>2, MagnitudeIs DEF Base
  <2> QED
    BY <2>1, DigitsFit
<1>5. longest \in 0 .. BufLen - 1 /\ BufLen \in Nat /\ MaxItems \in Nat
  BY <1>3, LongestFits, PrintfAssumption
<1> HIDE DEF n, d
<1>6. size_override => size = field /\ \E width \in Widths : field = atoi(width)
  BY DEF PrintfIInv, Field
<1>7. ~size_override => field = Len(d)
  BY DEF Field
<1> HIDE DEF field
<1>8. WithinLongest(Len(t))
  <2>1. CASE Len(t) <= Len(d)
    <3>1. Len(t) <= MostDigits
      BY <1>2, <1>4, <2>1
    <3> QED
      BY <3>1 DEF WithinLongest
  <2>2. CASE Len(t) <= field /\ ~ (Len(t) <= Len(d))
    <3>1. size_override
      BY <1>7, <2>2
    <3> QED
      BY <1>6, <2>2, <3>1 DEF WithinLongest
  <2>3. CASE Len(t) <= longest
    <3>1. CASE longest <= MostDigits
      <4>1. Len(t) <= MostDigits
        BY <1>2, <1>4, <1>5, <2>3, <3>1
      <4> QED
        BY <4>1 DEF WithinLongest
    <3>2. CASE \E width \in Widths : longest <= atoi(width)
      <4>1. PICK width \in Widths : longest <= atoi(width)
        BY <3>2
      <4>2. atoi(width) \in 0 .. BufLen - 1
        BY PrintfAssumption
      <4>3. Len(t) <= atoi(width)
        BY <1>2, <1>5, <2>3, <4>1, <4>2
      <4> QED
        BY <4>3 DEF WithinLongest
    <3> QED
      BY <1>3, <3>1, <3>2 DEF BufEnds, WithinLongest
  <2> QED
    BY <1>2, <2>1, <2>2, <2>3
<1>9. longest' \in Nat /\ longest' >= longest /\ longest' >= Len(t) /\ (longest' = longest \/ longest' = Len(t))
  BY <1>2, <1>5
<1>10. WithinLongest(longest')
  BY <1>3, <1>8, <1>9 DEF BufEnds
<1>11. \A i \in longest' .. BufLen - 1 : buf'[i] = NUL
  <2> SUFFICES ASSUME NEW i \in longest' .. BufLen - 1 PROVE buf'[i] = NUL
    OBVIOUS
  <2>1. i \in 0 .. BufLen - 1 /\ i >= longest /\ i >= Len(t)
    BY <1>2, <1>5, <1>9
  <2> QED
    BY <1>2, <2>1
<1>12. BufEnds'
  <2>1. buf' \in [0 .. BufLen - 1 -> {NUL} \union {Figures[i] : i \in DOMAIN Figures}]
    <3>1. FigureSet = {Figures[i] : i \in DOMAIN Figures}
      BY DEF FigureSet, Figures
    <3> QED
      BY <1>2, <3>1 DEF Buffers
  <2>2. size' \in Int /\ items' \in 0 .. MaxItems /\ size_override' \in BOOLEAN
    BY <1>2, <1>3, <1>5 DEF BufEnds
  <2>3. WithinLongest(longest)'
    BY <1>10 DEF WithinLongest
  <2> QED
    BY <1>9, <1>11, <2>1, <2>2, <2>3 DEF BufEnds
<1>13. ~size_override' => Denotes(out', item'.letter, item'.arg.value, 0) /\ IsNumber(item'.letter) /\ args' = <<>>
  <2> SUFFICES ASSUME ~size_override
               PROVE  Denotes(out', item'.letter, item'.arg.value, 0) /\ IsNumber(item'.letter) /\ args' = <<>>
    BY <1>2
  <2>1. args = <<>>
    BY DEF PrintfIInv
  <2>2. n = arg.value /\ args' = <<>>
    BY <1>2, <1>3, <2>1, ArgumentsTaken DEF n
  <2>3. Denotes(out', c, n, 0)
    BY <1>2, <1>4, <1>7
  <2> QED
    BY <1>2, <2>2, <2>3 DEF IsNumber
<1>14. args' \in Seq(Arguments)
  BY <1>2, <1>3, ArgumentsTaken
<1>15. size_override' => \E width \in Widths : size' = atoi(width)
  BY <1>2, <1>6
<1>16. PlainCall'
  BY <1>12, <1>13 DEF PlainCall
<1> QED
  BY <1>13, <1>14, <1>15, <1>16 DEF PrintfIInv

\* What no item but a number leaves as it is.
LEMMA BufKeeps ==
  ASSUME BufEnds, UNCHANGED <<buf, longest>>, size_override' \in BOOLEAN, size' \in Int, items' \in 0 .. MaxItems
  PROVE  BufEnds'
  BY DEF BufEnds, WithinLongest

LEMMA PrintfKeeps == PrintfIInv /\ [PrintfNext]_printfVars => PrintfIInv'
<1> SUFFICES ASSUME PrintfIInv, [PrintfNext]_printfVars PROVE PrintfIInv'
  OBVIOUS
<1>1. PlainCall /\ BufEnds /\ args \in Seq(Arguments) /\ items \in 0 .. MaxItems /\ MaxItems \in Nat
      /\ size_override \in BOOLEAN /\ size \in Int
  BY PrintfAssumption DEF PrintfIInv, PlainCall, BufEnds
<1>2. CASE Number
  BY <1>2, NumberKeeps
<1>3. CASE Width
  <2>1. PICK width \in Widths, arg \in IntArgs :
          /\ Item("0", arg, FALSE)
          /\ size_override' = TRUE
          /\ size' = atoi(width)
          /\ UNCHANGED <<buf, longest>>
    BY <1>3 DEF Width
  <2>2. size' \in Int /\ items' \in 0 .. MaxItems /\ args' = Append(args, arg)
    BY <1>1, <2>1, PrintfAssumption DEF Item
  <2>3. args' \in Seq(Arguments)
    BY <1>1, <2>2, ArgumentsTaken DEF Arguments
  <2>4. BufEnds'
    BY <1>1, <2>1, <2>2, BufKeeps
  <2> QED
    BY <2>1, <2>3, <2>4 DEF PrintfIInv, PlainCall
<1>4. CASE Text
  <2>1. PICK arg \in TextArgs :
          /\ Item("s", arg, TRUE)
          /\ out' = NextArg(arg).value
          /\ UNCHANGED <<buf, size, size_override, longest>>
    BY <1>4 DEF Text
  <2>2. /\ items' \in 0 .. MaxItems /\ args' = Tail(Append(args, arg))
        /\ item' = [letter |-> "s", arg |-> arg]
    BY <1>1, <2>1 DEF Item
  <2>3. args' \in Seq(Arguments) /\ (args = <<>> => NextArg(arg) = arg /\ args' = <<>>)
    BY <1>1, <2>2, ArgumentsTaken DEF Arguments
  <2>4. BufEnds'
    BY <1>1, <2>1, <2>2, BufKeeps
  <2>5. ~IsNumber(item'.letter) /\ item'.arg = arg
    BY <2>2 DEF IsNumber
  <2>6. ~size_override' => args' = <<>> /\ out' = item'.arg.value
    BY <2>1, <2>3, <2>5 DEF PrintfIInv
  <2>7. size_override' => \E width \in Widths : size' = atoi(width)
    BY <2>1 DEF PrintfIInv
  <2> QED
    BY <2>3, <2>4, <2>5, <2>6, <2>7 DEF PrintfIInv, PlainCall
<1>5. CASE Plain
  <2>1. PICK text \in {<<>>, <<"X">>} :
          /\ items < MaxItems
          /\ items' = items + 1
          /\ item' = [letter |-> "", arg |-> [int |-> FALSE, value |-> text]]
          /\ out' = text
          /\ UNCHANGED <<buf, size, size_override, args, longest>>
    BY <1>5 DEF Plain
  <2>2. items' \in 0 .. MaxItems
    <3>1. items < MaxItems /\ items' = items + 1
      BY <2>1
    <3> QED
      BY <1>1, <3>1
  <2>3. BufEnds'
    BY <1>1, <2>1, <2>2, BufKeeps
  <2>4. ~IsNumber(item'.letter) /\ out' = item'.arg.value
    BY <2>1 DEF IsNumber
  <2> QED
    BY <2>1, <2>3, <2>4 DEF PrintfIInv, PlainCall
<1>6. CASE UNCHANGED printfVars
  <2>1. UNCHANGED <<buf, size, size_override, args, out, item, longest, items>>
    BY <1>6 DEF printfVars
  <2>2. BufEnds'
    BY <1>1, <2>1, BufKeeps
  <2> QED
    BY <2>1, <2>2 DEF PrintfIInv, PlainCall
<1> QED
  BY <1>2, <1>3, <1>4, <1>5, <1>6 DEF PrintfNext

\* What holds throughout a call of printf: buf ends where the longest number
\* so far ended, the arguments are taken in turn, and a width once read is
\* what size keeps (printf.cc:21-114).
THEOREM PrintfInvariant == PrintfSpec => []PrintfIInv
<1> QED
  BY PrintfStarts, PrintfKeeps, PTL DEF PrintfSpec

\* In a call without a width every item prints its own argument, every int in
\* the digits that denote it, and buf ends behind the longest number
\* (printf.cc:52-97, string.cc:48-67).
THEOREM PlainCallPrints == PrintfSpec => []PlainCall
<1>1. PrintfIInv => PlainCall
  BY DEF PrintfIInv
<1> QED
  BY <1>1, PrintfInvariant, PTL

\* What a number prints begins with the argument taken for it, in the field, and
\* goes on only behind an earlier number longer than the width (printf.cc:66-77).
THEOREM OwnNumberFirst == PrintfSpec => NumberFirst
<1> DEFINE Fits(field, n) == /\ Denotes(SubSeq(out', 1, field), item'.letter, n, IF size_override THEN size ELSE 0)
                             /\ field < Len(out') => size_override /\ size < longest
           First(n) == IsNumber(item'.letter) /\ NextArg(item'.arg).value = n
                         => \E field \in 1 .. Len(out') : Fits(field, n)
<1>1. ASSUME PrintfIInv, PrintfNext, NEW n \in Ints PROVE First(n)
  <2>1. CASE Number
    <3>1. PICK c \in {"d", "x", "p"}, arg \in IntArgs, t \in Seq(FigureSet) : Prints(c, arg, t)
      BY <1>1, <2>1, NumberPrints
    <3>2. item'.letter = c /\ item'.arg = arg /\ NextArg(item'.arg) = NextArg(arg)
      BY <3>1 DEF Prints, NextArg
    <3>3. SUFFICES ASSUME NextArg(arg).value = n PROVE \E field \in 1 .. Len(out') : Fits(field, n)
      BY <3>2
    <3>4. CASE size_override
      <4>1. BeginsWith(out', c, n, size, longest)
        BY <3>1, <3>3, <3>4 DEF Prints, Field
      <4> QED
        BY <3>2, <3>4, <4>1 DEF BeginsWith
    <3>5. CASE ~size_override
      <4>1. Len(out') >= 1 /\ Denotes(out', c, n, 0) /\ out' \in Seq(CharSet)
        <5> DEFINE d == Digits(Magnitude(c, n), Base(c))
        <5>1. Field(Len(d)) = Len(d) /\ Len(d) \in Int
          <6>1. Base(c) \in {10, 16} /\ Magnitude(c, n) \in Nat
            BY MagnitudeIs DEF Base
          <6>2. d \in Seq(FigureSet)
            BY <6>1, DigitsNext
          <6> HIDE DEF d
          <6>3. Len(d) \in Nat
            BY <6>2
          <6> QED
            BY <3>5, <6>3 DEF Field
        <5>2. Len(out') >= 1 /\ Denotes(out', c, n, 0)
          BY <3>1, <3>3, <5>1 DEF Prints
        <5>3. out' = Sign(c, n) \o t /\ t \in Seq(CharSet) /\ Sign(c, n) \in Seq(CharSet)
          <6>1. out' = Sign(c, n) \o t
            BY <3>1, <3>3 DEF Prints
          <6> QED
            BY <6>1, SignIs
        <5> QED
          BY <5>2, <5>3
      <4>2. Fits(Len(out'), n) /\ Len(out') \in 1 .. Len(out')
        <5>1. SubSeq(out', 1, Len(out')) = out' /\ Len(out') \in 1 .. Len(out')
          BY <4>1, WholeText
        <5>2. Denotes(out', item'.letter, n, IF size_override THEN size ELSE 0)
          BY <3>2, <3>5, <4>1
        <5>3. ~ (Len(out') < Len(out'))
          BY <4>1
        <5> QED
          BY <5>1, <5>2, <5>3
      <4> QED
        BY <4>2
    <3> QED
      BY <3>4, <3>5
  <2>2. CASE Width \/ Text \/ Plain
    <3>1. Width => item'.letter = "0"
      BY DEF Width, Item
    <3>2. Text => item'.letter = "s"
      BY DEF Text, Item
    <3>3. ASSUME Plain PROVE item'.letter = ""
      <4>1. PICK text \in {<<>>, <<"X">>} : item' = [letter |-> "", arg |-> [int |-> FALSE, value |-> text]]
        BY <3>3 DEF Plain
      <4> QED
        BY <4>1
    <3> QED
      BY <2>2, <3>1, <3>2, <3>3 DEF IsNumber
  <2> QED
    BY <1>1, <2>1, <2>2 DEF PrintfNext
<1>2. PrintfIInv /\ [PrintfNext]_printfVars =>
        [\A n \in Ints :
            IsNumber(item'.letter) /\ NextArg(item'.arg).value = n =>
                \E field \in 1 .. Len(out') :
                    /\ Denotes(SubSeq(out', 1, field), item'.letter, n, IF size_override THEN size ELSE 0)
                    /\ field < Len(out') => size_override /\ size < longest]_printfVars
  BY <1>1
<1> QED
  BY <1>2, PrintfInvariant, PTL DEF PrintfSpec, NumberFirst

\* Terminal runs one or the other as its own specification says, so that what is
\* proved of each holds of it.
THEOREM TerminalRuns == TerminalSpec => Spec /\ PrintfSpec
<1>1. TerminalInit => Init /\ PrintfInit
  BY DEF TerminalInit
<1>2. [TerminalNext]_terminalVars => [Next]_vars /\ [PrintfNext]_printfVars
  BY DEF TerminalNext, PutCharacters, CallPrintf, terminalVars
<1> QED
  BY <1>1, <1>2, PTL DEF TerminalSpec, Spec, PrintfSpec
=============================================================================
