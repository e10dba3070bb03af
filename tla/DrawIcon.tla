------------------------------ MODULE DrawIcon ------------------------------
(***************************************************************************)
(* draw_icon of src/kernel/main.cc.  Its column counter is the global i,   *)
(* which rtc_call, the routine of the clock's interrupt, increments: a     *)
(* tick between any two instructions of the loops moves the column on, or  *)
(* is lost when it comes between the load and the store of i++.            *)
(***************************************************************************)
EXTENDS Integers

CONSTANTS
    X, Y,       \* the parameters x and y, 1 and 1 in the call
    W, H,       \* the parameters w and h, 100 and 100
    Pitch,      \* bytes from one line of the graphics memory to the next, 320
    MaxTicks    \* bound on the ticks while it draws

ASSUME DrawAssumption ==
    /\ {W, H} \subseteq Nat \ {0} /\ {X, Y, Pitch, MaxTicks} \subseteq Nat
    /\ Y + H <= Pitch

VARIABLES
    drawPc,     \* the next instruction: "idle" before the call, "done" after
    i,          \* the global
    j, l,       \* draw_icon's locals
    reg,        \* the register of i++
    vram,       \* the graphics memory: the pixel of the image at each place written
    ticks       \* history: the ticks since the call

drawVars == <<drawPc, i, j, l, reg, vram, ticks>>

\* The place of a pixel: what draw_icon takes for a column is a line here.
write_pixel8x(x, y) == Pitch * x + y

\* for (l = j = 0; ...
Draw ==
    /\ drawPc = "idle"
    /\ l' = 0 /\ j' = 0
    /\ drawPc' = "row"
    /\ UNCHANGED <<i, reg, vram, ticks>>

\* ... l < h ...; for (i = 0; ...
Row ==
    /\ drawPc = "row"
    /\ drawPc' = IF l < H THEN "test" ELSE "done"
    /\ i' = IF l < H THEN 0 ELSE i
    /\ UNCHANGED <<j, l, reg, vram, ticks>>

\* ... i < w ...; and l++ when the row is over.
Test ==
    /\ drawPc = "test"
    /\ IF i < W
       THEN drawPc' = "put" /\ l' = l
       ELSE drawPc' = "row" /\ l' = l + 1
    /\ UNCHANGED <<i, j, reg, vram, ticks>>

\* write_pixel8x(x + i, y + l, pixels[j]).
Put ==
    /\ drawPc = "put"
    /\ LET location == write_pixel8x(X + i, Y + l) IN
       vram' = [m \in DOMAIN vram \union {location} |-> IF m = location THEN j ELSE vram[m]]
    /\ drawPc' = "load"
    /\ UNCHANGED <<i, j, l, reg, ticks>>

\* i++, j++
Load ==
    /\ drawPc = "load"
    /\ reg' = i
    /\ drawPc' = "store"
    /\ UNCHANGED <<i, j, l, vram, ticks>>
\* Mutant: a column is taken back when a tick came between.
Store_Retry ==
    /\ drawPc = "store"
    /\ i' = IF i = reg THEN reg + 1 ELSE i - 1
    /\ j' = j + 1
    /\ drawPc' = "test"
    /\ UNCHANGED <<l, reg, vram, ticks>>
Store ==
    /\ drawPc = "store"
    /\ i' = reg + 1
    /\ j' = j + 1
    /\ drawPc' = "test"
    /\ UNCHANGED <<l, reg, vram, ticks>>

DrawStep == Draw \/ Row \/ Test \/ Put \/ Load \/ Store

\* rtc_call: i++ with interrupts off.
Tick ==
    /\ drawPc \notin {"idle", "done"}
    /\ ticks < MaxTicks
    /\ ticks' = ticks + 1
    /\ i' = i + 1
    /\ UNCHANGED <<drawPc, j, l, reg, vram>>

DrawInit ==
    /\ drawPc = "idle"
    /\ i \in 0 .. MaxTicks
    /\ j = 0 /\ l = 0 /\ reg = 0 /\ vram = <<>> /\ ticks = 0

DrawNext == DrawStep \/ Tick

DrawSpec == DrawInit /\ [][DrawNext]_drawVars

(***************************************************************************)
(* Properties.                                                             *)
(***************************************************************************)
DrawTypeOK ==
    /\ drawPc \in {"idle", "row", "test", "put", "load", "store", "done"}
    /\ i \in Nat /\ j \in Nat /\ reg \in Nat /\ l \in 0 .. H
    /\ ticks \in 0 .. MaxTicks

\* What the loops have behind them when i++ is under way: the column it loads.
Column == IF drawPc = "store" THEN reg ELSE i
\* How many pixels have been drawn.
Drawn == IF drawPc \in {"load", "store"} THEN j + 1 ELSE j

InRow == drawPc \in {"test", "put", "load", "store"}

\* The pixels drawn are at most as many as the columns passed, and a tick
\* passes at most one column more.
Counted ==
    /\ drawPc = "idle" => j = 0
    /\ drawPc = "row" => j <= l * W /\ l * W <= j + ticks
    /\ InRow => l < H /\ j <= l * W + Column /\ l * W + Column <= j + ticks
    /\ drawPc = "test" => j <= l * W + W
    /\ drawPc = "put" => i < W + ticks
    /\ drawPc \in {"put", "load", "store"} => j < l * W + W

\* Where pixel p is, and that the loops have passed the place.
Shows(p, row, column) ==
    /\ write_pixel8x(X + column, Y + row) \in DOMAIN vram
    /\ vram[write_pixel8x(X + column, Y + row)] = p
    /\ p <= row * W + column /\ row * W + column <= p + ticks
Passed(row, column) ==
    \/ row < l
    \/ row = l /\ InRow /\ (IF drawPc \in {"load", "store"} THEN column <= Column ELSE column < i)

\* The inductive invariant.
DrawIInv ==
    /\ DrawTypeOK
    /\ Counted
    /\ \A p \in 0 .. Drawn - 1 : \E row \in 0 .. H - 1, column \in 0 .. W + ticks - 1 :
          Shows(p, row, column) /\ Passed(row, column)

\* However many ticks come, no pixel behind the W * H of the image is read, and
\* none that was drawn is drawn over: each is on the screen, as many columns
\* behind its own as there were ticks at most, counted over the rows; without a
\* tick each is where it belongs (main.cc:203,341-348, vga.cc:342-358).
ShiftedByTicks ==
    /\ drawPc = "put" => j < W * H
    /\ \A p \in 0 .. Drawn - 1 : \E row \in 0 .. H - 1, column \in 0 .. W + ticks - 1 : Shows(p, row, column)
=============================================================================
