------------------------------ MODULE RtcRead ------------------------------
(***************************************************************************)
(* read_rtc of src/common/test_stuff.cc: the date and time are read out of *)
(* the registers of a clock that goes on ticking, until two passes over    *)
(* the registers agree, and are converted to numbers.                      *)
(*                                                                         *)
(* It runs as a constructor, before interrupts are enabled, so no handler  *)
(* selects another register between out_byte and in_byte: selecting and    *)
(* reading one register is one step.  While the clock updates itself its   *)
(* registers can give anything.  The code waits for the end of an update   *)
(* but nothing keeps the next one from starting in the middle of a pass.   *)
(*                                                                         *)
(* The variables century and last_century are never assigned, century      *)
(* being read only if century_register is not zero: they are copies of one *)
(* byte and are left out of the comparison.                                *)
(***************************************************************************)
EXTENDS Naturals, Sequences, FiniteSets

CONSTANTS
    Calendar,        \* the times the clock shows, a sequence; it starts over at the end
    Modes,           \* the settings of register B there may be: [binary, hours24]
    ReadsPerSecond   \* registers the driver can read between two updates, at least

Fields == <<"second", "minute", "hour", "day", "month", "year">>
Field == {Fields[n] : n \in DOMAIN Fields}
Byte == 0 .. 255
CURRENT_YEAR == 2023

\* The clock counts years in two digits.  A register is read in microseconds.
ASSUME RtcAssumption ==
    /\ Calendar \in Seq([Field -> Nat]) /\ Calendar # <<>>
    /\ \A n \in 1 .. Len(Calendar) :
           /\ Calendar[n].hour < 24
           /\ Calendar[n].year \in CURRENT_YEAR .. CURRENT_YEAR + 99
    /\ Modes \subseteq [binary : BOOLEAN, hours24 : BOOLEAN]
    /\ ReadsPerSecond \in Nat /\ ReadsPerSecond >= 15

VARIABLES
    mode,        \* register B
    now,         \* the time on the clock, its place in Calendar
    uip,         \* an update is in progress
    reads,       \* registers read since the last update, up to ReadsPerSecond
    pc,          \* where read_rtc is
    k,           \* the register a pass is at
    pass,        \* is it the pass before the loop or one of the loop's
    cur, last,   \* second .. year and last_second .. last_year
    registerB

clock == <<mode, now, uip>>
vars == <<clock, reads, pc, k, pass, cur, last, registerB>>

(***************************************************************************)
(* The clock.                                                              *)
(***************************************************************************)
Earlier(n) == IF n = 1 THEN Len(Calendar) ELSE n - 1
Later(n) == (n % Len(Calendar)) + 1

Bcd(n) == (n \div 10) * 16 + (n % 10)
Number(m, n) == IF m.binary THEN n ELSE Bcd(n)

\* A clock of twelve hours shows 12, 1, .. 11, with the top bit in the afternoon.
HourRegister(m, h) ==
    IF m.hours24 THEN Number(m, h)
    ELSE Number(m, IF h % 12 = 0 THEN 12 ELSE h % 12) + (IF h >= 12 THEN 128 ELSE 0)

Registers(m, n) ==
    [f \in Field |-> CASE f = "hour" -> HourRegister(m, Calendar[n].hour)
                       [] f = "year" -> Number(m, Calendar[n].year % 100)
                       [] OTHER -> Number(m, Calendar[n][f])]

\* What a register can give: during an update the old value, the new one, or
\* neither.
Shown(f) ==
    IF uip THEN {Registers(mode, now)[f], Registers(mode, Later(now))[f], 255}
    ELSE {Registers(mode, now)[f]}

BeginUpdate ==
    /\ ~uip /\ reads = ReadsPerSecond
    /\ uip' = TRUE
    /\ UNCHANGED <<mode, now, reads, pc, k, pass, cur, last, registerB>>

EndUpdate ==
    /\ uip
    /\ uip' = FALSE
    /\ now' = Later(now)
    /\ reads' = 0
    /\ UNCHANGED <<mode, pc, k, pass, cur, last, registerB>>

CountRead == reads' = IF uip \/ reads = ReadsPerSecond THEN reads ELSE reads + 1

(***************************************************************************)
(* read_rtc.  second .. year are global and start as zero.                 *)
(***************************************************************************)
Init ==
    /\ mode \in Modes
    /\ now \in 1 .. Len(Calendar)
    /\ uip \in BOOLEAN
    /\ reads = ReadsPerSecond
    /\ pc = "wait" /\ k = 1 /\ pass = "first"
    /\ cur = [f \in Field |-> 0] /\ last = cur
    /\ registerB = mode

\* Mutant: the mask of the flag takes in a bit that is always set.
WaitForUpdate_WrongBit ==
    /\ pc = "wait"
    /\ CountRead
    /\ UNCHANGED <<clock, pc, k, pass, cur, last, registerB>>
\* while (get_update_in_progress_flag());
WaitForUpdate ==
    /\ pc = "wait"
    /\ CountRead
    /\ pc' = IF uip THEN "wait" ELSE "read"
    /\ UNCHANGED <<clock, k, pass, cur, last, registerB>>

GetRegister ==
    /\ pc = "read"
    /\ \E v \in Shown(Fields[k]) : cur' = [cur EXCEPT ![Fields[k]] = v]
    /\ CountRead
    /\ IF k < Len(Fields) THEN k' = k + 1 /\ pc' = pc
       ELSE k' = 1 /\ pc' = IF pass = "first" THEN "copy" ELSE "compare"
    /\ UNCHANGED <<clock, pass, last, registerB>>

\* The head of the loop: last_second = second; and so on.
CopyToLast ==
    /\ pc = "copy"
    /\ last' = cur
    /\ pass' = "again"
    /\ pc' = "wait"
    /\ UNCHANGED <<clock, reads, k, cur, registerB>>

\* Mutant: the loop goes round only when every value differs.
Compare_All ==
    /\ pc = "compare"
    /\ pc' = IF \A f \in Field : last[f] # cur[f] THEN "copy" ELSE "register_b"
    /\ UNCHANGED <<clock, reads, k, pass, cur, last, registerB>>
\* The foot of the loop: any difference makes it go round again.
Compare ==
    /\ pc = "compare"
    /\ pc' = IF \E f \in Field : last[f] # cur[f] THEN "copy" ELSE "register_b"
    /\ UNCHANGED <<clock, reads, k, pass, cur, last, registerB>>

ReadRegisterB ==
    /\ pc = "register_b"
    /\ registerB' = mode
    /\ CountRead
    /\ pc' = "convert"
    /\ UNCHANGED <<clock, k, pass, cur, last>>

FromBcd(b) == (b % 16) + (b \div 16) * 10

\* The top bit of the hour stays where it is.
FromBcdHour(b) == ((b % 16) + ((b % 128) \div 16) * 10) + (b \div 128) * 128

\* Mutant: the hour is converted like the others.
FromBcdAll_Hour(c) == [f \in Field |-> FromBcd(c[f])]
FromBcdAll(c) == [f \in Field |-> IF f = "hour" THEN FromBcdHour(c[f]) ELSE FromBcd(c[f])]

To24(h) == IF h >= 128 THEN ((h % 128) + 12) % 24 ELSE h

FullYear(y) ==
    LET year == y + (CURRENT_YEAR \div 100) * 100
    IN IF year < CURRENT_YEAR THEN year + 100 ELSE year

Convert ==
    /\ pc = "convert"
    /\ LET b == IF registerB.binary THEN cur ELSE FromBcdAll(cur)
           h == IF registerB.hours24 THEN b.hour ELSE To24(b.hour)
       IN cur' = [b EXCEPT !.hour = h, !.year = FullYear(b.year)]
    /\ pc' = "done"
    /\ UNCHANGED <<clock, reads, k, pass, last, registerB>>

Reader ==
    \/ WaitForUpdate \/ GetRegister
    \/ CopyToLast \/ Compare
    \/ ReadRegisterB \/ Convert

Next == Reader \/ BeginUpdate \/ EndUpdate

(***************************************************************************)
(* Types.  A converted year is the only field of more than a byte.         *)
(***************************************************************************)
TypeOK ==
    /\ mode \in Modes /\ registerB \in Modes
    /\ now \in 1 .. Len(Calendar)
    /\ uip \in BOOLEAN
    /\ reads \in 0 .. ReadsPerSecond
    /\ pc \in {"wait", "read", "copy", "compare", "register_b", "convert", "done"}
    /\ k \in 1 .. Len(Fields)
    /\ pass \in {"first", "again"}
    /\ last \in [Field -> Byte]
    /\ \A f \in Field : cur[f] \in IF pc = "done" /\ f = "year" THEN Nat ELSE Byte

(***************************************************************************)
(* Properties.                                                             *)
(***************************************************************************)
\* test_stuff.cc:89-90: no dodgy or inconsistent values.  The registers the
\* loop is left with were all on the clock at one moment, and that no longer
\* ago than the update that came last.
SnapshotIsATime ==
    [][pc = "compare" /\ pc' = "register_b"
           => cur \in {Registers(mode, now), Registers(mode, Earlier(now))}]_vars

\* Twelve o'clock of a clock of twelve hours is the one hour that is converted
\* to another (see TwelveIsConverted); a year is one of the hundred from
\* CURRENT_YEAR on.
Readable(n) == mode.hours24 \/ Calendar[n].hour % 12 # 0

\* test_stuff.cc:126-156: in every mode of the clock the numbers are the date
\* and time that the clock shows or showed before its last update.
DateIsRight ==
    [][pc = "convert" /\ pc' = "done" /\ Readable(now) /\ Readable(Earlier(now))
           => cur' \in {Calendar[now], Calendar[Earlier(now)]}]_vars

\* test_stuff.cc:142 "Convert 12 hour clock to 24 hour clock if necessary": the
\* hour that comes out is the hour the clock shows or showed before.
TwelveIsConverted ==
    [][pc = "convert" /\ pc' = "done"
           => cur'.hour \in {Calendar[now].hour, Calendar[Earlier(now)].hour}]_vars
=============================================================================
