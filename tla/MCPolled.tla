------------------------------ MODULE MCPolled ------------------------------
(* A new year, an hour of the morning and one of the evening: every field    *)
(* changes, alone or with others; each step of the calendar is one update.   *)
(* Two sounds, the second with more samples than a uint16_t counts; a buffer *)
(* below an odd 64K page, one in it and one across a multiple of 128K;       *)
(* EEPROMs whose bytes all differ.                                           *)
EXTENDS Polled

Time(y, mo, d, h, mi, s) ==
    [year |-> y, month |-> mo, day |-> d, hour |-> h, minute |-> mi, second |-> s]

MCCalendar == <<Time(2029, 12, 31, 23, 59, 59), Time(2030, 1, 1, 0, 0, 0),
                Time(2030, 1, 1, 10, 59, 59), Time(2030, 1, 1, 11, 0, 0),
                Time(2122, 9, 30, 21, 59, 58), Time(2122, 9, 30, 21, 59, 59),
                Time(2122, 9, 30, 22, 0, 0)>>
MCModes == [binary : BOOLEAN, hours24 : BOOLEAN]
MCMods == <<[mod_start |-> 1150976, data_len |-> 42368], [mod_start |-> 1193700, data_len |-> 400000]>>
MCEeproms == {<<256, 770, 1284>>, <<21586, 4608, 22068>>}
ZeroBased == {[n \in 0 .. 2 |-> e[n + 1]] : e \in MCEeproms}
=============================================================================
