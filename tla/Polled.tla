------------------------------- MODULE Polled -------------------------------
(***************************************************************************)
(* The drivers that wait for their device by polling it, each alone with   *)
(* its device: read_rtc at boot, and the two nothing calls at this commit, *)
(* play_simple_sound and E1000::read_mac.                                  *)
(***************************************************************************)
EXTENDS RtcRead, Sb16, E1000

VARIABLE driver     \* the one that runs

polledVars == <<vars, sb16Vars, e1000Vars, driver>>

\* The device of a driver that does not run is one of those there may be.
One(S) == CHOOSE x \in S : TRUE
PolledInit ==
    /\ driver \in {"rtc", "sb16", "e1000"}
    /\ Init /\ Sb16Init /\ E1000Init
    /\ driver # "rtc" => mode = One(Modes) /\ now = 1 /\ ~uip
    /\ driver # "sb16" => card = One(Cards) /\ at0 = One(Bufs) /\ flipflop = 0
    /\ driver # "e1000" => eeprom = One(Eeproms) /\ bar_type = One(BarTypes)

ReadRtc == driver = "rtc" /\ Next /\ UNCHANGED <<sb16Vars, e1000Vars, driver>>
PlaySound == driver = "sb16" /\ Sb16Next /\ UNCHANGED <<vars, e1000Vars, driver>>
ReadCard == driver = "e1000" /\ E1000Next /\ UNCHANGED <<vars, sb16Vars, driver>>

PolledNext == ReadRtc \/ PlaySound \/ ReadCard

\* The kernel runs, an update comes to its end (it takes two thousandths of a
\* second), a sound card gets ready and an EEPROM answers.
PolledSpec ==
    /\ PolledInit /\ [][PolledNext]_polledVars
    /\ WF_polledVars(driver = "rtc" /\ Reader /\ UNCHANGED <<sb16Vars, e1000Vars, driver>>)
    /\ WF_polledVars(driver = "rtc" /\ EndUpdate /\ UNCHANGED <<sb16Vars, e1000Vars, driver>>)
    /\ WF_polledVars(driver = "sb16" /\ Play /\ UNCHANGED <<vars, e1000Vars, driver>>)
    /\ WF_polledVars(driver = "sb16" /\ CardReady /\ UNCHANGED <<vars, e1000Vars, driver>>)
    /\ WF_polledVars(driver = "e1000" /\ ReadMac /\ UNCHANGED <<vars, sb16Vars, driver>>)
    /\ WF_polledVars(driver = "e1000" /\ Answer /\ UNCHANGED <<vars, sb16Vars, driver>>)

\* The two polling loops of read_rtc and the comparing one come to an end on a
\* clock that never stops.  So does each sound on a card that is there, whether
\* its reset failed or not (reset_sb16 does not tell; without a card the first
\* dsp_write polls for ever), and the reading of an address from a card whose
\* registers are memory; with ports nothing is written and it polls for ever
\* (test_stuff.cc:92-124, sb16.cc:141-144,278-333, e1000.cc:116-167).
PollingEnds ==
    /\ driver = "rtc" ~> pc = "done"
    /\ driver = "sb16" /\ card # "absent" ~> sbPc = "done"
    /\ driver = "e1000" /\ bar_type = 0 ~> macPc = "done"
=============================================================================
