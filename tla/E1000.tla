-------------------------------- MODULE E1000 -------------------------------
(***************************************************************************)
(* The reading of a network card's address, src/drivers/net/e1000.cc: each *)
(* of three words of the EEPROM is asked for by a write to REG_EEPROM and  *)
(* read from there once bit 4 says it has come.  Nothing calls it at this  *)
(* commit; the card is external.                                           *)
(***************************************************************************)
EXTENDS Integers

CONSTANTS
    Eeproms,    \* what words 0, 1 and 2 may hold: functions of 0 .. 2
    BarTypes    \* 0: memory, 1: ports

ASSUME E1000Assumption ==
    /\ \A e \in Eeproms : e \in [0 .. 2 -> Nat] /\ \A n \in 0 .. 2 : e[n] < 65536
    /\ BarTypes \subseteq {0, 1}

VARIABLES
    eeprom, bar_type,
    reg,        \* REG_EEPROM: [asked, done, data]
    macPc,      \* "write", "poll", "store" or "done"
    word,       \* the word read_mac is at
    temp,       \* its local
    mac         \* the six bytes

e1000Vars == <<eeprom, bar_type, reg, macPc, word, temp, mac>>

\* The card: the word asked for comes at some time; a new question takes the bit back.
Answer ==
    /\ reg.asked \in DOMAIN eeprom /\ ~reg.done
    /\ reg' = [reg EXCEPT !.done = TRUE, !.data = eeprom[reg.asked]]
    /\ UNCHANGED <<eeprom, bar_type, macPc, word, temp, mac>>

\* write_cmd: with ports for registers nothing is written.
write_cmd(addr) == reg' = IF bar_type = 0 THEN [reg EXCEPT !.asked = addr, !.done = FALSE] ELSE reg
\* read_cmd: with ports for registers it is 0.
read_cmd == IF bar_type = 0 THEN reg ELSE [asked |-> -1, done |-> FALSE, data |-> 0]

AskEeprom ==
    /\ macPc = "write"
    /\ write_cmd(word)
    /\ macPc' = "poll"
    /\ UNCHANGED <<eeprom, bar_type, word, temp, mac>>

\* Mutant: the bit is not waited for.
PollEeprom_Once ==
    /\ macPc = "poll"
    /\ temp' = read_cmd.data
    /\ macPc' = "store"
    /\ UNCHANGED <<eeprom, bar_type, reg, word, mac>>
\* The loop of read_eeprom.
PollEeprom ==
    /\ macPc = "poll"
    /\ read_cmd.done
    /\ temp' = read_cmd.data
    /\ macPc' = "store"
    /\ UNCHANGED <<eeprom, bar_type, reg, word, mac>>

StoreMac ==
    /\ macPc = "store"
    /\ mac' = [mac EXCEPT ![2 * word] = temp % 256, ![2 * word + 1] = (temp \div 256) % 256]
    /\ word' = word + 1
    /\ macPc' = IF word < 2 THEN "write" ELSE "done"
    /\ UNCHANGED <<eeprom, bar_type, reg, temp>>

ReadMac == AskEeprom \/ PollEeprom \/ StoreMac

E1000Init ==
    /\ eeprom \in Eeproms /\ bar_type \in BarTypes
    /\ reg = [asked |-> -1, done |-> FALSE, data |-> 0]
    /\ macPc = "write" /\ word = 0 /\ temp = 0
    /\ mac = [n \in 0 .. 5 |-> 0]

E1000Next == Answer \/ ReadMac

(***************************************************************************)
(* Properties.                                                             *)
(***************************************************************************)
\* The bytes stored are the EEPROM's, the low byte of each word first, never
\* those of the word before, which the register still shows; a card whose
\* registers are ports gives none (e1000.cc:116-167).
MacIsTheCards ==
    \A n \in 0 .. 5 :
        mac[n] = IF n >= 2 * word THEN 0
                 ELSE IF n % 2 = 0 THEN eeprom[n \div 2] % 256 ELSE eeprom[n \div 2] \div 256
=============================================================================
