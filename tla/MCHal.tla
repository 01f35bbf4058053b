-------------------------------- MODULE MCHal --------------------------------
(* The board support package around the application: the console, the      *)
(* system clock with its alarms, the interrupt layer, the file layer, the  *)
(* display and the tables of the Ethernet driver.  They share no variable, *)
(* so each is run by itself: part tells which, and the others stay as they *)
(* start.                                                                  *)
(*                                                                         *)
(* The console: rings of two places, FIFOs of two, a second or two of      *)
(* patience.  The clock: three alarms, a count that wraps at six.  The     *)
(* interrupts: three lines, one handler.  The files: two descriptors      *)
(* besides the standard streams, two devices besides /dev/null and a file  *)
(* system.  The display: two rows of two places, lines of three.  The      *)
(* tables: single MACs and a MAC of two channels, buses of two addresses.  *)
EXTENDS JtagUart, AlarmClock, Interrupts, Files, Lcd, TseSystem

VARIABLE part

MCTimeouts == {0, 2}
MCDelays == {1, 2, 4}
MCNameOf == [null |-> "/dev/null", uart |-> "/dev/uart", lcd |-> "/dev/lcd"]
MCBelow == [zip |-> {"/mnt/f"}]
MCHas == [null |-> {"write"}, uart |-> {"read", "write"}, lcd |-> {"write"},
          zip |-> {"open", "close", "read", "lseek", "fstat"}]
MCStdStreams == [f \in Std |-> "/dev/uart"]
MCSystems == {[phys |-> <<AutoAddress>>, mdio |-> TRUE],
              [phys |-> <<1>>, mdio |-> TRUE],
              [phys |-> <<AutoAddress, 0>>, mdio |-> TRUE],
              [phys |-> <<AutoAddress>>, mdio |-> FALSE]}
MCBuses == {[a \in Addresses |-> "known"],
            [a \in Addresses |-> IF a = 0 THEN "none" ELSE "unknown"]}

MCInit ==
  /\ part \in {"uart", "alarms", "interrupts", "files", "lcd", "tse"}
  /\ Init /\ (part # "uart" => ~fast /\ present /\ sp.timeout = Default)
  /\ AlarmInit /\ IrqInit /\ FilesInit /\ LcdInit /\ TseInit
  /\ (part # "tse" => ~short)

MCNext ==
  /\ part' = part
  /\ IF part = "uart" THEN Next ELSE UNCHANGED vars
  /\ IF part = "alarms" THEN AlarmNext ELSE UNCHANGED alarmVars
  /\ IF part = "interrupts" THEN IrqNext ELSE UNCHANGED irqVars
  /\ IF part = "files" THEN FilesNext ELSE UNCHANGED fileVars
  /\ IF part = "lcd" THEN LcdNext ELSE UNCHANGED lcdVars
  /\ IF part = "tse" THEN TseNext ELSE UNCHANGED tseVars

MCSpec ==
  MCInit /\ [][MCNext]_<<part, vars, alarmVars, irqVars, fileVars, lcdVars, tseVars>>
=============================================================================
