-------------------------------- MODULE Lcd --------------------------------
(***************************************************************************)
(* The driver of the character display, altera_avalon_lcd_16207.c, and its *)
(* panel.  A write changes the lines in memory and then repaints what they *)
(* show; an alarm scrolls the lines wider than the panel, and repaints it  *)
(* unless a write is about to.  A write repaints place by place, and the   *)
(* alarm's callback runs as an interrupt, whole, between any two steps.    *)
(*                                                                         *)
(* The panel answers every access in time, or is broken for good: then it  *)
(* is not accessed again.  The alarm comes every 100 ms, a repaint takes   *)
(* some 5: at most one falls into it.  ESC K is used with the cursor on a  *)
(* line: below the last, where LF and ESC H may leave it, the code clears  *)
(* what lies behind the lines.                                             *)
(***************************************************************************)
EXTENDS Integers, FiniteSetsExt

CONSTANTS
  Height, Width,  \* of the panel: 2 and 16
  VirtualWidth,   \* of a line: 80
  ByteWords,      \* 256: the column counter wraps here
  Printable,      \* characters
  Blank,          \* the one that is a space
  Parms,          \* numbers in escape sequences
  Text            \* bound: characters and sequences written

ASSUME LcdAssumption ==
  /\ Height \in Nat \ {0} /\ Width \in Nat \ {0} /\ VirtualWidth \in Nat /\ VirtualWidth > Width
  /\ ByteWords \in Nat /\ ByteWords > VirtualWidth /\ Blank \in Printable /\ Parms \subseteq Nat

VARIABLES lcd,      \* altera_avalon_lcd_16207_state
          panel,    \* what the panel shows
          place,    \* where it puts the next character
          writer,   \* the write: idle, text, repaint, enter, paint, check
          old,      \*   its old_scrollpos
          paint,    \*   its repaint: the scroll position and the next place
          text      \* characters and sequences that may still be written

lcdVars == <<lcd, panel, place, writer, old, paint, text>>

Rows == 0 .. Height - 1
Columns == 0 .. Width - 1
BlankLine == [c \in 0 .. VirtualWidth |-> Blank]
BlankPanel == [row \in Rows |-> [c \in Columns |-> Blank]]

(* altera_avalon_lcd_16207_init.                                           *)
LcdInit ==
  /\ lcd = [x |-> 0, y |-> 0, address |-> <<0, 0>>, escaping |-> FALSE, broken |-> FALSE,
            scrollpos |-> 0, scrollmax |-> 0, active |-> FALSE,
            data |-> [row \in Rows |-> BlankLine], visible |-> BlankPanel,
            width |-> [row \in Rows |-> 0], speed |-> [row \in Rows |-> 0]]
  /\ panel = BlankPanel /\ place = <<0, 0>> /\ writer = "idle" /\ old = 0
  /\ paint = [scrollpos |-> 0, k |-> 0] /\ text = Text

-----------------------------------------------------------------------------
(* lcd_repaint_screen: each place that is to change is written, after a    *)
(* command to move there if the panel is thought to be elsewhere.          *)
Offset(row, scrollpos) ==
  LET offset == (scrollpos * lcd.speed[row]) \div 256
  IN IF offset >= lcd.width[row] THEN 0 ELSE offset

Shown(row, c, scrollpos) ==
  lcd.data[row][(c + Offset(row, scrollpos)) % lcd.width[row]]

LastPlace == Height * Width
Place(k) == <<(k - 1) \div Width, (k - 1) % Width>>

PaintPlace(s, at, char) ==
  LET goal == IF s.address = at THEN s.place ELSE at
  IN IF s.visible[at[1]][at[2]] = char THEN s
     ELSE [visible |-> [s.visible EXCEPT ![at[1]][at[2]] = char],
           panel |-> [s.panel EXCEPT ![goal[1]] =
                        [c \in Columns |-> IF c = goal[2] THEN char ELSE @[c]]],
           place |-> <<goal[1], goal[2] + 1>>, address |-> <<at[1], at[2] + 1>>]

PlacePainted(s, k, scrollpos) ==
  PaintPlace(s, Place(k), Shown(Place(k)[1], Place(k)[2], scrollpos))

Before == [visible |-> lcd.visible, panel |-> panel, place |-> place, address |-> lcd.address]
Painted(scrollpos) ==
  LET after[k \in 0 .. LastPlace] ==
        IF k = 0 THEN Before ELSE PlacePainted(after[k - 1], k, scrollpos)
  IN after[LastPlace]

(* lcd_write_command and lcd_write_data give the panel up when it is busy  *)
(* for too long.  What it shows is then of no interest.                    *)
Show(state, after) ==
  \/ /\ ~state.broken
     /\ lcd' = [state EXCEPT !.visible = after.visible, !.address = after.address]
     /\ panel' = after.panel /\ place' = after.place
  \/ /\ state.broken \/ after.visible # state.visible
     /\ lcd' = [state EXCEPT !.visible = after.visible, !.broken = TRUE]
     /\ UNCHANGED <<panel, place>>

-----------------------------------------------------------------------------
(* altera_avalon_lcd_16207_write: the text, character by character.        *)
WriteText ==
  /\ writer = "idle" /\ writer' = "text" /\ lcd' = [lcd EXCEPT !.active = TRUE]
  /\ UNCHANGED <<panel, place, old, paint, text>>

(* lcd_scroll_up, until the cursor is on a row of those given.             *)
ScrolledUp(s, bottom) ==
  IF s.y <= bottom THEN s
  ELSE [s EXCEPT !.y = bottom,
          !.data = [row \in Rows |-> IF row + s.y - bottom \in Rows
                                     THEN s.data[row + s.y - bottom] ELSE BlankLine]]

Char(state) ==
  /\ writer = "text" /\ ~lcd.escaping /\ lcd' = state
  /\ text > 0 /\ text' = text - 1
  /\ UNCHANGED <<panel, place, writer, old, paint>>

CarriageReturn == Char([lcd EXCEPT !.x = 0])
LineFeed == Char(ScrolledUp([lcd EXCEPT !.x = 0, !.y = @ + 1], Height))
Backspace == Char([lcd EXCEPT !.x = IF @ > 0 THEN @ - 1 ELSE 0])
PutChar(c) ==
  LET s == ScrolledUp(lcd, Height - 1)
  IN Char([s EXCEPT !.x = (s.x + 1) % ByteWords,
             !.data = IF s.x < VirtualWidth THEN [@ EXCEPT ![s.y][s.x] = c] ELSE @])
Escape == Char([lcd EXCEPT !.escaping = TRUE])

(* lcd_handle_escape, at the end of a sequence: H and f, J, K, and others. *)
Sequence(state) ==
  /\ writer = "text" /\ lcd.escaping
  /\ lcd' = [state EXCEPT !.escaping = FALSE]
  /\ UNCHANGED <<writer, old, paint, text>>

Least(a, b) == IF a < b THEN a ELSE b
MoveCursor(parm1, parm2) ==
  LET s == [lcd EXCEPT !.x = IF parm2 > 0 THEN (parm2 - 1) % ByteWords ELSE @]
      below == Least((parm1 - 1) % ByteWords, 2 * Height)
  IN /\ Sequence(IF parm1 > 0 THEN ScrolledUp([s EXCEPT !.y = below], Height) ELSE s)
     /\ UNCHANGED <<panel, place>>

ClearToEnd(parm1) ==
  /\ lcd.y \in Rows
  /\ Sequence(IF parm1 < 1 THEN [lcd EXCEPT !.data[lcd.y] =
                [c \in DOMAIN @ |-> IF c \in lcd.x .. VirtualWidth - 1 THEN Blank ELSE @[c]]]
              ELSE lcd)
  /\ UNCHANGED <<panel, place>>

AddressKept == lcd.address
AddressHome == <<0, 0>>
AddressCleared == AddressHome
ClearScreen ==
  LET s == [lcd EXCEPT !.x = 0, !.y = 0, !.address = AddressCleared,
              !.data = [row \in Rows |-> BlankLine], !.visible = BlankPanel,
              !.width = [row \in Rows |-> 0]]
  IN \/ /\ Sequence(s) /\ ~lcd.broken /\ panel' = BlankPanel /\ place' = <<0, 0>>
     \/ Sequence([s EXCEPT !.broken = TRUE]) /\ UNCHANGED <<panel, place>>

OtherSequence == Sequence(lcd) /\ UNCHANGED <<panel, place>>

-----------------------------------------------------------------------------
(* The rest of the write: the widths and speeds, and the repainting.       *)
WidthOf(line) ==
  LET used == {c \in 0 .. VirtualWidth - 1 : line[c] # Blank}
      width == IF used = {} THEN 0 ELSE Max(used) + 1
  IN IF width <= Width THEN Width ELSE width + 1

Measure ==
  LET width == [row \in Rows |-> WidthOf(lcd.data[row])]
      widthmax == Max({width[row] : row \in Rows})
      speed == [row \in Rows |-> IF width[row] > Width
                                 THEN (256 * width[row]) \div (2 * widthmax) ELSE 0]
  IN /\ writer = "text" /\ writer' = "repaint"
     /\ lcd' = [lcd EXCEPT !.width = width, !.speed = speed,
                  !.scrollmax = IF widthmax <= Width THEN 0 ELSE 2 * widthmax]
     /\ UNCHANGED <<panel, place, old, paint, text>>

WriteOld ==
  /\ writer = "repaint" /\ writer' = "enter" /\ old' = lcd.scrollpos
  /\ UNCHANGED <<lcd, panel, place, paint, text>>

WriteEnter ==
  /\ writer = "enter" /\ writer' = "paint"
  /\ paint' = [scrollpos |-> lcd.scrollpos, k |-> 1]
  /\ UNCHANGED <<lcd, panel, place, old, text>>

WritePlace ==
  /\ writer = "paint" /\ paint.k <= LastPlace
  /\ Show(lcd, PlacePainted(Before, paint.k, paint.scrollpos))
  /\ paint' = [paint EXCEPT !.k = @ + 1]
  /\ UNCHANGED <<writer, old, text>>

WriteActive ==
  /\ writer = "paint" /\ paint.k > LastPlace /\ writer' = "check"
  /\ lcd' = [lcd EXCEPT !.active = FALSE]
  /\ paint' = [scrollpos |-> 0, k |-> 0]
  /\ UNCHANGED <<panel, place, old, text>>

NeverMissed == FALSE
ScrollMissed == lcd.scrollpos # old
Missed == ScrollMissed
WriteCheck ==
  /\ writer = "check"
  /\ IF Missed THEN writer' = "repaint" /\ lcd' = [lcd EXCEPT !.active = TRUE]
     ELSE writer' = "idle" /\ UNCHANGED lcd
  /\ old' = 0
  /\ UNCHANGED <<panel, place, paint, text>>

-----------------------------------------------------------------------------
(* alt_lcd_16207_timeout.                                                  *)
LcdTimeout ==
  LET next == IF lcd.scrollpos + 1 >= lcd.scrollmax THEN 0 ELSE lcd.scrollpos + 1
      scrolled == [lcd EXCEPT !.scrollpos = next]
  IN /\ writer \in {"enter", "paint", "check"} => lcd.scrollpos = old
     /\ IF lcd.scrollmax > 0 /\ ~lcd.active THEN Show(scrolled, Painted(next))
        ELSE lcd' = scrolled /\ UNCHANGED <<panel, place>>
     /\ UNCHANGED <<writer, old, paint, text>>

LcdNext ==
  \/ WriteText \/ CarriageReturn \/ LineFeed \/ Backspace \/ Escape
  \/ \E c \in Printable : PutChar(c)
  \/ \E parm1, parm2 \in Parms : MoveCursor(parm1, parm2)
  \/ \E parm1 \in Parms : ClearToEnd(parm1)
  \/ ClearScreen \/ OtherSequence
  \/ Measure \/ WriteOld \/ WriteEnter \/ WritePlace \/ WriteActive \/ WriteCheck
  \/ LcdTimeout

LcdSpec == LcdInit /\ [][LcdNext]_lcdVars

-----------------------------------------------------------------------------
(* Between the writes a working panel shows each line from its own offset  *)
(* at the scroll position, however the alarm fell into the writes before   *)
(* and wherever they left the cursor and the panel's own                   *)
(* (altera_avalon_lcd_16207.c:227-265, 494-511, 531-546).                   *)
PanelShowsLines ==
  (writer = "idle" /\ ~lcd.broken)
    => \A row \in Rows, c \in Columns :
         panel[row][c] = IF lcd.width[row] = 0 THEN Blank
                         ELSE Shown(row, c, lcd.scrollpos)
=============================================================================
