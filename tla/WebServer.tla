------------------------------ MODULE WebServer ------------------------------
(***************************************************************************)
(* The main loop of tcp_webserver.c beside the interrupt handlers of       *)
(* TcpConn.  The handlers leave a request in TCP->payload and raise        *)
(* got_html_req; the loop clears the flag, reads the bytes one after the   *)
(* other while the handlers go on, and drives the LEDs and the LCD.        *)
(*                                                                         *)
(* A request is read in slots of eight bytes ("led1=en&"): byte 5 says     *)
(* whether there is a form at all, each slot holds a command and ends with *)
(* a separator.  The copy a SYN leaves covers bytes 0..23: the mark, slots *)
(* 0 and 1 and the first bytes of slot 2.  Reading one slot is one step,   *)
(* copying the LCD text is a step that another copy can fall into.         *)
(***************************************************************************)
EXTENDS TcpConn, Sequences

CONSTANTS Texts,     \* texts for the LCD
          NoText,    \* the empty text: the display is left as it is
          Garbled    \* a text copied from two different requests

Leds == {"led1", "led2", "led3"}
Commands == Leds \cup {"lcd", "other"}
Slots == 0 .. 3

(* Every request with a form names its checked boxes in order and then     *)
(* "lcd", as a browser sends them; a plain "GET / " carries no form.       *)
ASSUME RequestAssumption ==
  /\ \A r \in Requests : /\ r.form \in BOOLEAN
                         /\ r.cmds \in Seq(Commands)
                         /\ Len(r.cmds) <= 4
                         /\ r.text \in Texts \cup {NoText}
  /\ NoText \notin Texts /\ Garbled \notin Texts \cup {NoText}

VARIABLES
  pc,                 \* where main is in its loop
  slot,               \* its i
  copying,            \* what payload held when a copy of a text began
  leds,               \* leds
  pio,                \* what PIO_1 was last given, as lit LEDs
  lcd_string,         \* lcd_string and lcd_string_len
  lcd_string_changed, \* lcd_string_changed
  display             \* what the LCD shows

mainVars == <<pc, slot, copying, leds, pio, lcd_string, lcd_string_changed, display>>
webVars == <<vars, mainVars>>

-----------------------------------------------------------------------------
(* What a read of payload may find.  After a SYN the mark is a byte of its *)
(* options, never '?'; a slot it covers holds no command, or the old one   *)
(* where the bytes behind the SYN in rx_frame are those of the request     *)
(* before it.  A payload that was never written holds anything.            *)

MarkRead(p) ==
  IF p.req = NoRequest THEN BOOLEAN ELSE {p.req.form /\ ~p.torn}

CommandRead(p, i) ==
  IF p.req = NoRequest THEN Commands
  ELSE {c \in Commands : \/ i < Len(p.req.cmds) /\ c = p.req.cmds[i + 1]
                         \/ i >= Len(p.req.cmds) /\ c = "other"
                         \/ p.torn /\ i <= 2 /\ c = "other"}

AmpersandRead(p, i) ==
  IF p.req = NoRequest \/ (p.torn /\ i <= 1) THEN BOOLEAN
  ELSE {i + 1 < Len(p.req.cmds)}

NothingCopied == [req |-> NoRequest, torn |-> FALSE]

TextRead(p) ==
  IF p.req = NoRequest THEN {Garbled, NoText}
  ELSE IF payload = p THEN {p.req.text}
  ELSE {Garbled, p.req.text, payload.req.text}

-----------------------------------------------------------------------------
(* The uninitialised numbers are overwritten by the first SYN before       *)
(* anything reads them; the flag and the payload are not.                  *)
WebInit ==
  /\ Init
  /\ seq_num = 0 /\ rec_payload_len = 0 /\ last_acked = 0
  /\ last_sended_len = 0 /\ ~command_sent
  /\ payload = [req |-> NoRequest, torn |-> FALSE]
  /\ pc = "poll" /\ slot = 0 /\ copying = NothingCopied
  /\ leds = {} /\ pio = {}
  /\ lcd_string = NoText /\ lcd_string_changed = FALSE
  /\ display = NoText

At(here, next) == pc = here /\ pc' = next

PollRequest ==                          \* line 51, 52
  /\ At("poll", "mark")
  /\ MainTakeRequest
  /\ UNCHANGED <<slot, copying, leds, pio, lcd_string, lcd_string_changed, display>>

PollNothing ==
  /\ ~got_html_req
  /\ At("poll", "drive")
  /\ UNCHANGED <<vars, slot, copying, leds, pio, lcd_string, lcd_string_changed, display>>

ReadMark ==                             \* line 53, 54
  /\ \E form \in MarkRead(payload) :
       IF form THEN At("mark", "command") /\ leds' = {} /\ slot' = 0
               ELSE At("mark", "drive") /\ UNCHANGED <<leds, slot>>
  /\ UNCHANGED <<vars, copying, pio, lcd_string, lcd_string_changed, display>>

ReadCommand ==                          \* line 57 and get_command
  /\ \E c \in CommandRead(payload, slot) :
       \/ /\ c # "lcd" /\ At("command", "separator")
          /\ leds' = leds \cup ({c} \cap Leds)
          /\ UNCHANGED copying
       \/ /\ c = "lcd" /\ At("command", "text")
          /\ copying' = payload
          /\ UNCHANGED leds
  /\ UNCHANGED <<vars, slot, pio, lcd_string, lcd_string_changed, display>>

CopyTextNoFlag ==                       \* mutant of CopyText
  /\ At("text", "separator")
  /\ lcd_string' \in TextRead(copying)
  /\ copying' = NothingCopied
  /\ UNCHANGED <<vars, slot, leds, pio, lcd_string_changed, display>>

CopyText ==                             \* lines 91-103
  /\ At("text", "separator")
  /\ lcd_string' \in TextRead(copying)
  /\ lcd_string_changed' = TRUE
  /\ copying' = NothingCopied
  /\ UNCHANGED <<vars, slot, leds, pio, display>>

ReadSeparator ==                        \* lines 55, 58, 59
  /\ \E more \in AmpersandRead(payload, slot) :
       IF more /\ slot < 3
       THEN At("separator", "command") /\ slot' = slot + 1
       ELSE At("separator", "drive") /\ slot' = 0
  /\ UNCHANGED <<vars, copying, leds, pio, lcd_string, lcd_string_changed, display>>

DriveLedsClears ==                      \* mutant of DriveLeds: the flag is
  /\ At("drive", IF lcd_string_changed THEN "lcd" ELSE "poll")
  /\ got_html_req' = FALSE              \* cleared after the parse, not before
  /\ pio' = leds
  /\ UNCHANGED <<conn, payload, timer, out>>
  /\ UNCHANGED <<slot, copying, leds, lcd_string, lcd_string_changed, display>>

DriveLeds ==                            \* line 63, 64
  /\ At("drive", IF lcd_string_changed THEN "lcd" ELSE "poll")
  /\ pio' = leds
  /\ UNCHANGED <<vars, slot, copying, leds, lcd_string, lcd_string_changed, display>>

WriteLcd ==                             \* line 65, 66
  /\ At("lcd", "poll")
  /\ display' = IF lcd_string = NoText THEN display ELSE lcd_string
  /\ lcd_string_changed' = FALSE
  /\ UNCHANGED <<vars, slot, copying, leds, pio, lcd_string>>

MainStep ==
  \/ PollRequest \/ PollNothing
  \/ ReadMark \/ ReadCommand \/ CopyText \/ ReadSeparator
  \/ DriveLeds \/ WriteLcd

(* Frames that are not segments for the server touch neither the           *)
(* connection nor the payload and are left to TcpConn.                     *)
WebNext ==
  \/ (TimeoutIsr \/ \E f \in Segments : RxSegment(f)) /\ UNCHANGED mainVars
  \/ MainStep

(* The handlers are finite and the processor returns to main.              *)
WebSpec == WebInit /\ [][WebNext]_webVars /\ WF_webVars(MainStep)

-----------------------------------------------------------------------------
Boxes(r) == {c \in Leds : \E i \in DOMAIN r.cmds : r.cmds[i] = c}

(* The board shows request r: its boxes and, if it has one, its text.      *)
Shows(r) == pio = Boxes(r) /\ (r.text # NoText => display = r.text)

Kept(r) == payload = [req |-> r, torn |-> FALSE]

(* A form that the handler has handed over is shown, unless another frame  *)
(* is copied over it first: whatever the loop was doing, clearing the flag *)
(* before reading loses no request (tcp_webserver.c:51-68).                *)
FormShownUnlessOverwritten ==
  \A r \in Requests :
    (r.form /\ got_html_req /\ Kept(r)) ~> (Shows(r) \/ ~Kept(r))

(* The text is on its way to the LCD exactly while the flag is up, so no   *)
(* text waits unnoticed (tcp_webserver.c:64-66, 100-103).                  *)
NoTextForgotten ==
  ~lcd_string_changed /\ lcd_string # NoText => display = lcd_string
=============================================================================
