# A verified model of the FPGA TCP web server

This directory holds TLA+ specifications of the web server in `src/` and of the
software and hardware it stands on: a Nios II program that speaks ARP and TCP
without an operating system, answers one browser at a time with one HTML page,
and lets a form on that page drive four LEDs and an LCD; the board support
package that starts it, with its drivers; and the board's own SRAM controller.
The specifications are model-checked with TLC on small instances; what matters
most is proved with TLAPS for every value of the constants.

File names without a path are unique in the repository. The application
(`tcp_socket.c`, `tcp_webserver.c`) is in `src/tcp_webserver/software/tcp_webserver/`,
the board support package (`HAL/`, `drivers/`, `system.h`, `alt_sys_init.c`) in
`src/tcp_webserver/software/tcp_webserver_bsp/`.

## 1. The system

### Components

| Component | Code | State | Operations | Correct when |
|---|---|---|---|---|
| Connection control block, receive handler | `tcp_socket.c` 141-387, 510-557 | `struct tcp_conn`: state, peer, sequence numbers, what is unacknowledged, the mailbox | `rx_ethernet_isr`, `ack_check`, `create_tcp_pkt` | one peer at a time is served in order, and every connection ends |
| Timeout handler | `tcp_socket.c` 389-449 | `secs`, whether TIMER_0 runs | `timeout_isr`, `timer_int_en` | an open connection always has it running |
| Main loop, form parser | `tcp_webserver.c` | `leds`, `lcd_string`, `lcd_string_changed` | poll, parse, drive LEDs, write LCD | a form handed over is shown |
| Ethernet bring-up | `tcp_socket.c` 76-139 | MAC registers | `tse_init`, `sgdma_int_en` | it ends, and no handler runs before its data are there |
| Frame buffers and channels | `tcp_socket.c` 31-52, 141-153, 380-385 | one receive and one transmit buffer, four descriptors | `send_packet`, re-arming reception | no received frame is overwritten before it is answered, a packet at most by the next; reception goes on |
| SGDMA driver | `altera_avalon_sgdma.c` | descriptors, the core's registers, the callback | construct, start, stop, handler | no transfer and no completion is lost |
| Ethernet (TSE) driver | `altera_avalon_tse.c`, its headers | tables of MACs, groups and profiles; registers of MAC and PHYs | registration, bus scan, negotiation, common speed, link check, software reset | tables match the buses, the right PHY is configured, every call returns |
| JTAG UART driver | `altera_avalon_jtag_uart_*.c` | two rings, interrupt enables, host activity | read, write, close, handler, alarm | characters arrive once and in order, no wake-up is lost |
| LCD driver | `altera_avalon_lcd_16207.c` | lines, cursor, escape parser, scroll position | write, init, alarm | the panel shows the lines |
| System clock | `altera_avalon_timer_sc.c`, `alt_tick.c`, `alt_alarm_start.c`, `alt_gettod.c`, `alt_settod.c` | tick count, list of alarms, offset of the day | start, stop, tick, get and set the time | a callback is made on its tick |
| Interrupt layer | `alt_exception_entry.S`, `alt_irq_handler.c`, `alt_iic*.c`, `alt_legacy_irq.h` | table of handlers, enables, priority mask | entry, dispatch, register, enable, nest | the right handler, no enable lost |
| File layer | `alt_open.c`, `alt_close.c`, `alt_fcntl.c`, ... | lists of devices, pool of descriptors, locks | open, close, lock, read, write, ... | the table says what the callers hold |
| Start-up, heap, delays, instruction exceptions | `crt0.S`, `alt_load.c`, `alt_main.c`, `alt_sbrk.c`, `alt_busy_sleep.c`, `alt_instruction_exception_entry.c` | sections, `heap_end` | start, `sbrk`, `usleep` | blocks of memory are apart, delays are long enough |
| Checksums and header fields | `tcp_socket.c` 179-193, 451-506 | none | pure functions | the receiver's check succeeds |
| SRAM controller | `sram_cntrlr.sv` | seven states and their registers | one clock edge | it is a memory of words |
| SGDMA cores | `ethernet_sys_sgdma_0.v`, `ethernet_sys_sgdma_1.v` | registers, descriptors in flight | fetch, write back, end, poll, interrupt | they do what driver and handlers rely on |
| MAC and PCS, processor, interconnect, PIOs | generated and vendor RTL | - | - | - |

### How they interact

A frame arrives by DMA in `rx_frame`; the SGDMA driver's handler calls
`rx_ethernet_isr`, which classifies it, moves the connection on, may build an
answer in `tx_frame` and start the transmit channel, and arms reception again.
TIMER_0 interrupts once a second while it runs and calls `timeout_isr`, which
gives connections up. Both handlers run with interrupts disabled, so neither
interrupts the other; the DMA goes on beside them. The main loop is
interrupted by both at any point. It shares two fields with the receive handler,
`got_html_req` and `payload`, with no protection. The browser sees all of this
only through frames.

Below, the HAL's interrupt layer calls the handlers; `alt_sys_init` hands
TIMER_0 to the system clock first, and `timer_int_en` takes it away again, after
which no alarm is called any more. The drivers share state with their own
handlers, alarms and devices: rings, enables, the scroll position, descriptors,
and, in the TSE driver, one MDIO address register for all PHYs of a bus.

### What is hard

* **One control block.** While a connection is open no other client is answered,
  so a connection that never ends stops the server.
* **The timeouts.** `secs` is compared for equality with 10 and 60. The handlers
  mean to reset it on activity but write a global variable, `set_timer_zero`,
  while `timeout_isr` tests the field `tmr->set_timer_zero` of the same name. So
  `secs` is inherited from one state, and one connection, to the next.
* **The bookkeeping of what was sent.** `last_acked`, `last_sended_len` and
  `command_sent` are set in eleven places, some of them in the timeout handler,
  and `ack_check` compares their sum with what the peer sends.
* **The network.** Segments are lost, duplicated, reordered, and come from other
  clients. The server retransmits nothing.
* **The mailbox.** The receive handler may write `payload` while the main loop
  reads it, and does so even for a SYN.
* **Hardware beside software.** A controller fetches, completes and polls
  descriptors while the driver fills them; a FIFO runs full or empty between two
  register accesses; a link drops between its check and its use.
* **Ownership handed over by convention.** One bit says whose a descriptor is;
  one register says which PHY is addressed; rings are read and written at their
  two ends without a critical section.
* **Words that wrap**: tick count, alarm times, sequence numbers, the products in
  the time of day.
* **Restarts.** A debugger restarts the processor and leaves the devices running
  (`ethernet_sys.v:363`), with their interrupts and the MAC as they were.
* **Hardware timing** in the SRAM controller: two half-word accesses to one word.

`PROJECT.json` lists every hazard at its line with the properties that watch it.

## 2. The modules

| Module | Models | Composed or refined |
|---|---|---|
| `TcpConn` | control block, both interrupt handlers, the main loop's read-and-clear | - |
| `OneShot` | abstract: what a connection promises its peer | refined by `TcpConn` |
| `TcpSession` | the server with real clients and a network | extends `TcpConn` |
| `WebServer` | the main loop beside the handlers | extends `TcpConn` |
| `Checksums` | checksums and header fields, as functions on bytes | - |
| `FrameDma` | buffers, FIFO, descriptors and controllers under both handlers | - |
| `Sgdma` | the SGDMA driver access by access, beside its controller | - |
| `StartUp` | crt0 to the main loop, restarts, resets of the MAC | extends `MacRegs`, `SystemMap` |
| `SystemMap` | addresses, interrupt lines, processor | - |
| `MacRegs` | registers and fields of MAC and PHYs, identification of PHYs | - |
| `PhyLink` | negotiation, common speed and link check on a shared MDIO bus | - |
| `TseSystem` | registration, groups, profiles, bus scan | - |
| `JtagUart` | both JTAG UART drivers with device and host | - |
| `Lcd` | the LCD driver with its alarm and panel | - |
| `AlarmClock` | the system clock's alarms and ticks | refines `Countdown` |
| `Countdown` | abstract: a callback on the n-th tick and no other | refined by `AlarmClock` |
| `WallClock` | time of day | - |
| `Interrupts` | exception entry and exit, registration, enabling, nesting | - |
| `Exceptions` | exceptions of instructions | extends `SystemMap` |
| `Files` | descriptors, devices, file systems, locks | - |
| `Heap` | `sbrk` | - |
| `BusySleep` | `usleep` | extends `SystemMap` |
| `AvalonMemory` | abstract: a memory of words on the bus | refined by `SramCtrl` |
| `SramCtrl` | the SRAM controller with chip and bus master | - |
| `SramCtrlProofs`, `SgdmaProofs`, `PhyLinkProofs` | theorems about the module of that name | extends it |
| `TcpConnProofs` | theorems about `TcpConn` and `Checksums` | extends both |
| `SessionProofs` | theorems about `TcpSession` and `WebServer` | extends both and `TcpConnProofs` |
| `HalProofs` | theorems about `AlarmClock`, `Interrupts`, `Files`, `JtagUart`, `Lcd` | extends the five |
| `BoardProofs` | theorems about `StartUp`, `FrameDma`, `MacRegs`, `BusySleep`, `Heap`, `TseSystem` | extends them |
| `Inductions` | lemmas: the least natural, induction and recursion up to n | extended by the proofs about loops and by those that need a least element |
| `MC...` | small instances for TLC | one per specification; `MCHal` and `MCBoard` for several |

### TcpConn

The variables are the fields of `struct tcp_conn` that are both written and read,
by their names, with `dest` for the address, port and MAC of the peer (the code
compares address and port together and never the MAC). `payload` is the request
last copied in whole and whether a SYN has since torn it. `secs` and `timer_on`
are the timeout handler's; `out` is the packet the last handler sent.

Each path through `rx_ethernet_isr` is an action: `RxArp`, `RxOther`,
`ListenSyn`, `ListenOther`, `SynReceivedAck`, `EstablishedGet`,
`EstablishedFin`, `EstablishedAck`, `FinWaitFin`, `LastAckAck`; `NotAcked` is
the path of those states on which `ack_check` fails after the sequence number
was stored, `Ignored` the paths that store nothing. Each arm of `timeout_isr` is
one too: `TickIdleClose` (the tenth second in ESTABLISHED), `TickDrop` (the
sixtieth in the others), `TickCount`, `TickStop`. `Expected` and `AckedBytes`
are the arithmetic of `ack_check`; `AckPoint` is line 536.

The segments that may arrive are arbitrary: any flags, any numbers, any sender.
Nothing is assumed of the other end.

At `Init` the control block holds anything but its state, as the stack variable
it is. The timer is stopped, because `timer_int_en` writes its period. It had
been running as the HAL's system clock; an interrupt after its handler was
replaced and before `tse_init` sets the global `TCP` reads a state through a NULL
pointer and may count: `secs` starts anywhere up to `NullTicks`. The period was
30 microseconds, far longer than that window, so `NullTicks` is 1 in the code.
`StartUp` models that window itself.

Left out: `window`, written and never read; the global `set_timer_zero`, written
and never read (that it is not the field is modelled by the field never being
set); `acked`, which lives within one handler call.

### OneShot

The promise of the server to its peer, with no word about how it keeps its books:
one peer at a time; the SYN-ACK, then acknowledgments, at most one packet that
carries the page and the FIN, or a FIN alone, then at most one last
acknowledgment; every packet numbered by what was sent before it, and the
connection over only when it was acknowledged or given up. `TcpConn` maps
`Expected`, the only acknowledgment number it accepts, to the number the peer
should send next.

### TcpSession

`TcpConn` with clients that open a connection, may ask once, and close, and that
follow the segment arrival rules of RFC 793: unacceptable segments and
acknowledgments of unsent data are answered with an ACK and dropped;
unacknowledged data are retransmitted. Clients and network are not in this
repository and are marked external. With `Reliable` the channels are FIFO and
lossless and deliver before the next timer tick, and a client closes within a
tick of the server's FIN; otherwise they lose, duplicate and reorder.

### WebServer

`TcpConn` with the main loop read by read: `PollRequest` clears the flag
(`tcp_webserver.c` 51-52), `ReadMark` tests byte 5, `ReadCommand`, `CopyText`
and `ReadSeparator` are one slot of eight bytes each, `DriveLeds` and `WriteLcd`
the outputs. The handlers may run between any two. A request is abstracted to
whether it has a form, its commands in order and its text; a torn payload reads
as line 266 leaves it: the first 24 bytes are those of the SYN's options.

### Sgdma and FrameDma

`Sgdma` is `altera_avalon_sgdma.c`, one access to a register or descriptor a
step. Between any two the controller fetches a descriptor, completes it, polls
the one it stopped at, or interrupts. The controller is translated from the
generated core (`ethernet_sys_sgdma_0.v`): its run signal and what starts it (lines
188, 763-782), the descriptor reader (610-740), the pointer register, which
follows the reader while polling is enabled (263-283), the write-back (811-930) and
what ends a chain or looks at it again (205-230, 301-319). These cores never report
an error, their status words being constant zero; the driver looks for errors, so
in `Sgdma` the last descriptor of a chain may end in one. The client builds chains,
starts them with or without a callback, and may start the next from the callback,
as `rx_ethernet_isr` does. A descriptor's addresses and lengths are one job number.

`FrameDma` is the use the web server makes of it: a chain of one descriptor each
way, one buffer each way, the MAC's FIFO. A buffer is two halves, so that
processor and DMA can meet in the middle of a frame. What the handlers decide is
reduced to whether they send. A constant names what the code relies on and
does not test: `IdleInTime` (the controller goes idle before the program tests
BUSY; the result -EBUSY is ignored). It is assumed, not shown: a controller that
is late would stop the channel, and no run catches that. The wait at line 381 would
not end on a descriptor with an error, which the receive core never writes
(`ethernet_sys_sgdma_1.v` 1756-1763).

### StartUp, SystemMap, MacRegs

`StartUp` runs from the first instruction through `alt_sys_init`, `timer_int_en`
and `tse_init` to the loop, with the timer and the receive channel interrupting
wherever they can, a debugger that restarts the processor at any moment, the MAC
driver's software reset called from the loop, and PHY clocks that come and go.
`SystemMap` and `MacRegs` are the numbers all of this rests on, and hold what
they must satisfy as named assumptions that TLC evaluates: slaves apart and
aligned, the linker's regions in memories, each interrupt line of one device;
the three descriptions of the MAC's registers (byte offsets, struct, and the
word offsets `tcp_socket.c` writes) agree; old and new names of one number agree.
`MacRegs` also has the driver's operations on speed, duplex, MDIO fields and
advertisement, and the identification of PHYs, as operators.

### PhyLink and TseSystem

`PhyLink` is the link management of one group of MACs that share an MDIO bus. A
routine of the driver is a frame on a stack: where it returns to, the address it
saved in its local variable and its counter. PHYs negotiate by themselves and
lose their link between any two register accesses. `TseSystem` is what comes
before: what the application registers, the groups made of it (with `malloc`
failing anywhere), the profiles, and the scan that gives each PHY found to a MAC.

### JtagUart, Lcd, AlarmClock, Interrupts, Files

Each is one driver or layer with what runs beside it. `JtagUart`: both drivers
(this board is built with the small, polled one), the FIFOs, the host, the
interrupt handler and the alarm that notices an absent host. `Lcd`: a character
or escape sequence is a step, and in the repaint each place of the panel; the
alarm, with the repaint its callback makes, falls between any two of them.
`AlarmClock`: the walk over the list, callbacks that start alarms and stop
others (not the one read as next, section 3, nor their own, for which they return
0), the count that wraps; it refines `Countdown`. `Interrupts`: contexts on a
stack, each load and store of `alt_irq_enable` and of the registration a step,
interruptible handlers that let more urgent lines in. `Files`: a call is a step,
because the system has one thread and no handler opens files; drivers may fail.

### Checksums, WallClock, BusySleep, Heap, Exceptions

Small modules. `Checksums`: the two loops and the fold to 16 bits, as functions
on bytes; where `tcp_send` stores the result; and when a receiver's check
succeeds: always for an even length, and for an odd one, like the page's, exactly
if the byte behind the data is zero, as it is in `tx_frame`.
`WallClock`: the two computations of the time of day. `BusySleep`: the turns of
the delay loop, at any word size. `Heap`: `sbrk` under any sequence of requests.
`Exceptions`: what becomes of the program on an exception that is no interrupt.

### SramCtrl and AvalonMemory

A step is a clock edge: the controller's registers (one action per state), the
chip and the master move together. The chip is a pipelined synchronous SRAM:
reads arrive two edges after the address, which is what the controller's wait
state is for. `AvalonMemory` is what the bus relies on: a request is taken when
presented while the memory is ready, carried out once and on the enabled bytes
only, and a read is answered once, with what earlier writes left. The mapping
counts a write as done when it is accepted: the half words not yet in the chip
are taken from the controller's registers.

## 3. What is checked

| Run | Instance | Shows |
|---|---|---|
| `conn` | two peers; six sequence numbers, the page wrapping past zero; every flag, every acknowledgment that could matter and one that does not | `TypeOK`, `TimerCovers`, `SendWindow`; `TcpConn` implements `OneShot` (`KeepsPromise`); a connection that has not run past its timeout ends, whatever the peer does (`ConnectionsEnd`) |
| `conn_page_closed` | one peer, a segment of each kind | **violated**: `PageThenClosed` |
| `session_reliable` | two clients, lossless FIFO channels of three | a client that asks is served and closed in order (`AskedIsServed`), the exchange dies down (`DiesDown`) |
| `session_lossy` | two clients, channels of two and one that lose, duplicate, reorder | a connection is open only with a client that opened it (`EstablishedIsReal`) and forgotten only when all was delivered (`ForgetsOnlyDelivered`) |
| `web_forms` | one peer, two forms | a form handed over is shown unless overwritten (`FormShownUnlessOverwritten`), no text waits unnoticed (`NoTextForgotten`) |
| `sgdma` | three descriptors, two jobs | only finished descriptors are worked on (`OnlyBuilt`), no completion or transfer is lost (`NoLostCompletion`, `NoTransferForgotten`), a blocking transfer returns after its chain (`SyncIsComplete`) |
| `phy` | two MACs, PHYs of five kinds in four set-ups, one loss of a link | `AddressRestored`, `CommonIsShared`, `LeftAtSpeed`, `ReportsOwnLink`, `CallsReturn` |
| `hal` | six parts, each by itself (below) | `InOrder`, `Awake`; `IsCountdown`; `CallsRegistered`, `EnablesKept`, `MoreUrgentOnTop`; `TableIsTrue`, `LockKeepsOut`; `PanelShowsLines`; `GroupsAreBuses`, `OnePhyEach` |
| `files_lock` | the file layer of `hal` | **violated**: `LockIsExclusive` |
| `board` | three parts: start, frames, heap | `HandlersReady`, `ComesUp`; a packet on the wire is overtaken at most by the one after it (`AtMostOneAhead`), no received frame is overwritten before it is answered (`HandlerOwnsFrame`), `NothingStays`; `BlocksApart`; and the assumptions of `SystemMap`, `MacRegs`, `Checksums`, `BusySleep`, `Exceptions` |
| `settod` | words of 64, ten microseconds a second, three ticks a second | **violated**: `SetThenGet` |
| `sram` | two words, whole and partial writes | `Pipeline`, `IsMemory`, `AccessEnds` |

`hal` and `board` run components that share no variable in one model: a variable
`part`, fixed at the start, says which one moves. Nothing is composed there that
interacts; components that interact are composed in `TcpSession`, `WebServer`,
`FrameDma` and `StartUp`.

For every property of the passing runs `PROJECT.json` names a mutant: a
plausible slip in the code, written beside the definition it replaces, with
which TLC finds the property violated.

### The three disagreements the runs show

`conn_page_closed`: the README of the repository says the server "transfers an
HTML page and closes the connection". If the ACK of the SYN-ACK comes after the
tenth tick, ESTABLISHED is entered with `secs` above 10, is never timed out, and
may go past 60; a client that asks only then and falls silent leaves the server
in FIN_WAIT past the value its timeout waits for. `ConnectionsEnd` says what does
hold: from below the timeout, the end comes.

`files_lock`: `alt_fd_lock` looks at the descriptors below `alt_max_fd` (line 61)
and not at `alt_max_fd` itself, the highest ever allocated, so it grants an
exclusive lock on a device that this one has open. Its comment (lines 43-44) says
it grants a lock only if there is no other.

`settod`: `settimeofday` computes the ticks' microseconds in 32 bits,
`gettimeofday` in 64. After 4295 seconds' worth of ticks an immediate
`gettimeofday` does not return what was set, as `alt_settod.c:61-63` says.

### Others met while modelling

Each is in the model as the code has it, or excluded by a guard that names it.

* A SYN that arrives after a request and before the main loop has parsed it
  overwrites the mark at byte 5, and the form is dropped (`tcp_socket.c:266`).
* `tse_init` waits for the MAC's reset without a time-out and without selecting
  the speed that is sure to have a clock, unlike `tse_mac_SwReset`. `ComesUp`
  therefore assumes that the PHY supplies clocks again and again. The comment at
  `tcp_socket.c:129` says promiscuous; the word written lacks PROMIS_EN.
* Between the registration of `timeout_isr` and the write to PERIODL it may run
  with `TCP` still NULL (`tcp_socket.c:444-447`).
* A blocking SGDMA transfer is to "disable interrupt generation", as its comment
  says (`altera_avalon_sgdma.c:202`), but only sets bits in the control word: an
  interrupt enabled before stays enabled.
* `check_link` never ends for a PHY that cannot negotiate
  (`altera_avalon_tse.c:1650-1673`): `CallsReturn` is stated where the PHYs can.
  Lines 326-329 find the array of devices full, print it and write on.
* After a wait the JTAG UART's write gives up when the host has missed any time
  slice, even though its wait ended because room appeared
  (`altera_avalon_jtag_uart_write.c:187`).
* The LCD's ESC K below the last line clears memory behind `line[]`. In this
  build its scrolling ends when `timer_int_en` takes TIMER_0 from the alarms.
* An alarm callback that stops the very alarm the walk has read as next ties the
  walk to it (`alt_tick.c:102`); `IsCountdown` is stated without such callbacks.
* A second packet may overwrite the first in `tx_frame` while the transmit channel
  still reads it (`tcp_socket.c:510`). `AtMostOneAhead` permits that and bounds it.
* `alt_irq_enable` and `alt_irq_disable` ignore the priority mask of an
  interruptible handler (`alt_legacy_irq.h:68-99`); `MoreUrgentOnTop` is stated
  for handlers that do not call them then.
* `close` on a standard stream keeps its exclusive lock, though
  `alt_file.h:101-103` says close gives it up; `alt_find_file` may read past the
  end of a short name.
* `usleep` of a multiple of `INT_MAX / 11` microseconds, above all 195225786,
  runs 2^32 turns more than asked; every delay is one percent short, because a
  microsecond counts as 99 cycles of 100.
* `alt_sbrk.c:45-47` says there is no bounds check; line 88 has one, against the
  address the stack starts from, so heap and stack are not kept apart.
* `alt_exception_entry.S:275-278` calls the return code 0 "skip"; 0 reissues.
* `get_tcp_checksumm` counts in 16 bits and would never end at a length of 65535,
  `get_ipv4_checksumm` in 8 and would not at 255; nothing that long is sent.
* 33333 ticks of 30 microseconds count as a second: the time of day is fast by 10
  microseconds a second.

### Bounds, and why they are enough

* **Connection.** Sequence numbers are compared only for equality and added to,
  so a space just large enough to keep the interesting numbers apart shows
  everything, and one small enough that the page wraps shows the wrap:
  `SeqSpace = 6`, `ISS = 4`, `PageLen = 2`. `TcpSession` compares numbers with
  `<=` at the clients and uses a space that does not wrap. `EstTimeout` and
  `CloseTimeout` keep their order; `SecsMax` is one past the larger, where
  counting further makes no difference (until the `int` wraps after 68 years).
  Payload lengths 0, 1 and 2 are the three cases the code tells apart. Two
  clients are as many as one control block can confuse.
* **Lossy network.** Two segments and one packet in flight are enough for a
  stale segment beside a current one. With three, a SYN and an ACK of an earlier
  connection can open one the client does not know: the initial sequence number
  is a constant. That is in the hazard list and not among the properties.
* **SGDMA.** Three descriptors: a chain of two and the one it stops at. Two jobs:
  an old and a new one.
* **PHYs.** Two on a bus are what can be confused; thresholds of 0 make the first
  poll the last, and the counter is tested for equality with nothing else. The
  four set-ups bring together gigabit and fast, known and unknown, negotiating and
  fixed PHYs, and MACs with and without a PHY.
* **HAL.** Console: rings and FIFOs of two, two characters each way: full, empty
  and wrapped. Alarms: three on a count that wraps at six, delays 1, 2 and 4: the
  list has a head, a middle and an end, and times on both sides of the wrap.
  Interrupts: three lines and one handler, so that nesting is two deep. Files: two
  descriptors besides the standard streams, two devices besides `/dev/null`, a
  file system that fails to open. Display: two rows of two, lines of three: a line
  that scrolls and one that does not. Tables: at most three MACs, a MAC of two
  channels, buses of two addresses.
* **Board.** Two restarts: one may come while the other's start is under way.
  Three frames through a FIFO of two, one timer tick: the FIFO is full, and two
  packets follow each other at once. A heap of fourteen bytes that starts off a
  word's boundary.
* **SRAM.** Two words, each written in whole or in part, are enough for a byte to
  land in the wrong lane, half or word.

### Fairness

* `conn`: the timer interrupt is taken again and again while the timer runs (a
  periodic hardware interrupt; both handlers terminate). Nothing is assumed of
  the peer.
* `session_reliable`: in addition frames are delivered and clients go on: they
  close what the server has closed, and retransmit.
* `web_forms`: the processor returns to the main loop (the handlers are finite).
* `phy`: the driver goes on. Nothing is assumed of the PHYs.
* `board`, start: strong fairness of the program (its next step waits until no
  interrupt can be taken, and a handler takes less than a tick) and of the end of
  the MAC's reset (clocks that come back stay for the few cycles it takes), weak
  fairness of the handlers. Frames: weak fairness of the DMA engines, of their
  going idle, and of the program.
* `sram`: the clock runs.

## 4. What is proved

For all values of the constants that satisfy the named assumptions. Every
invariant a passing run checks is also a theorem, and so is every action
property and every refinement. The runs check the same formulas on the instances of section 3; the
inductive invariants below were checked by TLC before they were proved.

Induction over data goes through sets: the library's induction theorems take the
property as an operator, which the provers cannot instantiate, but it may as well
be the set of the numbers that have it. `Inductions` proves from the
well-foundedness of the naturals that a set of them has a least element, that a
set with 0 and each successor up to n has every number up to n, and that a
recursion over `0 .. n` whose steps stay in a set has a solution. The display's
repaint and the checksums' loops rest on it.

### The connection, its clients and the main loop

`TcpConnProofs` (any peers, any set of segments, any sequence space and page
length, any timeouts in their order):

* `ConnInvariant`: `ConnInv` is invariant;
* `TypeCorrect`, `TimerAlwaysCovers`, `SendWindowAlways`: the three invariants
  `conn` checks;
* `Refinement`: `TcpConn` implements `OneShot`.

`ConnInv` is the conjunction of those three with `TimerZeroNeverSet`, which says
that the branch of `timeout_isr` on its own flag is never taken: the numbering
needs the types, and the refinement needs both. The heart is `SendWindow`: for every state it
says what has been sent and not acknowledged. In SYN_RECEIVED and ESTABLISHED
that is the SYN-ACK or nothing (an accepted acknowledgment adds nothing to
`last_acked`, because `last_sended_len` is zero, and so the acceptable number
stays `ISS + 1`); in FIN_WAIT the page with its FIN, or the FIN of the idle
timeout, told apart by `command_sent`; in LAST_ACK a FIN sent with
`command_sent` false. The proof goes path by path; the refinement proof uses the
invariant to compute `Expected` before and after each path.

For `Checksums`, also in `TcpConnProofs` (any bytes, any length):

* `Ipv4HeaderVerifies`, `TcpSegmentVerifies`: the receiver's check succeeds on
  every header with its checksum stored, and on a segment with its pseudo header
  exactly when its length is even or the byte behind it is zero;
* `SumsFit`: neither the counter nor the sum wraps at any length to 65534.

The fold leaves a sum its rest by 65535, with 65535 for a multiple that is not
zero (`FoldedIs`, by the least sum for which it would not); so a sum and its
complement fold to 65535, and a byte less than that does not (`LessAByte`).
Storing the checksum adds it to the sum of the words, because two memories that
differ in one word have sums that differ by as much (`SumsDiffer`, by induction
over the words).

`SessionProofs` (any clients and requests, channels of any length, on a reliable
network and on one that loses, duplicates and reorders). `SessionAssumption`
says that page and request are longer than one byte and the numbers of one
connection do not wrap, which the clients' `<=` needs, and that `TcpConn` admits the clients'
segments:

* `SessionRunsConn`, `ClientsGetThePromise`: the composed system takes only
  steps of `TcpConn`, so all of the above holds in it, `OneShot` included;
* `EstablishedIsAlwaysReal`: `EstablishedIsReal`;
* `ForgetsOnlyTheDelivered`: `ForgetsOnlyDelivered`.

The server believes an acknowledgment on its number alone. What makes it right to
do so is in `SessionInv`: every segment in the network that acknowledges a number
was sent by a client that has received what the number stands for (`KnowsOf`).
This has to hold of messages sent long ago and of copies, because the network
keeps both, and of the clients' next numbers as well as of the messages, because
the messages are made from them.

For `WebServer`, with any requests: `NoTextIsForgotten`, `NoTextForgotten` for
every content of the buffer, torn ones included; and `LoopKeepsThePromise`, that
the main loop's reads and clears between the handlers' steps leave the
connection an implementation of `OneShot`.

### Frames and descriptors

`BoardProofs`, for `FrameDma` (any number of frames and ticks, any FIFO, whether or not
controllers go idle in time):

* `WireIsAtMostOneAhead`: `AtMostOneAhead`. `TxOwner` ties the ownership bit to
  the count of what is on the wire: a packet is started only when the one before
  it has been read out, so what is composed meanwhile is the next one. The
  bound on the packets (`Budget`) rests on frames leaving the FIFO in order.
* `HandlerKeepsFrame`: `HandlerOwnsFrame`. `RxOwner`: from the interrupt to the
  start of the next reception the receive controller rests.

`SgdmaProofs` (any set of descriptors, any number of jobs): `WorksOnBuilt`,
`CompletionsAreSeen`, `TransfersAreCarriedOut`, `SyncReturnsDone` for the four
properties of `sgdma`. None of the four is inductive. A descriptor is named in
four places that change at different times: the pointer register, the
controller's next address, the next field of another descriptor, and the chain
the caller built. `SgdmaInv` says of each place that what it names is not the
controller's or completely built; that from the pointer on the controller walks
along next fields, so that the first descriptor it does not own is the one where
the unfinished part of the chain begins; and, for each step of `async` and
`sync`, what the writes so far have made sure of. Before the driver's own initialisation the registers are what a restart left in
them and nothing has been built (`FreshOK`); that case is separate.

The proof corrected the model once. The ghost `chain`, the part of the last
transfer still to be done, was cut at the wrong place when a descriptor was
completed that the client had linked into an older chain; with three descriptors
that never shows. With four descriptors and four jobs it does: TLC then finds
`NoTransferForgotten` violated under the old ghost, and holds it under `Without`.

### The Ethernet driver

`PhyLinkProofs` (any MACs, PHYs and link partners, any time-outs, links that come
and go at any moment): `PhyInvariant`, and from it the action properties
`AddressRestored`, `CommonIsShared`, `LeftAtSpeed` and `ReportsOwnLink`. The four
speak of one step each; what they need of the states is where the driver is.
`PhyInv` says at every place which routines have called which, that each has
saved the address its caller left, that the bus is at the PHY of the MAC whenever
a register is read, which PHYs have been counted in this call, and what the
common speed has done so far to the PHY that is being set.

`BoardProofs`, for `TseSystem` (any systems with any number of channels, any
number of sharing MACs, buses, addresses and profiles, `malloc` failing or not):

* `GroupsAreAlwaysBuses`: `GroupsAreBuses`. That two groups are disjoint follows
  from each beginning behind the one before. That a group is exactly the devices of
  one bus, all channels of a MAC or all MACs of a shared block and no stranger, needs
  more: while memory lasts the devices fall
  into runs, the channels of one MAC or the MACs of one block, and the next group
  begins where a run does (`RunsOK`). Marking MACs as shared merges runs of one;
  every other step keeps them.
* `OnePhyForEach`: `OnePhyEach`. `PhysOK` puts the scan's progress into it: MACs of
  the groups ahead have no PHY, those of the group being scanned only PHYs of
  lower addresses, and each address passed is served: its PHY has a MAC, or no MAC
  of the group would take it. That a PHY given out is never given up again rests
  on the MAC's address field then naming it (`NamesOK`).

Two bounds that stood inside `TseSystem`'s actions, at most two channels and
sharing by two or three MACs, are gone; `MaxNets` alone bounds the run.

For `MacRegs`: `FieldReadsBack` and `FieldLeavesRest` (a field of an MDIO
register reads back as written and the others stay, for every field and datum),
`SpeedAndDuplex`, `MarvellSwitches` (one configuration undoes another),
`AdvertisesOneSpeed` (enabling one speed leaves the others' advertisement).

### The hardware abstraction layer

`HalProofs`:

* Alarms (any alarms, any size of the tick count, any delays below it).
  `AlarmInvariant`: every alarm's time and flag together stand for at most
  `TickWords - 1` ticks to come, and during a tick exactly the alarms the walk
  has still to reach may be due. `AlarmsAreOnTime`: the alarm facility implements
  `Countdown`. The flag is what makes it work: a time below the count is due, or
  beyond the wrap, and only the flag tells which.
* Interrupts (any number of lines and handlers, any depth of nesting).
  `HandlersAreRegistered`, `EnablesAreKept` and `NestingIsByUrgency`. The shared
  words are read and written back in separate steps by code at every level of a
  stack of contexts. `IrqInv` says where each context on the stack may stand
  (only outside the calls, which run with interrupts off), what the mask is at
  each depth, and that the enables are those asked for but for the one value the
  call on top is about to store; and while a handler is being registered or
  removed, which half of its entry is new. `InterruptsAssumption` asks that `Nobody` is none of the other
  values it is compared with.
* Files (any number of descriptors, devices, file systems and drivers, calls that
  fail anywhere). `TableIsAlwaysTrue` and `LockKeepsOthersOut`: `FilesInv` adds
  that every descriptor the program holds is at most `alt_max_fd`, on which the
  search for a lock rests, that only devices are ever locked, and that what a
  descriptor names is in the list of devices if it is one, and that list and the
  list of file systems are apart.
* JTAG UART (rings and FIFOs of any length, any number of characters, any
  time-out, handler and alarm anywhere). `NothingIsLost` and `NoWakeUpIsLost` for
  `InOrder` and `Awake`. `JtagInv` follows the numbered characters through ring and
  FIFO at every access, and bounds what a caller or the handler may still fill or
  give back on the strength of an index it has read: the other end only moves
  away from it, so a stale index claims too little room or too few characters,
  never too much. `Awake` is part of it: a wait is only as good as the enable
  written before it. `JtagUartAssumption` asks that the default time-out fits
  the `int` it is stored in.

* Display (any panel, any longer line, any characters and numbers in sequences).
  `PanelAlwaysShows` for `PanelShowsLines`. `LcdInv` adds who may touch the panel
  (`ActiveOK`), that panel and driver agree on what is shown and where the next
  character goes (`PanelFollows`), which places of a repaint are done, from which
  scroll position (`PaintOK`), and that at the write's last look the panel shows
  the lines unless the scroll position has moved since the repaint began
  (`ShowsOK`), on which the decision to repaint again rests. That the alarm's
  repaint, one step here, leaves every place as it should is an induction over
  the places (`PaintedIs`). The model repainted in one step also for a write; that
  hid where the alarm can really fall, and is gone.

### The board

`SramCtrlProofs` (any set of word addresses, any values of a byte, any set of
accesses the master may make):

* `SramInvariant`, and from it `SramTypeCorrect` and `PipelineAlways`;
* `SramImplements`: controller and chip implement `AvalonMemory`.

`SramInv` is `TypeOK /\ Pipeline`. Neither is inductive alone: that `data_in`
holds a half word, and not what a floating bus gives, is a matter of where the
read is in the chip's two stages, which `Pipeline` says state by state. The
refinement goes by what an edge is to the bus: `TakeMap`, `RestMap`, `WorkMap`,
`FinishMap`. Its one subtle lemma is `LatchContents`: the edge that puts a half
word in the chip changes nothing the bus sees, because until then that half was
taken from `data_out`. It rests on `HalfUnique`: different halves of different
words have different addresses.

`BoardProofs` also holds:

* for `StartUp` (any number of restarts and software resets)
  `HandlersAlwaysReady`: `HandlersReady` for every reachable state. `StartInv`
  says stage by stage what the start has done. Its one subtle part is
  `TimerQuiet`: once PERIODL is written the timer is halted, the step to
  `tse_init` waits until the last request has been taken, and nothing but
  `rx_ethernet_isr`, not yet registered, starts it again. So `timeout_isr` runs
  with `TCP` NULL only in the window named above;
* for `BusySleep` `EnoughTurns`: no turn of the delay loop is missing, for every
  word size, clock and argument;
* for `Heap` `BlocksStayApart`: blocks granted by `sbrk` never overlap or pass the
  limit, for every heap and every sequence of requests. The inductive invariant
  adds that `heap_end` lies between start and limit, and that every block lies
  below it.

### Only model-checked

* Liveness: `ConnectionsEnd`, `AskedIsServed`, `DiesDown`,
  `FormShownUnlessOverwritten`, `CallsReturn`, `ComesUp`, `NothingStays`,
  `AccessEnds`. Fairness and ENABLED are out of the prover's reach.
* The named assumptions of `SystemMap` and `Exceptions`, and the examples of
  `Checksums`, which TLC evaluates, and `WallClock`, of which only the disagreement is checked.

## 5. What is not modelled

* Vendor and generated hardware: processor, interconnect, MAC, PCS, PIOs, reset
  controllers, and of the SGDMA cores the data paths, FIFOs and clock cycles. Where
  a driver needs one (FIFO, PHY, panel, chip) it is modelled from how the code uses
  it and marked external.
* The board's top level: wiring and a reset counter. It leaves the SRAM
  controller's `dq` and `addr` pins unconnected at this commit; `SramCtrl`
  connects them to a chip of the kind its timing is made for.
* The MSGDMA routines of the TSE driver and the uC/OS-II branches, which are not
  compiled for this system.
* Of the HAL: cache routines that are empty on a processor without caches, the
  environment, the POSIX calls that only return an error, `alt_printf`, the log
  and profiling, which nothing of this system enables.
* The text of the HTML page, whose length is `PageLen`, and the counter of the
  timer core: only whether it runs, its period and its request.

## 6. How it might grow

A composition of `FrameDma` with `TcpConn` would replace the free choice of
whether a handler sends. The decision in `FrameDma` that `IdleInTime` holds could
be derived from a model of the core's clock cycles.
