----------------------------- MODULE SystemMap -----------------------------
(***************************************************************************)
(* What Platform Designer tells the program of the hardware: the address   *)
(* map and the interrupt lines of system.h and the linker's regions of     *)
(* linker.h.  The program reaches every device through these numbers.      *)
(***************************************************************************)
EXTENDS Integers

(* A slave on the processor's data bus; irq is -1 where it has no line.    *)
Slave(base, span, irq) == [base |-> base, span |-> span, irq |-> irq]

DESCRIPTOR_MEMORY == Slave(\h210000, 4096, -1)
ETH_TSE_0 == Slave(\h212000, 1024, -1)
JTAG_UART_0 == Slave(\h2124d0, 8, 3)
LCD_16207_0 == Slave(\h2124c0, 16, -1)
ONCHIP_MEMORY2_0 == Slave(\h208000, 32768, -1)
PIO_0 == Slave(\h2124b0, 16, -1)
PIO_1 == Slave(\h2124a0, 16, -1)
SGDMA_0 == Slave(\h212440, 64, 1)
SGDMA_1 == Slave(\h212400, 64, 0)
SRAM_CNTRLR_0 == Slave(\h0, 2097152, -1)
TIMER_0 == Slave(\h212480, 32, 2)

Memories == {DESCRIPTOR_MEMORY, ONCHIP_MEMORY2_0, SRAM_CNTRLR_0}
Slaves == Memories \cup {ETH_TSE_0, JTAG_UART_0, LCD_16207_0, PIO_0, PIO_1,
                         SGDMA_0, SGDMA_1, TIMER_0}
Lines == {s.irq : s \in Slaves} \ {-1}

(* What the SGDMA cores' own masters see of the on-chip memory.            *)
SGDMA_0_M_READ == {Slave(\h208000, 32768, -1)}
SGDMA_1_M_WRITE == {Slave(\h208000, 32768, -1)}

(* TIMER_0 as it comes out of reset: counts of its clock.                  *)
TIMER_0_FREQ == 100000000
TIMER_0_LOAD_VALUE == 2999
TIMER_0_TICKS_PER_SEC == 33333

(* The processor, under the names in use and under the older ones that     *)
(* some of the HAL still uses: no caches, nothing to multiply with.        *)
ALT_CPU == [BREAK_ADDR |-> \h211820, EXCEPTION_ADDR |-> \h208020,
            RESET_ADDR |-> \h208000, FREQ |-> 100000000,
            CPU_IMPLEMENTATION |-> "tiny", BIG_ENDIAN |-> FALSE,
            DATA_ADDR_WIDTH |-> 22, INST_ADDR_WIDTH |-> 22,
            DCACHE_SIZE |-> 0, ICACHE_SIZE |-> 0, HARDWARE_MULTIPLY |-> FALSE,
            HARDWARE_DIVIDE |-> FALSE, HAS_DEBUG |-> TRUE]
NIOS2 == [BREAK_ADDR |-> \h211820, EXCEPTION_ADDR |-> \h208020,
          RESET_ADDR |-> \h208000, FREQ |-> 100000000,
          CPU_IMPLEMENTATION |-> "tiny", BIG_ENDIAN |-> FALSE,
          DATA_ADDR_WIDTH |-> 22, INST_ADDR_WIDTH |-> 22,
          DCACHE_SIZE |-> 0, ICACHE_SIZE |-> 0, HARDWARE_MULTIPLY |-> FALSE,
          HARDWARE_DIVIDE |-> FALSE, HAS_DEBUG |-> TRUE]

(* The device behind each standard stream.                                 *)
Stdio == [ALT_STDIN_BASE |-> \h2124d0, ALT_STDOUT_BASE |-> \h2124d0,
          ALT_STDERR_BASE |-> \h2124d0]

(* linker.h: where the sections may go.                                    *)
Regions == {Slave(\h210000, 4096, -1), Slave(\h208020, 32736, -1),
            Slave(\h208000, 32, -1), Slave(\h0, 2097152, -1)}

Within(r, s) == s.base <= r.base /\ r.base + r.span <= s.base + s.span
Apart(r, s) == r.base + r.span <= s.base \/ s.base + s.span <= r.base
At(address, s) == s.base <= address /\ address < s.base + s.span

(* Every address reaches one slave and every line comes from one; a slave  *)
(* lies at a multiple of its span, as the bus decodes it, and the          *)
(* registers of the MAC end with its span.                                 *)
ASSUME SlavesApart ==
  /\ \A s, t \in Slaves : s = t \/ (Apart(s, t) /\ (s.irq = t.irq => s.irq = -1))
  /\ \A s \in Slaves : s.base % s.span = 0
  /\ Lines = 0 .. 3

(* The linker's regions divide up memories; the code the processor starts  *)
(* at, and its exception handler, are in the one that keeps the program.   *)
ASSUME RegionsInMemories ==
  /\ \A r \in Regions : \E m \in Memories : Within(r, m)
  /\ \A r, s \in Regions : r = s \/ Apart(r, s)
  /\ At(ALT_CPU.RESET_ADDR, ONCHIP_MEMORY2_0)
  /\ At(ALT_CPU.EXCEPTION_ADDR, ONCHIP_MEMORY2_0)

(* Old and new names agree; the processor's address lines reach every      *)
(* slave, and the debugger's break address is none of theirs; the standard *)
(* streams are the JTAG UART.                                              *)
ASSUME ProcessorFits ==
  /\ NIOS2 = ALT_CPU
  /\ \A s \in Slaves : /\ s.base + s.span <= 2 ^ ALT_CPU.DATA_ADDR_WIDTH
                        /\ ~At(ALT_CPU.BREAK_ADDR, s)
  /\ \A m \in Memories : m.base + m.span <= 2 ^ ALT_CPU.INST_ADDR_WIDTH
  /\ \A name \in DOMAIN Stdio : Stdio[name] = JTAG_UART_0.base

(* The cores move frames from and to where the processor sees them.        *)
ASSUME MastersAgree ==
  SGDMA_0_M_READ \cup SGDMA_1_M_WRITE \subseteq Memories

(* The tick rate is the timer's, cut to an integer: the system clock runs  *)
(* fast by ten microseconds in a second.                                   *)
ASSUME TickRate ==
  /\ TIMER_0_TICKS_PER_SEC = TIMER_0_FREQ \div (TIMER_0_LOAD_VALUE + 1)
  /\ TIMER_0_FREQ % TIMER_0_TICKS_PER_SEC # 0
=============================================================================
