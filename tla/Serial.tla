------------------------------- MODULE Serial -------------------------------
(***************************************************************************)
(* kernel/arch/i386/serial.c and the UART behind COM1, which runs beside   *)
(* the CPU: it shifts bytes out (or, in loopback mode, back in) and        *)
(* receives bytes from the peer between any two instructions of the        *)
(* driver. The driver's register writes are its own, in its order; the     *)
(* registers do what serial.c relies on. The port may be absent: then      *)
(* writes vanish and every read gives 0xFF.                                *)
(***************************************************************************)
EXTENDS Naturals, Sequences

CONSTANTS
  PeerBytes,   \* what the other end may send
  Strings,     \* what callers pass to serial_com1_write_string
  FifoSize,    \* bytes that each of the UART's two queues holds (16)
  MaxWritten,  \* bound: bytes that callers write
  MaxArrived,  \* bound: bytes that the peer sends
  MaxRead      \* bound: calls of serial_read_byte

Byte == 0 .. 255
TestByte == 174          \* 0xAE

ASSUME SerialAssumption ==
  /\ PeerBytes \subseteq Byte
  /\ Strings \subseteq Seq(Byte)
  /\ FifoSize \in Nat \ {0}
  /\ MaxWritten \in Nat
  /\ MaxArrived \in Nat
  /\ MaxRead \in Nat

VARIABLES
  present,     \* whether there is a UART at COM1_PORT
  dlab,        \* LCR bit 7: the data register is the divisor
  divisor,     \* <<low byte, high byte>>
  ier,         \* the interrupt enable register
  loopback,    \* MCR bit 4
  tx, rx,      \* the transmit and the receive queue
  wire,        \* history: what left the port
  arrivals,    \* bytes the peer has sent
  received,    \* history: what entered rx since serial_init returned
  quiet,       \* history: only the port's own echo could answer the test
  left,        \* history: what was in rx when serial_init returned true
  pc,          \* where the driver is
  step,        \* the next register write of serial_init
  serial_ok,   \* what serial_init returned
  pending,     \* what serial_com1_write_string has still to write
  written,     \* history: the bytes given to serial_write_byte
  returned     \* history: the bytes serial_read_byte returned

config == <<dlab, divisor, ier, loopback>>
uart == <<present, config, tx, rx, wire, arrivals, received, quiet, left>>
driver == <<pc, step, serial_ok, pending, written, returned>>
vars == <<uart, driver>>

-----------------------------------------------------------------------------
(* The UART. *)

Bit(value, n) == (value \div 2 ^ n) % 2 = 1

Enqueue(queue, byte) == IF Len(queue) < FifoSize THEN Append(queue, byte) ELSE queue

(* A write to one of the port's registers. *)
outb(reg, value) ==
  /\ dlab' = IF present /\ reg = "LINE_CTRL" THEN Bit(value, 7) ELSE dlab
  /\ divisor' = IF present /\ dlab /\ reg = "DATA" THEN <<value, divisor[2]>>
                ELSE IF present /\ dlab /\ reg = "INT_ENABLE" THEN <<divisor[1], value>>
                ELSE divisor
  /\ ier' = IF present /\ ~dlab /\ reg = "INT_ENABLE" THEN value ELSE ier
  /\ loopback' = IF present /\ reg = "MODEM_CTRL" THEN Bit(value, 4) ELSE loopback
  /\ tx' = IF present /\ reg = "INT_ID" /\ Bit(value, 2) THEN <<>>
           ELSE IF present /\ ~dlab /\ reg = "DATA" THEN Enqueue(tx, value)
           ELSE tx
  /\ rx' = IF present /\ reg = "INT_ID" /\ Bit(value, 1) THEN <<>> ELSE rx
  /\ UNCHANGED <<present, wire, arrivals>>

(* A byte's time on the line is over. *)
Shift ==
  /\ tx # <<>>
  /\ tx' = Tail(tx)
  /\ IF loopback
     THEN /\ rx' = Enqueue(rx, Head(tx))
          /\ UNCHANGED wire
     ELSE /\ wire' = Append(wire, Head(tx))
          /\ UNCHANGED rx
  /\ UNCHANGED <<present, config, arrivals, received, quiet, left, driver>>

(* A byte from the peer; loopback disconnects it, a full queue loses it. One*)
(* that comes between serial_init's clearing of the queues (its sixth write)*)
(* and loopback mode will be read in place of the echo.                     *)
Arrive(byte) ==
  /\ present
  /\ arrivals < MaxArrived
  /\ arrivals' = arrivals + 1
  /\ rx' = IF loopback THEN rx ELSE Enqueue(rx, byte)
  /\ received' = IF pc # "init" /\ rx' # rx THEN Append(received, byte) ELSE received
  /\ quiet' = (quiet /\ ~(pc = "init" /\ step > 6 /\ rx' # rx))
  /\ UNCHANGED <<present, config, tx, wire, left, driver>>

-----------------------------------------------------------------------------
(* The driver. *)

DivisorBeforeDlab == <<
  <<"INT_ENABLE", 0>>, <<"DATA", 1>>, <<"INT_ENABLE", 0>>, <<"LINE_CTRL", 128>>,
  <<"LINE_CTRL", 3>>, <<"INT_ID", 199>>, <<"MODEM_CTRL", 11>>, <<"MODEM_CTRL", 30>>,
  <<"DATA", TestByte>> >>

(* The register writes of serial_init up to the test: interrupts off,       *)
(* divisor 1 behind DLAB, 8N1, queues cleared, loopback, test byte.         *)
InitWrites == <<
  <<"INT_ENABLE", 0>>, <<"LINE_CTRL", 128>>, <<"DATA", 1>>, <<"INT_ENABLE", 0>>,
  <<"LINE_CTRL", 3>>, <<"INT_ID", 199>>, <<"MODEM_CTRL", 11>>, <<"MODEM_CTRL", 30>>,
  <<"DATA", TestByte>> >>

InitWrite ==
  /\ pc = "init"
  /\ step <= Len(InitWrites)
  /\ outb(InitWrites[step][1], InitWrites[step][2])
  /\ step' = step + 1
  /\ UNCHANGED <<received, quiet, left, pc, serial_ok, pending, written, returned>>

ReadsWord ==
  IF ~present THEN {65535} ELSE IF rx = <<>> THEN Byte ELSE {Head(rx)}

(* What inb(port + REG_DATA) may give: the oldest byte received; 0xFF where *)
(* there is no port; from an empty queue whatever the register holds.       *)
DataReads ==
  IF ~present THEN {255} ELSE IF rx = <<>> THEN Byte ELSE {Head(rx)}

Taken == IF present /\ rx # <<>> THEN Tail(rx) ELSE rx

(* The echo is not there, or is not there yet: serial_init returns false    *)
(* and leaves the registers as they are.                                    *)
TestFails ==
  /\ pc = "init"
  /\ step = Len(InitWrites) + 1
  /\ \E byte \in DataReads : byte # TestByte
  /\ rx' = Taken
  /\ pc' = "idle"
  /\ serial_ok' = FALSE
  /\ UNCHANGED <<present, config, tx, wire, arrivals, received, quiet, left, step, pending,
                 written, returned>>

(* The byte read is the test byte: the echo, a byte of the peer that came   *)
(* before loopback mode, or what an empty queue's register happened to hold.*)
TestPasses ==
  /\ pc = "init"
  /\ step = Len(InitWrites) + 1
  /\ TestByte \in DataReads
  /\ rx' = Taken
  /\ quiet' = (quiet /\ rx # <<>>)
  /\ step' = step + 1
  /\ UNCHANGED <<present, config, tx, wire, arrivals, received, left, pc, serial_ok, pending,
                 written, returned>>

KeepsLoopback == UNCHANGED <<present, config, tx, rx, wire, arrivals>>

(* "Disable loopback mode, back to normal operation": MCR = 0x0F. *)
LeaveLoopback == outb("MODEM_CTRL", 15)

InitReturns ==
  /\ pc = "init"
  /\ step = Len(InitWrites) + 2
  /\ LeaveLoopback
  /\ pc' = "idle"
  /\ serial_ok' = TRUE
  /\ left' = rx
  /\ UNCHANGED <<received, quiet, step, pending, written, returned>>

(* The kernel writes whatever serial_init returned: kernel_main switches    *)
(* the terminal's echo on without asking.                                   *)
serial_com1_write_string(str) ==
  /\ pc = "idle"
  /\ Len(written) + Len(str) <= MaxWritten
  /\ str # <<>>
  /\ pending' = str
  /\ pc' = "poll"
  /\ UNCHANGED <<uart, step, serial_ok, written, returned>>

AlwaysReady == TRUE

WaitsForBusy == present => tx # <<>>

(* LSR_TX_EMPTY; no port reads as 0xFF, which has the bit set. *)
serial_is_transmit_ready == present => tx = <<>>

(* The busy wait ends. *)
PollTransmit ==
  /\ pc = "poll"
  /\ serial_is_transmit_ready
  /\ pc' = "send"
  /\ UNCHANGED <<uart, step, serial_ok, pending, written, returned>>

SendByte ==
  /\ pc = "send"
  /\ outb("DATA", Head(pending))
  /\ written' = Append(written, Head(pending))
  /\ pending' = Tail(pending)
  /\ pc' = IF Tail(pending) = <<>> THEN "idle" ELSE "poll"
  /\ UNCHANGED <<received, quiet, left, step, serial_ok, returned>>

serial_read_byte ==
  /\ pc = "idle"
  /\ Len(returned) < MaxRead
  /\ pc' = "read"
  /\ UNCHANGED <<uart, step, serial_ok, pending, written, returned>>

NeverWaits == TRUE

serial_is_received == present => rx # <<>>

(* The wait for LSR_DATA_READY ends, and the byte is taken. Nothing can     *)
(* remove it in between, so the two reads are one step.                     *)
ReadByte ==
  /\ pc = "read"
  /\ serial_is_received
  /\ \E byte \in DataReads : returned' = Append(returned, byte)
  /\ rx' = Taken
  /\ pc' = "idle"
  /\ UNCHANGED <<present, config, tx, wire, arrivals, received, quiet, left, step, serial_ok,
                 pending, written>>

-----------------------------------------------------------------------------
(* Firmware may have left interrupts on and a byte unread. *)
Init ==
  /\ present \in BOOLEAN
  /\ dlab = FALSE
  /\ divisor = <<12, 0>>
  /\ ier \in {0, 1}
  /\ loopback = FALSE
  /\ tx = <<>>
  /\ rx \in {<<>>} \cup {<<b>> : b \in PeerBytes}
  /\ wire = <<>>
  /\ arrivals = 0
  /\ received = <<>>
  /\ quiet = TRUE
  /\ left = <<>>
  /\ pc = "init"
  /\ step = 1
  /\ serial_ok = FALSE
  /\ pending = <<>>
  /\ written = <<>>
  /\ returned = <<>>

Cpu == InitWrite \/ TestFails \/ TestPasses \/ InitReturns \/ PollTransmit \/ SendByte
         \/ ReadByte

Next ==
  \/ InitWrite \/ TestFails \/ TestPasses \/ InitReturns
  \/ \E str \in Strings : serial_com1_write_string(str)
  \/ PollTransmit \/ SendByte
  \/ serial_read_byte \/ ReadByte
  \/ Shift
  \/ \E byte \in PeerBytes : Arrive(byte)

(* The CPU goes on with what it has begun and the UART's clock ticks; when  *)
(* callers write and when the peer sends is up to them.                     *)
Fairness == WF_vars(Cpu) /\ WF_vars(Shift)

Spec == Init /\ [][Next]_vars /\ Fairness

-----------------------------------------------------------------------------
(* Registers and returned values are bytes, and the UART's queues are never  *)
(* longer than they are.                                                    *)
TypeOK ==
  /\ present \in BOOLEAN
  /\ dlab \in BOOLEAN
  /\ divisor \in Byte \X Byte
  /\ ier \in Byte
  /\ loopback \in BOOLEAN
  /\ tx \in Seq(Byte) /\ Len(tx) <= FifoSize
  /\ rx \in Seq(Byte) /\ Len(rx) <= FifoSize
  /\ wire \in Seq(Byte)
  /\ arrivals \in 0 .. MaxArrived
  /\ received \in Seq(Byte)
  /\ quiet \in BOOLEAN
  /\ left \in Seq(Byte)
  /\ pc \in {"init", "idle", "poll", "send", "read"}
  /\ step \in 1 .. (Len(InitWrites) + 2)
  /\ serial_ok \in BOOLEAN
  /\ pending \in Seq(Byte)
  /\ written \in Seq(Byte)
  /\ returned \in Seq(Byte)

(* serial_init returning true means: 115200 baud, interrupts off, the data  *)
(* register is the data register, and the port is connected to the line,    *)
(* whatever the UART and the peer did during the test.                      *)
Configured ==
  serial_ok => /\ present
               /\ divisor = <<1, 0>>
               /\ ier = 0
               /\ ~dlab
               /\ ~loopback

(* A port that failed serial_init's test sends nothing. One that passed     *)
(* sends what callers wrote, in order and whole: the busy wait keeps the    *)
(* transmit queue from overflowing. If the test was answered by anything    *)
(* but the echo, the test byte may still be in the transmitter when         *)
(* loopback ends, and goes before them on the line; nothing else does.      *)
DeliveredInOrder ==
  /\ ~serial_ok => wire = <<>>
  /\ serial_ok => wire \o tx \in {written, <<TestByte>> \o written}
  /\ serial_ok /\ quiet => wire \o tx = written

(* After a successful serial_init readers get what was left in the receive  *)
(* queue and then what the peer sent, in order, nothing lost that the queue *)
(* took, nothing twice, no echo of the kernel's own bytes. If the echo      *)
(* answered the test nothing was left: neither what the port held before    *)
(* nor the echo.                                                            *)
InputInOrder ==
  /\ serial_ok => returned \o rx = left \o received
  /\ serial_ok /\ quiet => left = <<>>

(* The busy wait of serial_write_byte ends for every byte of every string,  *)
(* in a port that is absent or was left in loopback mode too.               *)
WritesEnd == (pc = "poll") ~> (pc = "idle")

(* The first n bytes that callers wrote are on the line, behind the test    *)
(* byte if that was still in the transmitter.                               *)
OnTheLine(n) ==
  \E k \in {0, 1} :
    /\ Len(wire) >= n + k
    /\ Len(written) >= n
    /\ \A i \in 1 .. n : wire[k + i] = written[i]

(* What was written to a working port is on the line some time later. *)
Delivered ==
  \A n \in 1 .. MaxWritten : (serial_ok /\ Len(written) = n) ~> OnTheLine(n)

(* "Set loopback mode temporarily" (serial.c): once serial_init has         *)
(* returned, the port is not in loopback mode.                              *)
LoopbackIsTemporary == pc # "init" => ~loopback

=============================================================================
