---------------------------- MODULE SerialProofs ----------------------------
(***************************************************************************)
(* Theorems about Serial, for every size of the UART's queues, every set   *)
(* of strings and every peer.                                              *)
(*                                                                         *)
(* What serial_init leaves behind depends on what the UART did between its *)
(* register writes: where the test byte can be, and what the peer could    *)
(* still add to the receive queue. TestInv follows both through the test.  *)
(***************************************************************************)
EXTENDS Serial, SequenceTheorems, TLAPS

(* While serial_init runs nothing has left the port and nobody has been     *)
(* given a byte. With a port: DLAB is set for the divisor only, the port is *)
(* in loopback from the eighth write on; the transmitter has nothing but    *)
(* the test byte, from the ninth on. If no byte of the peer got in after    *)
(* the sixth, the test byte is the only one in the port, in one of the two  *)
(* queues, and once it has been read both are empty.                        *)
TestInv ==
  pc = "init" =>
    /\ wire = <<>> /\ written = <<>> /\ received = <<>> /\ returned = <<>> /\ ~serial_ok
    /\ step = 11 => present
    /\ present =>
         /\ step \in 3 .. 5 => dlab
         /\ step \notin 3 .. 5 => ~dlab
         /\ step >= 9 => loopback
         /\ step < 9 => ~loopback
         /\ step >= 2 => ier = 0
         /\ step >= 4 => divisor[1] = 1
         /\ step >= 5 => divisor[2] = 0
         /\ step < 10 => tx = <<>>
         /\ tx \in {<<>>, <<TestByte>>}
         /\ quiet /\ step \in 7 .. 9 => rx = <<>>
         /\ quiet /\ step = 10 => \/ tx = <<TestByte>> /\ rx = <<>>
                                  \/ tx = <<>> /\ rx = <<TestByte>>
         /\ quiet /\ step = 11 => tx = <<>> /\ rx = <<>>

(* After it, a port that failed the test is in loopback and silent. *)
SilentInv == ~serial_ok /\ pc # "init" /\ present => loopback

(* An absent port keeps nothing; a byte is only sent into an empty queue;   *)
(* and a string is being written while there is something of it left.       *)
DriverInv ==
  /\ ~present => tx = <<>>
  /\ pc = "send" /\ present => tx = <<>>
  /\ pc \in {"poll", "send"} => pending # <<>>

SerialInv ==
  /\ TypeOK
  /\ TestInv
  /\ SilentInv
  /\ DriverInv
  /\ Configured
  /\ DeliveredInOrder
  /\ InputInOrder

-----------------------------------------------------------------------------
(* The bits of the values that the driver writes. *)
LEMMA Bits ==
  /\ Bit(128, 7) /\ ~Bit(3, 7)
  /\ Bit(199, 1) /\ Bit(199, 2)
  /\ ~Bit(11, 4) /\ Bit(30, 4) /\ ~Bit(15, 4)
BY DEF Bit

(* The list of register writes. *)
LEMMA Writes ==
  /\ Len(InitWrites) = 9
  /\ InitWrites[1] = <<"INT_ENABLE", 0>> /\ InitWrites[2] = <<"LINE_CTRL", 128>>
  /\ InitWrites[3] = <<"DATA", 1>> /\ InitWrites[4] = <<"INT_ENABLE", 0>>
  /\ InitWrites[5] = <<"LINE_CTRL", 3>> /\ InitWrites[6] = <<"INT_ID", 199>>
  /\ InitWrites[7] = <<"MODEM_CTRL", 11>> /\ InitWrites[8] = <<"MODEM_CTRL", 30>>
  /\ InitWrites[9] = <<"DATA", TestByte>>
BY DEF InitWrites

(* What a queue does with a byte. *)
LEMMA EnqueueFacts ==
  ASSUME NEW queue \in Seq(Byte), Len(queue) <= FifoSize, NEW byte \in Byte
  PROVE  /\ Enqueue(queue, byte) \in Seq(Byte)
         /\ Len(Enqueue(queue, byte)) <= FifoSize
         /\ queue = <<>> => Enqueue(queue, byte) = <<byte>>
         /\ Enqueue(queue, byte) # queue => Enqueue(queue, byte) = Append(queue, byte)
<1>1. FifoSize \in Nat \ {0}
  BY SerialAssumption
<1>2. CASE Len(queue) < FifoSize
  <2>1. Enqueue(queue, byte) = Append(queue, byte)
    BY <1>2 DEF Enqueue
  <2>2. /\ Append(queue, byte) \in Seq(Byte)
        /\ Len(Append(queue, byte)) = Len(queue) + 1
        /\ \A i \in 1 .. Len(queue) : Append(queue, byte)[i] = queue[i]
        /\ Append(queue, byte)[Len(queue) + 1] = byte
    BY AppendProperties
  <2>3. Len(queue) \in Nat
    OBVIOUS
  <2>6. queue = <<>> => Append(queue, byte) = <<byte>>
    BY AppendIsConcat, ConcatEmptySeq, <<byte>> \in Seq(Byte)
  <2> QED
    BY <1>1, <1>2, <2>1, <2>2, <2>3, <2>6
<1>3. CASE ~(Len(queue) < FifoSize)
  <2>1. Enqueue(queue, byte) = queue
    BY <1>3 DEF Enqueue
  <2> QED
    BY <1>1, <1>3, <2>1
<1> QED
  BY <1>2, <1>3

(* Moving the head of a queue to the end of the history beside it leaves    *)
(* the two together as they were.                                           *)
LEMMA MoveHead ==
  ASSUME NEW s \in Seq(Byte), NEW t \in Seq(Byte), t # <<>>
  PROVE  Append(s, Head(t)) \o Tail(t) = s \o t
<1>1. /\ Head(t) \in Byte /\ Tail(t) \in Seq(Byte) /\ Len(Tail(t)) = Len(t) - 1
      /\ Head(t) = t[1] /\ \A i \in 1 .. Len(Tail(t)) : Tail(t)[i] = t[i + 1]
  BY HeadTailProperties
<1>2. Append(s, Head(t)) \in Seq(Byte)
  BY <1>1
<1> DEFINE moved == Append(s, Head(t)) \o Tail(t)
           whole == s \o t
<1>3. moved \in Seq(Byte) /\ whole \in Seq(Byte) /\ Len(moved) = Len(whole)
  BY <1>1, <1>2
<1>4. ASSUME NEW i \in 1 .. Len(moved)  PROVE moved[i] = whole[i]
  <2>1. CASE i <= Len(s)
    BY <1>1, <1>2, <1>3, <2>1
  <2>2. CASE i = Len(s) + 1
    BY <1>1, <1>2, <1>3, <2>2
  <2>3. CASE i > Len(s) + 1
    BY <1>1, <1>2, <1>3, <2>3
  <2> QED
    BY <2>1, <2>2, <2>3, <1>3
<1> QED
  BY <1>3, <1>4, SeqEqual

(* A byte that is added to the history is added to the queue beside it. *)
LEMMA AddByte ==
  ASSUME NEW s \in Seq(Byte), NEW t \in Seq(Byte), NEW byte \in Byte
  PROVE  s \o Append(t, byte) = Append(s \o t, byte)
<1>1. Append(t, byte) = t \o <<byte>> /\ Append(s \o t, byte) = (s \o t) \o <<byte>>
  BY AppendIsConcat
<1> QED
  BY <1>1, ConcatAssociative, <<byte>> \in Seq(Byte)

-----------------------------------------------------------------------------
(* A register write leaves registers and queues of the right type. *)
LEMMA OutbTypes ==
  ASSUME TypeOK, NEW reg, NEW value \in Byte, outb(reg, value)
  PROVE  /\ present' \in BOOLEAN /\ dlab' \in BOOLEAN /\ loopback' \in BOOLEAN
         /\ divisor' \in Byte \X Byte /\ ier' \in Byte
         /\ tx' \in Seq(Byte) /\ Len(tx') <= FifoSize
         /\ rx' \in Seq(Byte) /\ Len(rx') <= FifoSize
         /\ wire' \in Seq(Byte) /\ arrivals' \in 0 .. MaxArrived
<1>1. present' \in BOOLEAN /\ wire' \in Seq(Byte) /\ arrivals' \in 0 .. MaxArrived
  BY DEF TypeOK, outb
<1>2. dlab' \in BOOLEAN /\ loopback' \in BOOLEAN
  BY Zenon DEF TypeOK, outb, Bit
<1>3. divisor' \in Byte \X Byte /\ ier' \in Byte
  BY DEF TypeOK, outb
<1>4. FifoSize \in Nat /\ <<>> \in Seq(Byte) /\ Len(<<>>) <= FifoSize
  BY SerialAssumption
<1>5. Enqueue(tx, value) \in Seq(Byte) /\ Len(Enqueue(tx, value)) <= FifoSize
  BY EnqueueFacts DEF TypeOK
<1>6. tx' \in Seq(Byte) /\ Len(tx') <= FifoSize
  <2>1. tx' = <<>> \/ tx' = tx \/ tx' = Enqueue(tx, value)
    BY Zenon DEF outb
  <2> QED
    BY <2>1, <1>4, <1>5 DEF TypeOK
<1>7. rx' \in Seq(Byte) /\ Len(rx') <= FifoSize
  <2>1. rx' = <<>> \/ rx' = rx
    BY Zenon DEF outb
  <2> QED
    BY <2>1, <1>4 DEF TypeOK
<1> QED
  BY <1>1, <1>2, <1>3, <1>6, <1>7

(* What reading the data register gives, and what it leaves. *)
LEMMA TakenTypes ==
  ASSUME TypeOK
  PROVE  Taken \in Seq(Byte) /\ Len(Taken) <= FifoSize /\ DataReads \subseteq Byte
<1>1. rx \in Seq(Byte) /\ Len(rx) <= FifoSize /\ FifoSize \in Nat /\ 255 \in Byte
  BY SerialAssumption DEF TypeOK, Byte
<1>2. CASE present /\ rx # <<>>
  <2>1. /\ Head(rx) \in Byte /\ Tail(rx) \in Seq(Byte) /\ Len(Tail(rx)) = Len(rx) - 1
        /\ Len(rx) \in Nat
    BY <1>1, <1>2, HeadTailProperties
  <2> QED
    BY <1>1, <1>2, <2>1 DEF Taken, DataReads
<1>3. CASE ~(present /\ rx # <<>>)
  BY <1>1, <1>3 DEF Taken, DataReads
<1> QED
  BY <1>2, <1>3

-----------------------------------------------------------------------------
(* The invariant holds when the kernel calls serial_init. *)
LEMMA InitSerialInv == Init => SerialInv
<1> SUFFICES ASSUME Init PROVE SerialInv
  OBVIOUS
<1>1. FifoSize \in Nat \ {0} /\ MaxArrived \in Nat /\ PeerBytes \subseteq Byte
  BY SerialAssumption
<1>2. rx \in Seq(Byte) /\ Len(rx) <= FifoSize
  <2>1. CASE rx = <<>>
    BY <1>1, <2>1
  <2>2. CASE \E b \in PeerBytes : rx = <<b>>
    BY <1>1, <2>2
  <2> QED
    BY <2>1, <2>2 DEF Init
<1>3. divisor \in Byte \X Byte /\ ier \in Byte
  BY DEF Init, Byte
<1>4. /\ dlab \in BOOLEAN /\ loopback \in BOOLEAN /\ serial_ok \in BOOLEAN /\ present \in BOOLEAN
      /\ quiet \in BOOLEAN
  BY DEF Init
<1>5. TypeOK
  BY <1>1, <1>2, <1>3, <1>4, Writes DEF Init, TypeOK
<1>6. TestInv
  BY <1>2 DEF Init, TestInv
<1>7. SilentInv /\ DriverInv
  BY DEF Init, SilentInv, DriverInv
<1> QED
  BY <1>5, <1>6, <1>7 DEF Init, SerialInv, Configured, DeliveredInOrder, InputInOrder

(* As long as serial_init runs, the rest of the invariant is TestInv's. *)
LEMMA DuringInit ==
  ASSUME SerialInv, pc = "init", pc' = "init", TypeOK', TestInv',
         UNCHANGED <<present, pending, written>>, ~present => tx' = <<>>
  PROVE  SerialInv'
<1>1. wire' = <<>> /\ ~serial_ok'
  BY DEF TestInv
<1>2. SilentInv' /\ Configured' /\ InputInOrder'
  BY <1>1 DEF SilentInv, Configured, InputInOrder
<1>3. DriverInv' /\ DeliveredInOrder'
  BY <1>1 DEF SerialInv, DriverInv, DeliveredInOrder
<1> QED
  BY <1>1, <1>2, <1>3 DEF SerialInv

(* The register writes. *)
LEMMA InitWriteSerialInv ==
  ASSUME SerialInv, InitWrite  PROVE SerialInv'
<1>0. TypeOK /\ TestInv /\ DriverInv
  BY DEF SerialInv
<1>1. /\ pc = "init" /\ pc' = "init" /\ step' = step + 1 /\ step \in 1 .. 9
      /\ UNCHANGED <<present, wire, arrivals, received, quiet, left, serial_ok, pending,
                     written, returned>>
  BY <1>0, Writes DEF InitWrite, TypeOK, outb
<1>2. TypeOK'
  <2>1. \A i \in 1 .. 9 : InitWrites[i][2] \in Byte
    BY DEF InitWrites, Byte, TestByte
  <2>2. outb(InitWrites[step][1], InitWrites[step][2])
    BY DEF InitWrite
  <2>3. /\ present' \in BOOLEAN /\ dlab' \in BOOLEAN /\ loopback' \in BOOLEAN
        /\ divisor' \in Byte \X Byte /\ ier' \in Byte
        /\ tx' \in Seq(Byte) /\ Len(tx') <= FifoSize
        /\ rx' \in Seq(Byte) /\ Len(rx') <= FifoSize
        /\ wire' \in Seq(Byte) /\ arrivals' \in 0 .. MaxArrived
    BY <1>0, <1>1, <2>1, <2>2, OutbTypes
  <2>4. step' \in 1 .. 11 /\ Len(InitWrites) + 2 = 11
    BY <1>1, Writes
  <2>5. /\ quiet' \in BOOLEAN /\ left' \in Seq(Byte)
        /\ received' \in Seq(Byte) /\ pc' \in {"init"} /\ serial_ok' \in BOOLEAN
        /\ pending' \in Seq(Byte) /\ written' \in Seq(Byte) /\ returned' \in Seq(Byte)
    BY <1>0, <1>1 DEF TypeOK
  <2> QED
    BY <2>3, <2>4, <2>5, Zenon DEF TypeOK
<1>3. CASE ~present
  <2>1. UNCHANGED <<dlab, divisor, ier, loopback, tx, rx>>
    BY <1>3 DEF InitWrite, outb
  <2>2. TestInv'
    BY <1>0, <1>1, <1>3, <2>1 DEF TestInv
  <2> QED
    BY <1>0, <1>1, <1>2, <1>3, <2>1, <2>2, DuringInit DEF DriverInv
<1>4. CASE present
  <2>1. /\ wire' = <<>> /\ written' = <<>> /\ received' = <<>> /\ returned' = <<>>
        /\ ~serial_ok'
    BY <1>0, <1>1 DEF TestInv
  <2>2. tx = <<>> /\ quiet' = quiet
    BY <1>0, <1>1, <1>4 DEF TestInv
  <2>3. ASSUME step = 1  PROVE TestInv'
    <3>1. outb("INT_ENABLE", 0)
      BY <2>3, Writes DEF InitWrite
    <3>2. ~dlab
      BY <2>3, <1>0, <1>1, <1>4 DEF TestInv
    <3>3. ier' = 0 /\ UNCHANGED <<dlab, divisor, loopback, tx, rx>>
      BY <3>1, <3>2, <1>4, Bits DEF outb
    <3> QED
      BY <2>3, <3>3, <1>0, <1>1, <1>4, <2>1, <2>2 DEF TestInv
  <2>4. ASSUME step = 2  PROVE TestInv'
    <3>1. outb("LINE_CTRL", 128)
      BY <2>4, Writes DEF InitWrite
    <3>3. dlab' /\ UNCHANGED <<divisor, ier, loopback, tx, rx>>
      BY <3>1, <1>4, Bits DEF outb
    <3> QED
      BY <2>4, <3>3, <1>0, <1>1, <1>4, <2>1, <2>2 DEF TestInv
  <2>5. ASSUME step = 3  PROVE TestInv'
    <3>1. outb("DATA", 1)
      BY <2>5, Writes DEF InitWrite
    <3>2. dlab
      BY <2>5, <1>0, <1>1, <1>4 DEF TestInv
    <3>3. divisor' = <<1, divisor[2]>> /\ UNCHANGED <<dlab, ier, loopback, tx, rx>>
      BY <3>1, <3>2, <1>4, Bits DEF outb
    <3> QED
      BY <2>5, <3>3, <1>0, <1>1, <1>4, <2>1, <2>2 DEF TestInv
  <2>6. ASSUME step = 4  PROVE TestInv'
    <3>1. outb("INT_ENABLE", 0)
      BY <2>6, Writes DEF InitWrite
    <3>2. dlab
      BY <2>6, <1>0, <1>1, <1>4 DEF TestInv
    <3>3. divisor' = <<divisor[1], 0>> /\ UNCHANGED <<dlab, ier, loopback, tx, rx>>
      BY <3>1, <3>2, <1>4, Bits DEF outb
    <3> QED
      BY <2>6, <3>3, <1>0, <1>1, <1>4, <2>1, <2>2 DEF TestInv
  <2>7. ASSUME step = 5  PROVE TestInv'
    <3>1. outb("LINE_CTRL", 3)
      BY <2>7, Writes DEF InitWrite
    <3>3. ~dlab' /\ UNCHANGED <<divisor, ier, loopback, tx, rx>>
      BY <3>1, <1>4, Bits DEF outb
    <3> QED
      BY <2>7, <3>3, <1>0, <1>1, <1>4, <2>1, <2>2 DEF TestInv
  <2>8. ASSUME step = 6  PROVE TestInv'
    <3>1. outb("INT_ID", 199)
      BY <2>8, Writes DEF InitWrite
    <3>3. tx' = <<>> /\ rx' = <<>> /\ UNCHANGED <<dlab, divisor, ier, loopback>>
      BY <3>1, <1>4, Bits DEF outb
    <3> QED
      BY <2>8, <3>3, <1>0, <1>1, <1>4, <2>1, <2>2 DEF TestInv
  <2>9. ASSUME step = 7  PROVE TestInv'
    <3>1. outb("MODEM_CTRL", 11)
      BY <2>9, Writes DEF InitWrite
    <3>3. ~loopback' /\ UNCHANGED <<dlab, divisor, ier, tx, rx>>
      BY <3>1, <1>4, Bits DEF outb
    <3> QED
      BY <2>9, <3>3, <1>0, <1>1, <1>4, <2>1, <2>2 DEF TestInv
  <2>10. ASSUME step = 8  PROVE TestInv'
    <3>1. outb("MODEM_CTRL", 30)
      BY <2>10, Writes DEF InitWrite
    <3>3. loopback' /\ UNCHANGED <<dlab, divisor, ier, tx, rx>>
      BY <3>1, <1>4, Bits DEF outb
    <3> QED
      BY <2>10, <3>3, <1>0, <1>1, <1>4, <2>1, <2>2 DEF TestInv
  <2>11. ASSUME step = 9  PROVE TestInv'
    <3>1. outb("DATA", TestByte)
      BY <2>11, Writes DEF InitWrite
    <3>2. ~dlab
      BY <2>11, <1>0, <1>1, <1>4 DEF TestInv
    <3>3. tx' = Enqueue(tx, TestByte) /\ UNCHANGED <<dlab, divisor, ier, loopback, rx>>
      BY <3>1, <3>2, <1>4, Bits DEF outb
    <3>4. TestByte \in Byte
      BY DEF Byte, TestByte
    <3>5. tx' = <<TestByte>>
      BY <3>3, <3>4, <1>0, <2>2, EnqueueFacts DEF TypeOK
    <3> QED
      BY <2>11, <3>3, <3>5, <1>0, <1>1, <1>4, <2>1, <2>2 DEF TestInv
  <2>12. TestInv'
    BY <1>1, <2>3, <2>4, <2>5, <2>6, <2>7, <2>8, <2>9, <2>10, <2>11
  <2> QED
    BY <1>1, <1>2, <1>4, <2>12, DuringInit
<1> QED
  BY <1>3, <1>4

(* The test byte is not there, or not yet: the port stays in loopback. *)
LEMMA TestFailsSerialInv ==
  ASSUME SerialInv, TestFails  PROVE SerialInv'
<1>0. TypeOK /\ TestInv /\ DriverInv
  BY DEF SerialInv
<1>1. /\ pc = "init" /\ step = 10 /\ pc' = "idle" /\ serial_ok' = FALSE /\ rx' = Taken
      /\ UNCHANGED <<present, dlab, divisor, ier, loopback, tx, wire, arrivals, received,
                     quiet, left, step, pending, written, returned>>
  BY Writes DEF TestFails, config
<1>2. rx' \in Seq(Byte) /\ Len(rx') <= FifoSize
  BY <1>0, <1>1, TakenTypes
<1>3. TypeOK'
  BY <1>0, <1>1, <1>2 DEF TypeOK
<1>4. wire' = <<>> /\ (present' => loopback')
  BY <1>0, <1>1 DEF TestInv
<1>5. DriverInv'
  BY <1>0, <1>1 DEF DriverInv
<1> QED
  BY <1>1, <1>3, <1>4, <1>5 DEF SerialInv, TestInv, SilentInv, Configured, DeliveredInOrder,
                                InputInOrder

(* The test byte is read. If it was the echo, it was alone in the port. *)
LEMMA TestPassesSerialInv ==
  ASSUME SerialInv, TestPasses  PROVE SerialInv'
<1>0. TypeOK /\ TestInv /\ DriverInv
  BY DEF SerialInv
<1>1. /\ pc = "init" /\ step = 10 /\ pc' = "init" /\ step' = 11 /\ rx' = Taken
      /\ quiet' = (quiet /\ rx # <<>>)
      /\ UNCHANGED <<present, dlab, divisor, ier, loopback, tx, wire, arrivals, received, left,
                     serial_ok, pending, written, returned>>
  BY Writes DEF TestPasses, config
<1>2. present
  BY <1>1 DEF TestPasses, DataReads, TestByte
<1>3. tx \in {<<>>, <<TestByte>>}
  BY <1>0, <1>1, <1>2 DEF TestInv
<1>4. quiet' => tx = <<>> /\ rx' = <<>>
  <2> SUFFICES ASSUME quiet, rx # <<>>  PROVE tx = <<>> /\ rx' = <<>>
    BY <1>1
  <2>1. tx = <<>> /\ rx = <<TestByte>>
    BY <1>0, <1>1, <1>2 DEF TestInv
  <2>2. Taken = Tail(rx)
    BY <1>2 DEF Taken
  <2> QED
    BY <1>1, <2>1, <2>2
<1>5. TypeOK'
  <2>1. rx' \in Seq(Byte) /\ Len(rx') <= FifoSize
    BY <1>0, <1>1, TakenTypes
  <2>2. step' \in 1 .. (Len(InitWrites) + 2)
    BY <1>1, Writes
  <2>3. quiet' \in BOOLEAN
    BY <1>1
  <2> QED
    BY <1>0, <1>1, <2>1, <2>2, <2>3 DEF TypeOK
<1>6. TestInv'
  BY <1>0, <1>1, <1>2, <1>3, <1>4 DEF TestInv
<1> QED
  BY <1>1, <1>2, <1>5, <1>6, DuringInit

(* serial_init returns true: with both queues empty if the echo answered    *)
(* the test, else perhaps with the test byte in the transmitter.            *)
LEMMA InitReturnsSerialInv ==
  ASSUME SerialInv, InitReturns  PROVE SerialInv'
<1>0. TypeOK /\ TestInv /\ DriverInv
  BY DEF SerialInv
<1>1. /\ pc = "init" /\ step = 11 /\ pc' = "idle" /\ serial_ok' = TRUE
      /\ outb("MODEM_CTRL", 15)
      /\ left' = rx
      /\ UNCHANGED <<received, quiet, step, pending, written, returned>>
  BY Writes DEF InitReturns, LeaveLoopback
<1>2. /\ present /\ ~dlab /\ ier = 0 /\ divisor[1] = 1 /\ divisor[2] = 0
      /\ tx \in {<<>>, <<TestByte>>} /\ (quiet => tx = <<>> /\ rx = <<>>)
      /\ wire = <<>> /\ written = <<>> /\ received = <<>> /\ returned = <<>>
  BY <1>0, <1>1 DEF TestInv
<1>3. ~loopback' /\ UNCHANGED <<present, dlab, divisor, ier, tx, rx, wire>>
  BY <1>1, <1>2, Bits DEF outb
<1>4. TypeOK'
  <2>1. 15 \in Byte
    BY DEF Byte
  <2>2. /\ present' \in BOOLEAN /\ dlab' \in BOOLEAN /\ loopback' \in BOOLEAN
        /\ divisor' \in Byte \X Byte /\ ier' \in Byte
        /\ tx' \in Seq(Byte) /\ Len(tx') <= FifoSize
        /\ rx' \in Seq(Byte) /\ Len(rx') <= FifoSize
        /\ wire' \in Seq(Byte) /\ arrivals' \in 0 .. MaxArrived
    BY <1>0, <1>1, <2>1, OutbTypes
  <2> QED
    BY <1>0, <1>1, <2>2 DEF TypeOK
<1>5. divisor = <<1, 0>>
  BY <1>0, <1>2 DEF TypeOK
<1>6. Configured'
  BY <1>2, <1>3, <1>5 DEF Configured
<1>7. TestInv' /\ SilentInv'
  BY <1>1 DEF TestInv, SilentInv
<1>8. DriverInv'
  BY <1>0, <1>1, <1>2, <1>3 DEF DriverInv
<1>9. <<>> \in Seq(Byte) /\ <<TestByte>> \in Seq(Byte) /\ rx \in Seq(Byte)
  BY <1>0 DEF TypeOK, Byte, TestByte
<1>10. <<>> \o tx = tx /\ <<>> \o rx = rx /\ rx \o <<>> = rx /\ <<TestByte>> \o <<>> = <<TestByte>>
  BY <1>2, <1>9, ConcatEmptySeq
<1>11. DeliveredInOrder'
  BY <1>1, <1>2, <1>3, <1>10 DEF DeliveredInOrder
<1>12. InputInOrder'
  BY <1>1, <1>2, <1>3, <1>10 DEF InputInOrder
<1> QED
  BY <1>4, <1>6, <1>7, <1>8, <1>11, <1>12 DEF SerialInv

-----------------------------------------------------------------------------
(* Steps that only move the driver: a call begins, or the busy wait ends. *)
LEMMA CallSerialInv ==
  ASSUME SerialInv,
         \/ \E str \in Strings : serial_com1_write_string(str)
         \/ PollTransmit
         \/ serial_read_byte
  PROVE  SerialInv'
<1>0. TypeOK /\ TestInv /\ SilentInv /\ DriverInv /\ Configured /\ InputInOrder
  BY DEF SerialInv
<1>1. /\ UNCHANGED <<present, dlab, divisor, ier, loopback, tx, rx, wire, arrivals, received,
                     quiet, left, step, serial_ok, written, returned>>
      /\ pc # "init" /\ pc' \in {"poll", "send", "read"}
  BY DEF serial_com1_write_string, PollTransmit, serial_read_byte, uart, config
<1>2. /\ pending' \in Seq(Byte)
      /\ pc' \in {"poll", "send"} => pending' # <<>>
      /\ pc' = "send" /\ present => tx = <<>>
  <2>1. CASE \E str \in Strings : serial_com1_write_string(str)
    <3>1. PICK str \in Strings : serial_com1_write_string(str)
      BY <2>1
    <3>2. str \in Seq(Byte)
      BY SerialAssumption
    <3> QED
      BY <3>1, <3>2 DEF serial_com1_write_string
  <2>2. CASE PollTransmit
    BY <1>0, <2>2 DEF PollTransmit, serial_is_transmit_ready, DriverInv, TypeOK
  <2>3. CASE serial_read_byte
    BY <1>0, <2>3 DEF serial_read_byte, DriverInv, TypeOK
  <2> QED
    BY <2>1, <2>2, <2>3
<1>3. TypeOK'
  BY <1>0, <1>1, <1>2 DEF TypeOK
<1>4. DriverInv'
  BY <1>0, <1>1, <1>2 DEF DriverInv
<1>5. TestInv' /\ SilentInv' /\ Configured' /\ InputInOrder'
  BY <1>0, <1>1 DEF TestInv, SilentInv, Configured, InputInOrder
<1>6. DeliveredInOrder'
  BY <1>1 DEF SerialInv, DeliveredInOrder
<1> QED
  BY <1>3, <1>4, <1>5, <1>6 DEF SerialInv

(* A byte is sent: into an empty queue, or into an absent port. *)
LEMMA SendByteSerialInv ==
  ASSUME SerialInv, SendByte  PROVE SerialInv'
<1>0. TypeOK /\ SilentInv /\ DriverInv /\ Configured /\ DeliveredInOrder /\ InputInOrder
  BY DEF SerialInv
<1> DEFINE b == Head(pending)
<1>1. /\ pc = "send" /\ outb("DATA", b) /\ written' = Append(written, b)
      /\ pending' = Tail(pending)
      /\ pc' = IF Tail(pending) = <<>> THEN "idle" ELSE "poll"
      /\ UNCHANGED <<received, quiet, left, step, serial_ok, returned>>
  BY DEF SendByte
<1>2. /\ pending # <<>> /\ pending \in Seq(Byte) /\ b \in Byte /\ Tail(pending) \in Seq(Byte)
      /\ Len(pending) \in Nat /\ Len(Tail(pending)) = Len(pending) - 1 /\ b = pending[1]
      /\ \A i \in 1 .. Len(Tail(pending)) : Tail(pending)[i] = pending[i + 1]
  BY <1>0, <1>1, HeadTailProperties DEF DriverInv, TypeOK
<1>4. written \in Seq(Byte) /\ written' \in Seq(Byte)
  BY <1>0, <1>1, <1>2 DEF TypeOK
<1> HIDE DEF b
<1>5. TypeOK'
  <2>1. /\ present' \in BOOLEAN /\ dlab' \in BOOLEAN /\ loopback' \in BOOLEAN
        /\ divisor' \in Byte \X Byte /\ ier' \in Byte
        /\ tx' \in Seq(Byte) /\ Len(tx') <= FifoSize
        /\ rx' \in Seq(Byte) /\ Len(rx') <= FifoSize
        /\ wire' \in Seq(Byte) /\ arrivals' \in 0 .. MaxArrived
    BY <1>0, <1>1, <1>2, OutbTypes
  <2> QED
    BY <1>0, <1>1, <1>2, <1>4, <2>1 DEF TypeOK
<1>6. UNCHANGED <<present, loopback, rx, wire>> /\ pc' \in {"idle", "poll"}
  BY <1>1 DEF outb
<1>7. ~present => tx' = <<>>
  BY <1>0, <1>1 DEF outb, DriverInv
<1>8. DriverInv'
  BY <1>1, <1>6, <1>7 DEF DriverInv
<1>9. TestInv' /\ SilentInv' /\ InputInOrder'
  BY <1>0, <1>1, <1>6 DEF TestInv, SilentInv, InputInOrder
<1>10. Configured'
  BY <1>0, <1>1 DEF Configured, outb
<1>11. DeliveredInOrder'
  <2>1. CASE ~serial_ok
    BY <1>0, <1>1, <1>6, <2>1 DEF DeliveredInOrder
  <2>2. CASE serial_ok
    <3>1. present /\ ~dlab /\ tx = <<>>
      BY <1>0, <1>1, <2>2 DEF Configured, DriverInv
    <3>2. Enqueue(tx, b) = Append(tx, b)
      BY <3>1, SerialAssumption DEF Enqueue
    <3>3. wire' = wire /\ tx' = Append(tx, b) /\ written' = Append(written, b)
      BY <1>1, <1>6, <3>1, <3>2 DEF outb
    <3>4. wire \in Seq(Byte) /\ tx \in Seq(Byte) /\ <<TestByte>> \in Seq(Byte)
      BY <1>0 DEF TypeOK, Byte, TestByte
    <3>5. wire \o Append(tx, b) = Append(wire \o tx, b)
      BY <1>2, <3>4, AddByte
    <3>6. <<TestByte>> \o Append(written, b) = Append(<<TestByte>> \o written, b)
      BY <1>2, <1>4, <3>4, AddByte
    <3> QED
      BY <1>0, <1>1, <2>2, <3>3, <3>5, <3>6 DEF DeliveredInOrder
  <2> QED
    BY <2>1, <2>2
<1> QED
  BY <1>1, <1>5, <1>8, <1>9, <1>10, <1>11 DEF SerialInv

(* A byte is read: the head of the receive queue goes to the caller. *)
LEMMA ReadByteSerialInv ==
  ASSUME SerialInv, ReadByte  PROVE SerialInv'
<1>0. TypeOK /\ SilentInv /\ DriverInv /\ Configured /\ InputInOrder
  BY DEF SerialInv
<1>1. PICK byte \in DataReads : returned' = Append(returned, byte)
  BY DEF ReadByte
<1>9. /\ pc = "read" /\ pc' = "idle" /\ rx' = Taken
      /\ UNCHANGED <<present, dlab, divisor, ier, loopback, tx, wire, arrivals, received,
                     quiet, left, step, serial_ok, pending, written>>
  BY DEF ReadByte, config
<1>2. rx' \in Seq(Byte) /\ Len(rx') <= FifoSize /\ byte \in Byte
  BY <1>0, <1>1, <1>9, TakenTypes
<1>3. returned' \in Seq(Byte)
  BY <1>0, <1>1, <1>2 DEF TypeOK
<1>4. TypeOK'
  BY <1>0, <1>9, <1>2, <1>3 DEF TypeOK
<1>5. DriverInv' /\ DeliveredInOrder'
  BY <1>0, <1>9 DEF DriverInv, DeliveredInOrder, SerialInv
<1>6. TestInv' /\ SilentInv' /\ Configured'
  BY <1>0, <1>9 DEF TestInv, SilentInv, Configured
<1>7. ASSUME serial_ok  PROVE returned' \o rx' = left' \o received'
  <2>1. present /\ rx # <<>> /\ returned \o rx = left \o received
    BY <1>0, <1>7 DEF Configured, InputInOrder, ReadByte, serial_is_received
  <2>2. returned' = Append(returned, Head(rx)) /\ rx' = Tail(rx)
    BY <1>1, <1>9, <2>1 DEF DataReads, Taken
  <2>3. returned \in Seq(Byte) /\ rx \in Seq(Byte)
    BY <1>0 DEF TypeOK
  <2> QED
    BY <1>9, <2>1, <2>2, <2>3, MoveHead
<1>8. InputInOrder'
  BY <1>0, <1>9, <1>7 DEF InputInOrder
<1> QED
  BY <1>4, <1>5, <1>6, <1>8 DEF SerialInv

-----------------------------------------------------------------------------
(* A byte leaves the transmit queue: the test byte into the receive queue,  *)
(* a byte of a working port onto the line.                                  *)
LEMMA ShiftSerialInv ==
  ASSUME SerialInv, Shift  PROVE SerialInv'
<1>0. /\ TypeOK /\ TestInv /\ SilentInv /\ DriverInv /\ Configured /\ DeliveredInOrder
      /\ InputInOrder
  BY DEF SerialInv
<1>1. /\ tx # <<>> /\ tx' = Tail(tx)
      /\ loopback => rx' = Enqueue(rx, Head(tx)) /\ wire' = wire
      /\ ~loopback => wire' = Append(wire, Head(tx)) /\ rx' = rx
      /\ UNCHANGED <<present, dlab, divisor, ier, loopback, arrivals, received, quiet, left, pc,
                     step, serial_ok, pending, written, returned>>
  BY DEF Shift, config, driver
<1>2. present /\ pc # "send"
  BY <1>0, <1>1 DEF DriverInv
<1>3. tx \in Seq(Byte) /\ rx \in Seq(Byte) /\ wire \in Seq(Byte) /\ Len(rx) <= FifoSize
  BY <1>0 DEF TypeOK
<1>4. /\ Head(tx) \in Byte /\ Tail(tx) \in Seq(Byte) /\ Len(Tail(tx)) = Len(tx) - 1
      /\ Len(tx) \in Nat
  BY <1>1, <1>3, HeadTailProperties
<1>5. Enqueue(rx, Head(tx)) \in Seq(Byte) /\ Len(Enqueue(rx, Head(tx))) <= FifoSize
  BY <1>3, <1>4, EnqueueFacts
<1>6. tx' \in Seq(Byte) /\ Len(tx') <= FifoSize
  BY <1>0, <1>1, <1>4, SerialAssumption DEF TypeOK
<1>7. rx' \in Seq(Byte) /\ Len(rx') <= FifoSize /\ wire' \in Seq(Byte)
  <2>1. CASE loopback
    BY <2>1, <1>1, <1>3, <1>5
  <2>2. CASE ~loopback
    <3>1. Append(wire, Head(tx)) \in Seq(Byte)
      BY <1>3, <1>4, AppendProperties
    <3> QED
      BY <2>2, <3>1, <1>1, <1>3
  <2> QED
    BY <2>1, <2>2
<1>8. TypeOK'
  BY <1>0, <1>1, <1>6, <1>7 DEF TypeOK
<1>9. DriverInv'
  BY <1>0, <1>1, <1>2 DEF DriverInv
<1>10. TestInv'
  <2> SUFFICES ASSUME pc = "init"  PROVE TestInv'
    BY <1>1 DEF TestInv
  <2>1. step \in {10, 11} /\ tx = <<TestByte>> /\ loopback
    <3>1. step \in 1 .. 11
      BY <1>0, Writes DEF TypeOK
    <3>2. /\ step >= 9 => loopback
          /\ step < 10 => tx = <<>>
          /\ tx \in {<<>>, <<TestByte>>}
      BY <1>0, <1>2, Zenon DEF TestInv
    <3> QED
      BY <1>1, <3>1, <3>2
  <2>2. tx' = <<>> /\ rx' = Enqueue(rx, TestByte) /\ wire' = wire
    BY <1>1, <2>1
  <2>3. TestByte \in Byte
    BY DEF TestByte, Byte
  <2>4. quiet => step = 10 /\ rx' = <<TestByte>>
    <3>1. quiet => step = 10 /\ rx = <<>>
      BY <1>0, <1>2, <2>1 DEF TestInv
    <3>2. rx = <<>> => Enqueue(rx, TestByte) = <<TestByte>>
      BY <2>3, <1>3, EnqueueFacts
    <3> QED
      BY <2>2, <3>1, <3>2
  <2> QED
    BY <1>0, <1>1, <1>2, <2>1, <2>2, <2>4 DEF TestInv
<1>11. SilentInv' /\ Configured'
  BY <1>0, <1>1 DEF SilentInv, Configured
<1>12. CASE ~serial_ok
  <2>1. loopback
    BY <1>0, <1>1, <1>2, <1>12 DEF SilentInv, TestInv, TypeOK
  <2>2. DeliveredInOrder' /\ InputInOrder'
    BY <1>0, <1>1, <1>12, <2>1 DEF DeliveredInOrder, InputInOrder
  <2> QED
    BY <1>8, <1>9, <1>10, <1>11, <2>2 DEF SerialInv
<1>13. CASE serial_ok
  <2>1. ~loopback
    BY <1>0, <1>13 DEF Configured
  <2>2. wire' \o tx' = wire \o tx /\ rx' = rx
    BY <1>1, <1>3, <2>1, MoveHead
  <2>3. DeliveredInOrder' /\ InputInOrder'
    BY <1>0, <1>1, <1>13, <2>2 DEF DeliveredInOrder, InputInOrder
  <2> QED
    BY <1>8, <1>9, <1>10, <1>11, <2>3 DEF SerialInv
<1> QED
  BY <1>12, <1>13

(* A byte of the peer: not into a port in loopback, so not between the      *)
(* eighth write and the test.                                               *)
LEMMA ArriveSerialInv ==
  ASSUME SerialInv, NEW byte \in PeerBytes, Arrive(byte)  PROVE SerialInv'
<1>0. /\ TypeOK /\ TestInv /\ SilentInv /\ DriverInv /\ Configured /\ DeliveredInOrder
      /\ InputInOrder
  BY DEF SerialInv
<1>1. byte \in Byte
  BY SerialAssumption
<1>2. /\ present /\ arrivals < MaxArrived /\ arrivals' = arrivals + 1
      /\ rx' = IF loopback THEN rx ELSE Enqueue(rx, byte)
      /\ received' = IF pc # "init" /\ rx' # rx THEN Append(received, byte) ELSE received
      /\ quiet' = (quiet /\ ~(pc = "init" /\ step > 6 /\ rx' # rx))
      /\ UNCHANGED <<present, dlab, divisor, ier, loopback, tx, wire, left, pc, step, serial_ok,
                     pending, written, returned>>
  BY DEF Arrive, config, driver
<1>3. rx \in Seq(Byte) /\ Len(rx) <= FifoSize /\ received \in Seq(Byte) /\ returned \in Seq(Byte)
  BY <1>0 DEF TypeOK
<1>4. /\ Enqueue(rx, byte) \in Seq(Byte) /\ Len(Enqueue(rx, byte)) <= FifoSize
      /\ Enqueue(rx, byte) # rx => Enqueue(rx, byte) = Append(rx, byte)
  BY <1>1, <1>3, EnqueueFacts
<1>5. rx' \in Seq(Byte) /\ Len(rx') <= FifoSize /\ quiet' \in BOOLEAN
  BY <1>2, <1>3, <1>4
<1>6. received' \in Seq(Byte)
  BY <1>1, <1>2, <1>3
<1>7. arrivals' \in 0 .. MaxArrived
  BY <1>0, <1>2, SerialAssumption DEF TypeOK
<1>8. TypeOK'
  BY <1>0, <1>2, <1>5, <1>6, <1>7 DEF TypeOK
<1>9. DriverInv' /\ SilentInv' /\ Configured' /\ DeliveredInOrder'
  BY <1>0, <1>2 DEF DriverInv, SilentInv, Configured, DeliveredInOrder
<1>10. TestInv'
  <2> SUFFICES ASSUME pc = "init"  PROVE TestInv'
    BY <1>2 DEF TestInv
  <2>1. received' = received
    BY <1>2
  <2>2. step >= 9 => rx' = rx
    BY <1>0, <1>2 DEF TestInv
  <2>3. quiet' => quiet /\ (step > 6 => rx' = rx)
    BY <1>2
  <2>4. step \in Int
    BY <1>0, Writes DEF TypeOK
  <2>5. /\ step \in 7 .. 9 => step > 6
        /\ step = 10 => step > 6
        /\ step = 11 => step > 6
    BY <2>4
  <2>6. ASSUME present
        PROVE  /\ quiet' /\ step \in 7 .. 9 => rx' = <<>>
               /\ quiet' /\ step = 10 => \/ tx = <<TestByte>> /\ rx' = <<>>
                                         \/ tx = <<>> /\ rx' = <<TestByte>>
               /\ quiet' /\ step = 11 => tx = <<>> /\ rx' = <<>>
    BY <1>0, <2>3, <2>5, <2>6, Zenon DEF TestInv
  <2> QED
    BY <1>0, <1>2, <2>1, <2>6, Zenon DEF TestInv
<1>11. ASSUME serial_ok  PROVE returned' \o rx' = left' \o received'
  <2>1. ~loopback /\ pc # "init" /\ returned \o rx = left \o received
    BY <1>0, <1>11 DEF Configured, TestInv, InputInOrder
  <2>2. CASE rx' = rx
    BY <1>2, <2>1, <2>2
  <2>3. CASE rx' # rx
    <3>1. rx' = Append(rx, byte) /\ received' = Append(received, byte)
      BY <1>2, <1>4, <2>1, <2>3
    <3>2. returned \o Append(rx, byte) = Append(returned \o rx, byte)
      BY <1>1, <1>3, AddByte
    <3>3. left \o Append(received, byte) = Append(left \o received, byte)
      BY <1>0, <1>1, <1>3, AddByte DEF TypeOK
    <3> QED
      BY <1>2, <2>1, <3>1, <3>2, <3>3
  <2> QED
    BY <2>2, <2>3
<1>12. InputInOrder'
  BY <1>0, <1>2, <1>11 DEF InputInOrder
<1> QED
  BY <1>8, <1>9, <1>10, <1>12 DEF SerialInv

-----------------------------------------------------------------------------
(* SerialInv is inductive: every step of the driver, of the UART and of the *)
(* peer keeps it, in every order.                                           *)
THEOREM SerialInvariant == Spec => []SerialInv
<1>1. SerialInv /\ [Next]_vars => SerialInv'
  <2> SUFFICES ASSUME SerialInv, [Next]_vars  PROVE SerialInv'
    OBVIOUS
  <2>1. CASE InitWrite
    BY <2>1, InitWriteSerialInv
  <2>2. CASE TestFails
    BY <2>2, TestFailsSerialInv
  <2>3. CASE TestPasses
    BY <2>3, TestPassesSerialInv
  <2>4. CASE InitReturns
    BY <2>4, InitReturnsSerialInv
  <2>5. CASE \/ \E str \in Strings : serial_com1_write_string(str)
             \/ PollTransmit
             \/ serial_read_byte
    BY <2>5, CallSerialInv
  <2>6. CASE SendByte
    BY <2>6, SendByteSerialInv
  <2>7. CASE ReadByte
    BY <2>7, ReadByteSerialInv
  <2>8. CASE Shift
    BY <2>8, ShiftSerialInv
  <2>9. CASE \E byte \in PeerBytes : Arrive(byte)
    BY <2>9, ArriveSerialInv
  <2>10. CASE UNCHANGED vars
    <3>1. UNCHANGED <<present, dlab, divisor, ier, loopback, tx, rx, wire, arrivals, received,
                      quiet, left, pc, step, serial_ok, pending, written, returned>>
      BY <2>10 DEF vars, uart, config, driver
    <3>2. TypeOK'
      BY <3>1 DEF SerialInv, TypeOK
    <3>3. TestInv' /\ SilentInv' /\ DriverInv'
      BY <3>1 DEF SerialInv, TestInv, SilentInv, DriverInv
    <3>4. Configured' /\ DeliveredInOrder' /\ InputInOrder'
      BY <3>1 DEF SerialInv, Configured, DeliveredInOrder, InputInOrder
    <3> QED
      BY <3>2, <3>3, <3>4 DEF SerialInv
  <2> QED
    BY <2>1, <2>2, <2>3, <2>4, <2>5, <2>6, <2>7, <2>8, <2>9, <2>10, Zenon DEF Next
<1> QED
  BY <1>1, InitSerialInv, PTL DEF Spec

(* The registers, the queues and the driver's position stay of their types, *)
(* and no queue outgrows the UART's, whatever its size.                     *)
THEOREM SerialTypeCorrect == Spec => []TypeOK
<1>1. SerialInv => TypeOK
  BY DEF SerialInv
<1> QED
  BY <1>1, SerialInvariant, PTL

(* serial_init returning true means a port that is configured and connected *)
(* to the line (serial.c:57-92).                                            *)
THEOREM SerialConfigured == Spec => []Configured
<1>1. SerialInv => Configured
  BY DEF SerialInv
<1> QED
  BY <1>1, SerialInvariant, PTL

(* A port that passed the test puts on the line what callers wrote, in      *)
(* order and whole, whatever the peer sends; before it at most the test     *)
(* byte, and that only if something else than the echo answered the test.   *)
THEOREM SerialDelivers == Spec => []DeliveredInOrder
<1>1. SerialInv => DeliveredInOrder
  BY DEF SerialInv
<1> QED
  BY <1>1, SerialInvariant, PTL

(* Readers get, in order and once, what was left in the receive queue and   *)
(* then what the peer sent after serial_init; if the echo answered the test *)
(* nothing was left, neither of what the port held before nor the echo.     *)
THEOREM SerialReceives == Spec => []InputInOrder
<1>1. SerialInv => InputInOrder
  BY DEF SerialInv
<1> QED
  BY <1>1, SerialInvariant, PTL

=============================================================================
