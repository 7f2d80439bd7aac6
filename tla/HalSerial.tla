----------------------------- MODULE HalSerial -----------------------------
(***************************************************************************)
(* The serial driver: the byte queues (os/hal/src/hal_queues.c) between    *)
(* threads and the interrupt handler of a USART, with the handler of the   *)
(* first STM32 version (hal_serial_lld.c in LLD/USARTv1).                  *)
(*                                                                         *)
(* A call of a thread is locked but for the points at which it sleeps or,  *)
(* in oqWriteTimeout and iqReadTimeout, gives a preemption chance.  The    *)
(* handler reads CR1 and SR once, outside of the lock, and uses what it    *)
(* read in three locked parts; handlers of a higher priority put bytes in  *)
(* between.  What a thread does when it is made ready it does at any later *)
(* moment.                                                                 *)
(***************************************************************************)
EXTENDS Integers, Sequences, FiniteSets, ChLists

CONSTANTS
  Writers, Readers,   \* threads
  OutBytes, InBytes,  \* bytes that are written and bytes that arrive
  NoByte,
  Size,               \* bytes of a queue, SERIAL_BUFFERS_SIZE
  MaxBytes            \* bound: bytes of a call

VARIABLES
  oq, iq,    \* the io_queue_t: buffer, rd, wr, counter and its waiting threads
  call,      \* of a thread: where it is in its call, and the bytes left
  usart,     \* CR1, the data and shift registers of the transmitter, and the
             \* byte in the receiver's register
  handler,   \* serve_interrupt: the part that is next, and its cr1 and sr
  written,   \* history: the bytes accepted and still to be transmitted
  received   \* history: the bytes received and still to be read

serialvars == <<oq, iq, call, usart, handler, written, received>>

Calls == Writers \cup Readers

\* What the driver needs of its constants: a queue has room, a thread is on one
\* side, and NoByte is not a byte.
SerialConstants ==
  /\ Size \in Nat \ {0} /\ MaxBytes \in Nat
  /\ NoByte \notin OutBytes
  /\ Writers \cap Readers = {} /\ IsFiniteSet(Calls)
NoCall == [at |-> "out", n |-> 0]
NoHandler == [at |-> "none", cr1 |-> {}, sr |-> {}]

\* iqObjectInit and oqObjectInit.  A cell without a byte of the queue is NoByte.
EmptyQueue(counter) ==
  [buffer |-> [p \in 0 .. Size - 1 |-> NoByte], rd |-> 0, wr |-> 0,
   counter |-> counter, waiting |-> <<>>]

SerialInit ==
  /\ oq = EmptyQueue(Size) /\ iq = EmptyQueue(0)
  /\ call = [t \in Calls |-> NoCall]
  /\ usart = [cr1 |-> {}, dr |-> NoByte, shift |-> NoByte, rdr |-> NoByte]
  /\ handler = NoHandler
  /\ written = <<>> /\ received = <<>>

-----------------------------------------------------------------------------
(* The rings *)

Minimum(a, b) == IF a < b THEN a ELSE b

\* Mutant: a copy in two parts leaves the pointer at the start of the buffer.
Behind_short(p, k) == IF k < Size - p THEN p + k ELSE 0

\* The pointer behind k bytes, as the three cases of both functions set it.
Behind(p, k) == IF k < Size - p THEN p + k ELSE k - (Size - p)

\* The cells of k bytes from p on, up to the top and then from the start: the
\* i-th of them.
Cell(p, i) == IF p + i < Size THEN p + i ELSE p + i - Size

\* The copy of oq_write, and of one byte in iqPutI and oqPutI.
Stored(q, s) ==
  [q EXCEPT !.buffer = [p \in 0 .. Size - 1 |->
                          IF \E i \in DOMAIN s : Cell(q.wr, i - 1) = p
                          THEN s[CHOOSE i \in DOMAIN s : Cell(q.wr, i - 1) = p]
                          ELSE @[p]],
            !.wr = Behind(@, Len(s))]

\* k bytes from the read pointer on, and the queue without them: iq_read, and
\* one byte in iqGetI and oqGetI.
First(q, k) == [i \in 1 .. k |-> q.buffer[Cell(q.rd, i - 1)]]
Fetched(q, k) ==
  [q EXCEPT !.buffer = [p \in 0 .. Size - 1 |->
                          IF \E i \in 0 .. k - 1 : Cell(q.rd, i) = p THEN NoByte ELSE @[p]],
            !.rd = Behind(@, k)]

\* osalThreadDequeueNextI: the first waiting thread goes on.
Woken(q) == IF q.waiting = <<>> THEN call ELSE [call EXCEPT ![Head(q.waiting)].at = "ready"]
Popped(q) == IF q.waiting = <<>> THEN q ELSE [q EXCEPT !.waiting = Tail(@)]

\* osalThreadDequeueAllI with MSG_RESET, upon which the calls end.
AllEnded(q) ==
  [t \in Calls |-> IF \E i \in DOMAIN q.waiting : q.waiting[i] = t THEN NoCall ELSE call[t]]

\* A call has moved some bytes: it gives a preemption chance and goes on, or it
\* ends.
Rest(n) == IF n > 0 THEN [at |-> "ready", n |-> n] ELSE NoCall

\* The parts of the handler that are one critical section.
Unlocked == handler.at # "reread"

-----------------------------------------------------------------------------
(* Output *)

\* notify1
Notified == [usart EXCEPT !.cr1 = @ \cup {"TXEIE", "TCIE"}]

\* k bytes go into the queue, and the low side is informed: oq_write with its
\* callers, and oqPutI.
Put(k) ==
  \E s \in [1 .. k -> OutBytes] :
    /\ oq' = [Stored(oq, s) EXCEPT !.counter = @ - k]
    /\ written' = written \o s
    /\ usart' = Notified

\* The loop of oqWriteTimeout once: bytes are written, or the thread waits for
\* room.  oqPutTimeout is the loop for one byte.
Write(t, n) ==
  LET done == Minimum(n, oq.counter)
  IN  \/ /\ done > 0
         /\ Put(done)
         /\ call' = [call EXCEPT ![t] = Rest(n - done)]
      \/ /\ done = 0
         /\ oq' = [oq EXCEPT !.waiting = Append(@, t)]
         /\ call' = [call EXCEPT ![t] = [at |-> "queued", n |-> n]]
         /\ UNCHANGED <<usart, written>>

oqWriteTimeout(t) ==
  /\ handler.at = "none"
  /\ \/ call[t].at = "out" /\ \E n \in 1 .. MaxBytes : Write(t, n)
     \/ call[t].at = "ready" /\ Write(t, call[t].n)
  /\ UNCHANGED <<iq, handler, received>>

\* oqPutI and oqWriteI, of another handler, or a call with TIME_IMMEDIATE.
oqWriteI(n) ==
  /\ Unlocked
  /\ oq.counter > 0
  /\ Put(Minimum(n, oq.counter))
  /\ UNCHANGED <<iq, call, handler, received>>

oqResetI ==
  /\ Unlocked
  /\ oq' = EmptyQueue(Size)
  /\ call' = AllEnded(oq)
  /\ written' = SubSeq(written, 1, Len(written) - (Size - oq.counter))
  /\ UNCHANGED <<iq, usart, handler, received>>

-----------------------------------------------------------------------------
(* Input *)

\* k bytes are taken from the queue; the driver has no notification for it.
Get(k) ==
  /\ iq' = [Fetched(iq, k) EXCEPT !.counter = @ - k]
  /\ received' = SubSeq(received, k + 1, Len(received))

\* The loop of iqReadTimeout once.  iqGetTimeout is the loop for one byte.
Read(t, n) ==
  LET done == Minimum(n, iq.counter)
  IN  \/ /\ done > 0
         /\ Get(done)
         /\ call' = [call EXCEPT ![t] = Rest(n - done)]
      \/ /\ done = 0
         /\ iq' = [iq EXCEPT !.waiting = Append(@, t)]
         /\ call' = [call EXCEPT ![t] = [at |-> "queued", n |-> n]]
         /\ UNCHANGED received

iqReadTimeout(t) ==
  /\ handler.at = "none"
  /\ \/ call[t].at = "out" /\ \E n \in 1 .. MaxBytes : Read(t, n)
     \/ call[t].at = "ready" /\ Read(t, call[t].n)
  /\ UNCHANGED <<oq, usart, handler, written>>

\* iqGetI and iqReadI.
iqReadI(n) ==
  /\ Unlocked
  /\ iq.counter > 0
  /\ Get(Minimum(n, iq.counter))
  /\ UNCHANGED <<oq, call, usart, handler, written>>

iqResetI ==
  /\ Unlocked
  /\ iq' = EmptyQueue(0)
  /\ call' = AllEnded(iq)
  /\ received' = <<>>
  /\ UNCHANGED <<oq, usart, handler, written>>

iqIsFullI == iq.wr = iq.rd /\ iq.counter # 0
oqIsEmptyI == oq.wr = oq.rd /\ oq.counter # 0

\* sdIncomingDataI with iqPutI: a byte that finds the queue full is lost.
sdIncomingDataI(b) ==
  IF iqIsFullI
  THEN UNCHANGED <<iq, call, received>>
  ELSE /\ iq' = Popped([Stored(iq, <<b>>) EXCEPT !.counter = @ + 1])
       /\ call' = Woken(iq)
       /\ received' = Append(received, b)

\* The timeout of a wait, upon which the call ends.
Timeout(t) ==
  /\ Unlocked
  /\ call[t].at = "queued"
  /\ call' = [call EXCEPT ![t] = NoCall]
  /\ IF t \in Writers THEN oq' = [oq EXCEPT !.waiting = Without(@, t)] /\ UNCHANGED iq
                       ELSE iq' = [iq EXCEPT !.waiting = Without(@, t)] /\ UNCHANGED oq
  /\ UNCHANGED <<usart, handler, written, received>>

-----------------------------------------------------------------------------
(* The interrupt handler, serve_interrupt *)

SR ==
  {f \in {"TXE", "TC", "RXNE"} :
     \/ f = "TXE" /\ usart.dr = NoByte
     \/ f = "TC" /\ usart.dr = NoByte /\ usart.shift = NoByte
     \/ f = "RXNE" /\ usart.rdr # NoByte}

\* CR1 and SR are read.
ServeInterrupt ==
  /\ handler.at = "none"
  /\ \/ "TXEIE" \in usart.cr1 /\ "TXE" \in SR
     \/ "TCIE" \in usart.cr1 /\ "TC" \in SR
     \/ "RXNE" \in SR
  /\ handler' = [at |-> "rx", cr1 |-> usart.cr1, sr |-> SR]
  /\ UNCHANGED <<oq, iq, call, usart, written, received>>

\* The loop over received bytes, in one critical section: a byte is taken, and
\* SR is read again.
ServeReceiver ==
  \/ /\ handler.at = "rx"
     /\ IF "RXNE" \in handler.sr
        THEN /\ sdIncomingDataI(usart.rdr)
             /\ usart' = [usart EXCEPT !.rdr = NoByte]
             /\ handler' = [handler EXCEPT !.at = "reread"]
        ELSE /\ handler' = [handler EXCEPT !.at = "tx"]
             /\ UNCHANGED <<iq, call, usart, received>>
     /\ UNCHANGED <<oq, written>>
  \/ /\ handler.at = "reread"
     /\ IF "RXNE" \in SR
        THEN /\ sdIncomingDataI(usart.rdr)
             /\ usart' = [usart EXCEPT !.rdr = NoByte]
             /\ UNCHANGED handler
        ELSE /\ handler' = [handler EXCEPT !.at = "tx", !.sr = SR]
             /\ UNCHANGED <<iq, call, usart, received>>
     /\ UNCHANGED <<oq, written>>

\* The transmitter takes a byte with oqGetI, or its interrupt is disabled.
ServeTransmitter ==
  /\ handler.at = "tx"
  /\ IF "TXEIE" \in handler.cr1 /\ "TXE" \in handler.sr
     THEN IF oqIsEmptyI
          THEN /\ usart' = [usart EXCEPT !.cr1 = handler.cr1 \ {"TXEIE"}]
               /\ UNCHANGED <<oq, call>>
          ELSE /\ oq' = Popped([Fetched(oq, 1) EXCEPT !.counter = @ + 1])
               /\ call' = Woken(oq)
               /\ usart' = [usart EXCEPT !.dr = First(oq, 1)[1]]
     ELSE UNCHANGED <<oq, call, usart>>
  /\ handler' = [handler EXCEPT !.at = "tc"]
  /\ UNCHANGED <<iq, written, received>>

\* Mutant: the end of a transmission is taken from the status alone.
ServeTransmissionEnd_unchecked ==
  /\ handler.at = "tc"
  /\ usart' = IF "TCIE" \in handler.cr1 /\ "TC" \in handler.sr
              THEN [usart EXCEPT !.cr1 = handler.cr1 \ {"TCIE"}]
              ELSE usart
  /\ handler' = NoHandler
  /\ UNCHANGED <<oq, iq, call, written, received>>

\* The end of the transmission, and of the handler.
ServeTransmissionEnd ==
  /\ handler.at = "tc"
  /\ usart' = IF "TCIE" \in handler.cr1 /\ "TC" \in handler.sr /\ oqIsEmptyI
              THEN [usart EXCEPT !.cr1 = handler.cr1 \ {"TCIE"}]
              ELSE usart
  /\ handler' = NoHandler
  /\ UNCHANGED <<oq, iq, call, written, received>>

\* The hardware: a byte goes from the data to the shift register, it is out, a
\* byte arrives.
Hardware ==
  /\ \/ /\ usart.dr # NoByte /\ usart.shift = NoByte
        /\ usart' = [usart EXCEPT !.shift = usart.dr, !.dr = NoByte]
        /\ UNCHANGED written
     \/ /\ usart.shift # NoByte
        /\ usart' = [usart EXCEPT !.shift = NoByte]
        /\ written' = Tail(written)
     \/ /\ usart.rdr = NoByte
        /\ \E b \in InBytes : usart' = [usart EXCEPT !.rdr = b]
        /\ UNCHANGED written
  /\ UNCHANGED <<oq, iq, call, handler, received>>

-----------------------------------------------------------------------------

SerialNext ==
  \/ \E t \in Writers : oqWriteTimeout(t)
  \/ \E t \in Readers : iqReadTimeout(t)
  \/ \E t \in Calls : Timeout(t)
  \/ \E n \in 1 .. MaxBytes : oqWriteI(n) \/ iqReadI(n)
  \/ oqResetI \/ iqResetI
  \/ ServeInterrupt \/ ServeReceiver \/ ServeTransmitter \/ ServeTransmissionEnd
  \/ Hardware

SerialSpec == SerialInit /\ [][SerialNext]_serialvars

-----------------------------------------------------------------------------
(* Properties *)

Register(b) == IF b = NoByte THEN <<>> ELSE <<b>>

\* The bytes of both directions pass in order, each once, whatever the calls
\* and the pieces they come in: what is in the shift register, the data register
\* and the output queue is what was written and not transmitted, what is in the
\* input queue is what was received and not read.
SerialStream ==
  /\ written = Register(usart.shift) \o Register(usart.dr) \o First(oq, Size - oq.counter)
  /\ received = First(iq, iq.counter)

ServedOf(ts) == {t \in ts : call[t].at = "ready"}

\* Nothing stands still.  While there are bytes in the output queue the
\* transmitter's interrupt is enabled, although the handler writes a CR1 that
\* it read before others changed it; as long as writers sleep, room in the queue
\* has a writer on its way to it, and the same for readers and bytes.
SerialNeverStuck ==
  /\ oq.counter < Size => "TXEIE" \in usart.cr1
  /\ oq.waiting # <<>> => oq.counter <= Cardinality(ServedOf(Writers))
  /\ iq.waiting # <<>> => iq.counter <= Cardinality(ServedOf(Readers))

=============================================================================
