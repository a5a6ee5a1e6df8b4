------------------------------- MODULE UartRx -------------------------------
(***************************************************************************)
(* How bytes get from the UART's hardware FIFO to the main loop            *)
(* (user/uart_trans.c).  Three actors share the interrupt enable bit, the  *)
(* event queue and the ring buffer pRxBuffer:                              *)
(*   - the interrupt handler masks the receive interrupts and posts an     *)
(*     event;                                                              *)
(*   - the task moves the FIFO into the ring buffer, or refuses;           *)
(*   - the main loop reads the ring buffer, up to ReadLen bytes at a time. *)
(* The handler only reads and writes registers, so it is atomic for the    *)
(* other two, and they do not preempt each other.                          *)
(*                                                                         *)
(* Bytes are numbered in the order the FIFO accepts them, so a value tells *)
(* the position; the FIFO holds the numbers taken + 1 .. accepted.         *)
(***************************************************************************)
EXTENDS Naturals

CONSTANTS
  Size,              \* UartBuffSize
  FifoLen,           \* UART_FIFO_LEN, the size of the hardware FIFO
  ReadLen,           \* the data_len of uart_trans_update's rx_buff_deq
  QueueLen,          \* uart_recvTaskQueueLen
  MaxBytes           \* bound: bytes the FIFO accepts

\* A FIFO can be emptied into a buffer that holds nothing.
ASSUME UartRxAssumption ==
  /\ Size \in Nat /\ FifoLen \in Nat \ {0} /\ FifoLen < Size
  /\ ReadLen \in Nat \ {0}
  /\ QueueLen \in Nat \ {0}
  /\ MaxBytes \in Nat

VARIABLES
  accepted, taken,           \* the FIFO, see above
  intr_enabled,              \* UART_RXFIFO_FULL_INT_ENA and _TOUT_INT_ENA
  events,                    \* events in uart_recvTaskQueue
  buff, pInPos, pOutPos, Space,          \* pRxBuffer
  delivered,                 \* bytes read so far
  len, uart_buf              \* uart_trans_update: what the last read returned

ringVars == <<buff, pInPos, pOutPos, Space>>
readVars == <<delivered, len, uart_buf>>
vars == <<accepted, taken, intr_enabled, events, ringVars, readVars>>

Garbage == 0
Byte == 0 .. MaxBytes

Init ==
  /\ accepted = 0 /\ taken = 0
  /\ intr_enabled = TRUE
  /\ events = 0
  /\ buff = [p \in 0 .. Size - 1 |-> Garbage]
  /\ pInPos = 0 /\ pOutPos = 0 /\ Space = Size
  /\ delivered = 0 /\ len = 0
  /\ uart_buf = [i \in 1 .. 0 |-> Garbage]

\* A byte arrives; one that finds the FIFO full is lost in the hardware.
Arrive ==
  /\ accepted < MaxBytes
  /\ accepted - taken < FifoLen
  /\ accepted' = accepted + 1
  /\ UNCHANGED <<taken, intr_enabled, events, ringVars, readVars>>

\* uart0_rx_intr_handler, RXFIFO_FULL or RXFIFO_TOUT: the FIFO holds
\* something.  system_os_post fails silently when the queue is full.
Interrupt ==
  /\ intr_enabled /\ taken < accepted
  /\ intr_enabled' = FALSE
  /\ events' = IF events < QueueLen THEN events + 1 ELSE events
  /\ UNCHANGED <<accepted, taken, ringVars, readVars>>

-----------------------------------------------------------------------------
fifo_len == accepted - taken

Refuses == fifo_len >= Space

\* A position of the buffer after at most Size steps: "% UartBuffSize", and
\* the comparison with the end of the buffer in Uart_rx_buff_enq.
Wrap(p) == IF p >= Size THEN p - Size ELSE p

\* Uart_rx_buff_enq without room: the interrupts stay masked.
EnqRefused ==
  /\ events > 0 /\ Refuses
  /\ events' = events - 1
  /\ UNCHANGED <<accepted, taken, intr_enabled, ringVars, readVars>>

\* The distance from pInPos to p, going up.
FromIn(p) == IF p >= pInPos THEN p - pInPos ELSE p + Size - pInPos

\* Uart_rx_buff_enq: the whole FIFO is moved.
Enq ==
  /\ events > 0 /\ ~Refuses
  /\ events' = events - 1
  /\ taken' = accepted
  /\ buff' = [p \in 0 .. Size - 1 |->
                IF FromIn(p) < fifo_len THEN taken + FromIn(p) + 1 ELSE buff[p]]
  /\ pInPos' = Wrap(pInPos + fifo_len)
  /\ Space' = Space - fifo_len
  /\ intr_enabled' = (intr_enabled \/ Space' >= FifoLen)
  /\ UNCHANGED <<accepted, pOutPos, readVars>>

-----------------------------------------------------------------------------
buf_len == Size - Space
len_tmp == IF ReadLen > buf_len THEN buf_len ELSE ReadLen
BugTail == Size - pOutPos - 1
tail_len == Size - pOutPos

\* What os_memcpy reads from position p on: nothing wraps by itself.
Read(p) == IF p < Size THEN buff[p] ELSE Garbage

\* rx_buff_deq, for a buffer whose contents do not wrap ...
DeqStraight ==
  /\ pOutPos <= pInPos
  /\ uart_buf' = [i \in 1 .. len_tmp |-> Read(pOutPos + i - 1)]
  /\ pOutPos' = pOutPos + len_tmp

\* ... and for one whose contents do: in two pieces or in one.
DeqWrapped ==
  /\ pOutPos > pInPos
  /\ uart_buf' = [i \in 1 .. len_tmp |->
                    IF i <= tail_len THEN Read(pOutPos + i - 1)
                                     ELSE Read(i - tail_len - 1)]
  /\ pOutPos' = Wrap(pOutPos + len_tmp)

BugUnmask == Space >= FifoLen
BugNoUnmask == FALSE
Unmask == Space' >= FifoLen

\* uart_trans_update, at every run of the main loop: even a read that finds
\* nothing unmasks the interrupts when there is room for a FIFO.
Deq ==
  /\ DeqStraight \/ DeqWrapped
  /\ len' = len_tmp
  /\ Space' = Space + len_tmp
  /\ delivered' = delivered + len_tmp
  /\ intr_enabled' = (intr_enabled \/ Unmask)
  /\ UNCHANGED <<accepted, taken, events, buff, pInPos>>

Task == Enq \/ EnqRefused
Next == Arrive \/ Interrupt \/ Task \/ Deq

Spec == Init /\ [][Next]_vars

\* A pending interrupt is taken, a posted event is served, and the main loop
\* runs periodically; nothing makes bytes arrive.
Fairness == WF_vars(Interrupt) /\ WF_vars(Task) /\ WF_vars(Deq)
FairSpec == Spec /\ Fairness

-----------------------------------------------------------------------------
(* Properties.                                                             *)

\* The types and ranges of the variables of uart_trans.c; in particular both
\* positions stay inside the buffer although rx_buff_deq does not wrap in its
\* first case.
TypeOK ==
  /\ accepted \in 0 .. MaxBytes /\ taken \in 0 .. accepted
  /\ fifo_len <= FifoLen
  /\ intr_enabled \in BOOLEAN
  /\ events \in 0 .. QueueLen
  /\ buff \in [0 .. Size - 1 -> Byte]
  /\ pInPos \in 0 .. Size - 1 /\ pOutPos \in 0 .. Size - 1
  /\ Space \in 0 .. Size
  /\ delivered \in 0 .. taken
  /\ len \in 0 .. ReadLen
  /\ uart_buf \in [1 .. len -> Byte]

\* One place of the buffer is never used, so equal positions mean "empty"
\* (which is how rx_buff_deq reads them), and the positions and Space, which
\* the task and the main loop update separately, always describe the bytes
\* that were taken from the FIFO and not delivered yet.
RingAgrees ==
  /\ Space >= 1
  /\ delivered + (Size - Space) = taken
  /\ pInPos = Wrap(pOutPos + (Size - Space))

\* The main loop gets the bytes in the order the FIFO accepted them, none
\* twice, none skipped, none overwritten before it is read, none read from
\* beyond the end of the buffer.
InOrder ==
  /\ \A k \in 1 .. Size - Space : buff[Wrap(pOutPos + k - 1)] = delivered + k
  /\ \A i \in 1 .. len : uart_buf[i] = delivered - len + i

\* No lost wake-up: the receive interrupts are masked only while an event is
\* still to be served, or while the buffer is so full that a later read is
\* bound to unmask them.
MaskedForAReason == intr_enabled \/ events > 0 \/ Space <= FifoLen

\* Every byte the FIFO accepts reaches the main loop, whatever was refused or
\* posted in vain before.
EveryByteArrives ==
  \A k \in 1 .. MaxBytes : accepted >= k ~> delivered >= k
=============================================================================
