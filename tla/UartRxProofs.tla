---------------------------- MODULE UartRxProofs ----------------------------
(***************************************************************************)
(* The receive path delivers every byte once and in order, and never masks *)
(* the interrupts without a reason, for every size of the buffer, of the   *)
(* FIFO and of a read.  The four invariants are inductive together.        *)
(***************************************************************************)
EXTENDS UartRx, TLAPS

IInv == TypeOK /\ RingAgrees /\ InOrder /\ MaskedForAReason

\* In the initial state the buffer is empty and nothing was read.
LEMMA InitInv == Init => IInv
<1> SUFFICES ASSUME Init PROVE IInv
  OBVIOUS
<1> USE UartRxAssumption DEF Init, ringVars, Byte, Garbage
<1>1. TypeOK
  BY DEF TypeOK, fifo_len
<1>2. RingAgrees
  BY DEF RingAgrees, Wrap
<1>3. InOrder
  BY DEF InOrder
<1>4. MaskedForAReason
  BY DEF MaskedForAReason
<1> QED
  BY <1>1, <1>2, <1>3, <1>4 DEF IInv

\* An arrival changes nothing but the FIFO.
LEMMA ArriveInv == IInv /\ Arrive => IInv'
<1> SUFFICES ASSUME IInv, Arrive PROVE IInv'
  OBVIOUS
<1> USE UartRxAssumption DEF IInv, Arrive, ringVars, readVars
<1>1. TypeOK'
  BY DEF TypeOK, Byte, fifo_len
<1>2. RingAgrees'
  BY DEF RingAgrees, Wrap
<1>3. InOrder'
  BY DEF InOrder, Wrap
<1>4. MaskedForAReason'
  BY DEF MaskedForAReason
<1> QED
  BY <1>1, <1>2, <1>3, <1>4

\* The handler masks the interrupts, and an event is left to be served even
\* if its own was refused by a full queue.
LEMMA InterruptInv == IInv /\ Interrupt => IInv'
<1> SUFFICES ASSUME IInv, Interrupt PROVE IInv'
  OBVIOUS
<1> USE UartRxAssumption DEF IInv, Interrupt, ringVars, readVars
<1>0. events' \in 0 .. QueueLen
  BY DEF TypeOK
<1>1. TypeOK'
  BY <1>0 DEF TypeOK, Byte, fifo_len
<1>2. RingAgrees'
  BY DEF RingAgrees, Wrap
<1>3. InOrder'
  BY DEF InOrder, Wrap
<1>4. events' > 0
  BY DEF TypeOK
<1> QED
  BY <1>1, <1>2, <1>3, <1>4 DEF MaskedForAReason

\* A refusal means that less than a FIFO, and one place, is free.
LEMMA EnqRefusedInv == IInv /\ EnqRefused => IInv'
<1> SUFFICES ASSUME IInv, EnqRefused PROVE IInv'
  OBVIOUS
<1> USE UartRxAssumption DEF IInv, EnqRefused, ringVars, readVars
<1>1. TypeOK'
  BY DEF TypeOK, Byte, fifo_len
<1>2. RingAgrees'
  BY DEF RingAgrees, Wrap
<1>3. InOrder'
  BY DEF InOrder, Wrap
<1>4. Space' <= fifo_len
  BY DEF TypeOK, Refuses, fifo_len
<1> QED
  BY <1>1, <1>2, <1>3, <1>4 DEF MaskedForAReason, TypeOK, fifo_len

\* The FIFO goes behind the last byte of the buffer, into places that hold
\* nothing; they may lie on both sides of the end of the buffer.
LEMMA EnqInv == IInv /\ Enq => IInv'
<1> SUFFICES ASSUME IInv, Enq PROVE IInv'
  OBVIOUS
<1> USE UartRxAssumption DEF IInv
<1> DEFINE n == fifo_len
<1>1. /\ Size \in Nat /\ FifoLen \in Nat /\ FifoLen < Size
      /\ Space \in 1 .. Size /\ n \in 0 .. FifoLen /\ n < Space
      /\ pInPos \in 0 .. Size - 1 /\ pOutPos \in 0 .. Size - 1
      /\ accepted \in Nat /\ taken \in Nat /\ delivered \in Nat
      /\ n = accepted - taken
      /\ delivered + (Size - Space) = taken
      /\ pInPos = Wrap(pOutPos + (Size - Space))
      /\ MaxBytes \in Nat /\ accepted <= MaxBytes
  BY DEF TypeOK, RingAgrees, Enq, Refuses, fifo_len
<1>2. /\ taken' = accepted /\ accepted' = accepted
      /\ pInPos' = Wrap(pInPos + n) /\ pOutPos' = pOutPos
      /\ Space' = Space - n /\ events' = events - 1 /\ events > 0
      /\ delivered' = delivered /\ len' = len /\ uart_buf' = uart_buf
  BY DEF Enq, readVars
<1>3. RingAgrees'
  BY <1>1, <1>2 DEF RingAgrees, Wrap
<1>4. TypeOK'
  <2>1. \A p \in 0 .. Size - 1 : FromIn(p) < n => taken + FromIn(p) + 1 \in Byte
    BY <1>1 DEF FromIn, Byte
  <2>2. buff' \in [0 .. Size - 1 -> Byte]
    BY <2>1 DEF Enq, TypeOK
  <2>3. pInPos' \in 0 .. Size - 1 /\ Space' \in 0 .. Size
    BY <1>1, <1>2 DEF Wrap
  <2>4. fifo_len' = 0 /\ events' \in 0 .. QueueLen
    BY <1>1, <1>2 DEF fifo_len, TypeOK
  <2>5. intr_enabled' \in BOOLEAN
    BY DEF Enq, TypeOK
  <2>6. delivered' \in 0 .. taken' /\ taken' \in 0 .. accepted'
    BY <1>1, <1>2
  <2>7. len' \in 0 .. ReadLen /\ uart_buf' \in [1 .. len' -> Byte]
    BY <1>2 DEF TypeOK
  <2> QED
    BY <1>1, <1>2, <2>2, <2>3, <2>4, <2>5, <2>6, <2>7 DEF TypeOK
<1>5. InOrder'
  <2>1. ASSUME NEW k \in 1 .. Size - Space'
        PROVE  buff'[Wrap(pOutPos + k - 1)] = delivered + k
    <3> DEFINE p == Wrap(pOutPos + k - 1)
    <3>1. p \in 0 .. Size - 1
      BY <1>1, <1>2 DEF Wrap
    <3>2. CASE k <= Size - Space
      <4>1. FromIn(p) >= n
        BY <1>1, <1>2, <3>2 DEF FromIn, Wrap
      <4>2. buff'[p] = buff[p]
        BY <1>1, <3>1, <4>1 DEF Enq, FromIn
      <4> QED
        BY <1>1, <3>2, <4>2 DEF InOrder
    <3>3. CASE k > Size - Space
      <4>1. FromIn(p) = k - (Size - Space) - 1
        BY <1>1, <1>2, <3>3 DEF FromIn, Wrap
      <4>2. buff'[p] = taken + FromIn(p) + 1
        BY <1>1, <1>2, <3>1, <4>1 DEF Enq
      <4>3. taken + FromIn(p) + 1 = delivered + k
        BY <1>1, <1>2, <4>1
      <4> QED
        BY <4>2, <4>3
    <3> QED
      BY <1>1, <1>2, <3>2, <3>3
  <2> QED
    BY <1>2, <2>1 DEF InOrder, Wrap
<1>6. MaskedForAReason'
  <2>1. CASE Space' >= FifoLen
    BY <2>1 DEF Enq, MaskedForAReason
  <2>2. CASE ~(Space' >= FifoLen)
    BY <1>1, <1>2, <2>2 DEF MaskedForAReason
  <2> QED
    BY <2>1, <2>2
<1> QED
  BY <1>3, <1>4, <1>5, <1>6

\* A read starts at the oldest byte.  It stays inside the buffer because in
\* the first case of rx_buff_deq the contents end before the buffer does.
LEMMA DeqInv == IInv /\ Deq => IInv'
<1> SUFFICES ASSUME IInv, Deq PROVE IInv'
  OBVIOUS
<1> USE UartRxAssumption DEF IInv
<1> DEFINE n == len_tmp
<1>1. /\ Size \in Nat /\ FifoLen \in Nat /\ FifoLen < Size /\ ReadLen \in Nat
      /\ Space \in 1 .. Size /\ n \in 0 .. Size - Space /\ n <= ReadLen
      /\ pInPos \in 0 .. Size - 1 /\ pOutPos \in 0 .. Size - 1
      /\ accepted \in Nat /\ taken \in Nat /\ delivered \in Nat
      /\ delivered + (Size - Space) = taken
      /\ pInPos = Wrap(pOutPos + (Size - Space))
      /\ MaxBytes \in Nat /\ accepted <= MaxBytes /\ taken <= accepted
  BY DEF TypeOK, RingAgrees, len_tmp, buf_len
<1>2. /\ taken' = taken /\ accepted' = accepted /\ pInPos' = pInPos
      /\ Space' = Space + n /\ events' = events /\ buff' = buff
      /\ delivered' = delivered + n /\ len' = n
      /\ intr_enabled' = (intr_enabled \/ Space' >= FifoLen)
  BY DEF Deq, Unmask
<1>3. pOutPos' = Wrap(pOutPos + n)
  <2>1. CASE DeqStraight
    BY <1>1, <2>1 DEF DeqStraight, Wrap
  <2>2. CASE DeqWrapped
    BY <2>2 DEF DeqWrapped
  <2> QED
    BY <2>1, <2>2 DEF Deq
<1>4. uart_buf' = [i \in 1 .. n |-> buff[Wrap(pOutPos + i - 1)]]
  <2>1. CASE DeqStraight
    <3>1. \A i \in 1 .. n : Read(pOutPos + i - 1) = buff[Wrap(pOutPos + i - 1)]
      BY <1>1, <2>1 DEF DeqStraight, Read, Wrap
    <3> QED
      BY <2>1, <3>1 DEF DeqStraight
  <2>2. CASE DeqWrapped
    <3>1. ASSUME NEW i \in 1 .. n
          PROVE  (IF i <= tail_len THEN Read(pOutPos + i - 1) ELSE Read(i - tail_len - 1))
                   = buff[Wrap(pOutPos + i - 1)]
      BY <1>1 DEF tail_len, Read, Wrap
    <3> QED
      BY <2>2, <3>1 DEF DeqWrapped
  <2> QED
    BY <2>1, <2>2 DEF Deq
<1>5. \A i \in 1 .. n : buff[Wrap(pOutPos + i - 1)] = delivered + i
  BY <1>1 DEF InOrder
<1>6. RingAgrees'
  BY <1>1, <1>2, <1>3 DEF RingAgrees, Wrap
<1>7. TypeOK'
  <2>1. pOutPos' \in 0 .. Size - 1 /\ Space' \in 0 .. Size
    BY <1>1, <1>2, <1>3 DEF Wrap
  <2>2. delivered' \in 0 .. taken'
    BY <1>1, <1>2
  <2>3. uart_buf' \in [1 .. n -> Byte]
    <3>1. \A i \in 1 .. n : delivered + i \in Byte
      BY <1>1 DEF Byte
    <3>2. \A i \in 1 .. n : buff[Wrap(pOutPos + i - 1)] \in Byte
      BY <1>5, <3>1
    <3> QED
      BY <1>4, <3>2
  <2>4. intr_enabled' \in BOOLEAN /\ n \in 0 .. ReadLen
    BY <1>1, <1>2
  <2> QED
    BY <1>1, <1>2, <2>1, <2>2, <2>3, <2>4 DEF TypeOK, Byte, fifo_len
<1>8. InOrder'
  <2>1. ASSUME NEW k \in 1 .. Size - Space'
        PROVE  buff'[Wrap(pOutPos' + k - 1)] = delivered' + k
    <3>1. Wrap(pOutPos' + k - 1) = Wrap(pOutPos + (n + k) - 1)
      BY <1>1, <1>2, <1>3 DEF Wrap
    <3>2. n + k \in 1 .. Size - Space
      BY <1>1, <1>2
    <3>3. buff[Wrap(pOutPos + (n + k) - 1)] = delivered + (n + k)
      BY <3>2 DEF InOrder
    <3> QED
      BY <1>1, <1>2, <3>1, <3>3
  <2>2. \A i \in 1 .. len' : uart_buf'[i] = delivered' - len' + i
    BY <1>1, <1>2, <1>4, <1>5
  <2> QED
    BY <1>1, <1>2, <2>1, <2>2 DEF InOrder, Wrap
<1>9. MaskedForAReason'
  <2>1. CASE Space' >= FifoLen
    BY <1>2, <2>1 DEF MaskedForAReason
  <2>2. CASE ~(Space' >= FifoLen)
    BY <1>1, <1>2, <2>2 DEF MaskedForAReason
  <2> QED
    BY <2>1, <2>2
<1> QED
  BY <1>6, <1>7, <1>8, <1>9

LEMMA NextInv == IInv /\ [Next]_vars => IInv'
<1> SUFFICES ASSUME IInv, [Next]_vars PROVE IInv'
  OBVIOUS
<1>1. CASE Next
  BY <1>1, ArriveInv, InterruptInv, EnqRefusedInv, EnqInv, DeqInv DEF Next, Task
<1>2. CASE UNCHANGED vars
  BY <1>2 DEF vars, ringVars, readVars, IInv, TypeOK, RingAgrees, InOrder,
              MaskedForAReason, Wrap, fifo_len
<1> QED
  BY <1>1, <1>2

\* The four invariants hold together in every reachable state.
THEOREM Invariance == Spec => []IInv
<1> QED
  BY InitInv, NextInv, PTL DEF Spec

\* Both positions, the space and the last read stay in their ranges.
THEOREM TypeCorrect == Spec => []TypeOK
<1>1. IInv => TypeOK
  BY DEF IInv
<1> QED
  BY <1>1, Invariance, PTL

\* One place stays free, and positions, space and bytes taken agree.
THEOREM RingCorrect == Spec => []RingAgrees
<1>1. IInv => RingAgrees
  BY DEF IInv
<1> QED
  BY <1>1, Invariance, PTL

\* Bytes reach the main loop once each and in order.
THEOREM OrderCorrect == Spec => []InOrder
<1>1. IInv => InOrder
  BY DEF IInv
<1> QED
  BY <1>1, Invariance, PTL

\* The interrupts are never masked for nothing.
THEOREM WakeUpCorrect == Spec => []MaskedForAReason
<1>1. IInv => MaskedForAReason
  BY DEF IInv
<1> QED
  BY <1>1, Invariance, PTL
=============================================================================
