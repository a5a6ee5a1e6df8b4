--------------------------- MODULE RequestsProofs ---------------------------
(* Proofs about Requests, for every limit, tick, timeout and gap.           *)
EXTENDS Requests, TLAPS

Gone == timer_cnt - asked              \* how long the wait has lasted

\* The main loop is never late; the last transmission is recent; every resend
\* took at most a Slot.
Timing ==
  /\ last_run <= timer_cnt /\ timer_cnt - last_run <= Gap
  /\ protocol_step = "wait" =>
       \E sent \in Nat :
         /\ last_send_time = sent * US_PER_TICK
         /\ sent <= timer_cnt
         /\ last_run <= sent \/ (last_run - sent) * US_PER_TICK <= Timeout
         /\ sent - asked <= resend_try * Slot

IInv == TypeOK /\ ResendsTheAwaited /\ Timing

-----------------------------------------------------------------------------
\* A number of ticks that is not longer than the timeout.
LEMMA TicksInTimeout ==
  ASSUME NEW d \in Nat, d * US_PER_TICK <= Timeout
  PROVE  d <= Timeout \div US_PER_TICK
<1> DEFINE q == Timeout \div US_PER_TICK
           r == Timeout % US_PER_TICK
<1>1. US_PER_TICK \in Nat /\ US_PER_TICK > 0 /\ Timeout \in Nat
  BY RequestsAssumption
<1>2. Timeout = q * US_PER_TICK + r /\ r \in 0 .. US_PER_TICK - 1 /\ q \in Nat
  BY <1>1
<1> HIDE DEF q, r
<1>3. CASE d > q
  <2>1. (d - q) * US_PER_TICK >= US_PER_TICK
    BY <1>1, <1>2, <1>3
  <2>2. (d - q) * US_PER_TICK = d * US_PER_TICK - q * US_PER_TICK
    BY <1>1, <1>2
  <2>3. d * US_PER_TICK \in Nat /\ q * US_PER_TICK \in Nat
    BY <1>1, <1>2
  <2>4. d * US_PER_TICK - q * US_PER_TICK <= r
    BY <2>3, <1>1, <1>2
  <2> QED BY <2>1, <2>2, <2>4, <2>3, <1>1, <1>2
<1> QED BY <1>2, <1>3 DEF q

LEMMA SlotNat == Slot \in Nat /\ Timeout \div US_PER_TICK \in Nat
BY RequestsAssumption DEF Slot

\* Multiplication by the tick.
LEMMA Scale ==
  ASSUME NEW a \in Nat, NEW b \in Nat
  PROVE  a * US_PER_TICK - b * US_PER_TICK = (a - b) * US_PER_TICK
BY RequestsAssumption

\* While an answer is awaited, the last transmission is at most a Slot ago.
LEMMA Recent ==
  ASSUME IInv, NEW sent \in Nat, sent <= timer_cnt,
         last_run <= sent \/ (last_run - sent) * US_PER_TICK <= Timeout
  PROVE  timer_cnt - sent <= Slot
<1>1. timer_cnt \in Nat /\ last_run \in Nat /\ timer_cnt - last_run <= Gap
  BY DEF IInv, TypeOK, Timing
<1>2. CASE last_run <= sent
  BY <1>1, <1>2, SlotNat, RequestsAssumption DEF Slot
<1>3. CASE last_run > sent
  <2>1. last_run - sent \in Nat
    BY <1>1, <1>3
  <2>2. last_run - sent <= Timeout \div US_PER_TICK
    BY <2>1, <1>1, <1>3, TicksInTimeout
  <2> QED BY <2>2, <1>1, SlotNat, RequestsAssumption DEF Slot
<1> QED BY <1>1, <1>2, <1>3

LEMMA NextTimes ==
  ASSUME NEW k \in Nat
  PROVE  (k + 1) * Slot = k * Slot + Slot /\ k * Slot \in Nat
BY SlotNat

LEMMA InitInv == Init => IInv
BY RequestsAssumption DEF Init, IInv, TypeOK, ResendsTheAwaited, Timing, Acked, Replies

\* A step that touches neither the slot's times nor the counter, and at most
\* ends the wait.
LEMMA TimingKept ==
  ASSUME IInv, UNCHANGED <<timer_cnt, last_send_time, resend_try, last_run, asked>>,
         protocol_step' = "wait" => protocol_step = "wait"
  PROVE  Timing'
BY DEF IInv, Timing, Slot

LEMMA NextInv == IInv /\ [Next]_vars => IInv'
<1> SUFFICES ASSUME IInv, [Next]_vars PROVE IInv'
  OBVIOUS
<1>i. TypeOK /\ ResendsTheAwaited /\ Timing
  BY DEF IInv
<1>1. CASE Tick
  <2>1. TypeOK' /\ ResendsTheAwaited'
    BY <1>1, <1>i DEF Tick, slotVars, TypeOK, ResendsTheAwaited
  <2>2. Timing'
    BY <1>1, <1>i, RequestsAssumption DEF Tick, slotVars, TypeOK, Timing, Slot
  <2> QED BY <2>1, <2>2 DEF IInv
<1>2. CASE Resend
  <2>1. TypeOK' /\ ResendsTheAwaited'
    BY <1>2, <1>i, RequestsAssumption
       DEF Resend, Expired, Again, timer_now, TypeOK, ResendsTheAwaited
  <2>2. PICK sent \in Nat :
          /\ sent <= timer_cnt
          /\ last_run <= sent \/ (last_run - sent) * US_PER_TICK <= Timeout
          /\ sent - asked <= resend_try * Slot
    BY <1>2, <1>i DEF Resend, Expired, Timing
  <2>3. timer_cnt - sent <= Slot
    BY <2>2, Recent
  <2>4. resend_try \in Nat /\ timer_cnt \in Nat /\ asked \in Nat
    BY <1>i, RequestsAssumption DEF TypeOK
  <2>5. timer_cnt - asked <= (resend_try + 1) * Slot
    BY <2>2, <2>3, <2>4, NextTimes, SlotNat
  <2>6. /\ timer_cnt' = timer_cnt /\ last_run' = timer_cnt /\ asked' = asked
        /\ last_send_time' = timer_cnt * US_PER_TICK /\ resend_try' = resend_try + 1
        /\ Slot' = Slot
    BY <1>2 DEF Resend, timer_now, Slot
  <2>7. timer_cnt - timer_cnt <= Gap
    BY <2>4, RequestsAssumption
  <2>8. Timing'
    BY <2>4, <2>5, <2>6, <2>7 DEF Timing
  <2> QED BY <2>1, <2>8 DEF IInv
<1>3. CASE GiveUp
  <2>1. TypeOK' /\ ResendsTheAwaited'
    BY <1>3, <1>i, RequestsAssumption DEF GiveUp, timer_now, TypeOK, ResendsTheAwaited
  <2>2. Timing'
    BY <1>3, <1>i, RequestsAssumption DEF GiveUp, TypeOK, Timing
  <2> QED BY <2>1, <2>2 DEF IInv
<1>4. CASE Nothing
  <2>1. TypeOK' /\ ResendsTheAwaited'
    BY <1>4, <1>i DEF Nothing, slotVars, TypeOK, ResendsTheAwaited
  <2>2. ASSUME protocol_step = "wait", NEW sent \in Nat,
               last_send_time = sent * US_PER_TICK, sent <= timer_cnt
        PROVE  (timer_cnt - sent) * US_PER_TICK <= Timeout
    <3>1. ~(timer_cnt * US_PER_TICK - sent * US_PER_TICK > Timeout)
      BY <1>4, <2>2 DEF Nothing, Expired, timer_check, timer_passed, timer_now
    <3>2. timer_cnt \in Nat
      BY <1>i DEF TypeOK
    <3>3. (timer_cnt - sent) * US_PER_TICK = timer_cnt * US_PER_TICK - sent * US_PER_TICK
      BY <3>2, Scale
    <3>4. (timer_cnt - sent) * US_PER_TICK \in Int
      BY <3>2, RequestsAssumption
    <3> QED BY <3>1, <3>3, <3>4, RequestsAssumption
  <2>3. /\ timer_cnt' = timer_cnt /\ last_run' = timer_cnt /\ asked' = asked
        /\ last_send_time' = last_send_time /\ resend_try' = resend_try
        /\ protocol_step' = protocol_step /\ Slot' = Slot
    BY <1>4 DEF Nothing, slotVars, Slot
  <2>4. timer_cnt <= timer_cnt /\ timer_cnt - timer_cnt <= Gap
    BY <1>i, RequestsAssumption DEF TypeOK
  <2>5. Timing'
    BY <1>i, <2>2, <2>3, <2>4 DEF Timing
  <2> QED BY <2>1, <2>5 DEF IInv
<1>5. ASSUME NEW r \in Acked, Ask(r)
      PROVE  IInv'
  <2>1. TypeOK' /\ ResendsTheAwaited'
    BY <1>5, <1>i, RequestsAssumption
       DEF Ask, timer_now, TypeOK, ResendsTheAwaited, Acked
  <2>2. timer_cnt \in Nat /\ resend_try \in Nat
    BY <1>i, RequestsAssumption DEF TypeOK
  <2>3. /\ timer_cnt' = timer_cnt /\ last_run' = last_run /\ asked' = timer_cnt
        /\ last_send_time' = timer_cnt * US_PER_TICK /\ resend_try' = resend_try
        /\ Slot' = Slot
    BY <1>5 DEF Ask, timer_now, Slot
  <2>4. timer_cnt - timer_cnt <= resend_try * Slot
    BY <2>2, NextTimes
  <2>5. Timing'
    BY <1>i, <2>2, <2>3, <2>4 DEF Timing
  <2> QED BY <2>1, <2>5 DEF IInv
<1>6. ASSUME NEW r \in Acked, Answer(r[2])
      PROVE  IInv'
  <2>1. TypeOK' /\ ResendsTheAwaited'
    BY <1>6, <1>i DEF Answer, TypeOK, ResendsTheAwaited, Replies
  <2>2. Timing'
    BY <1>6, TimingKept DEF Answer
  <2> QED BY <2>1, <2>2 DEF IInv
<1>7. ASSUME NEW r \in Replies, Reply(r)
      PROVE  IInv'
  <2>1. TypeOK' /\ ResendsTheAwaited'
    BY <1>7, <1>i DEF Reply, MaySend, TypeOK, ResendsTheAwaited, Replies
  <2>2. Timing'
    BY <1>7, TimingKept DEF Reply
  <2> QED BY <2>1, <2>2 DEF IInv
<1>8. CASE UNCHANGED vars
  <2>1. TypeOK' /\ ResendsTheAwaited'
    BY <1>8, <1>i DEF vars, slotVars, TypeOK, ResendsTheAwaited
  <2>2. Timing'
    BY <1>8, TimingKept DEF vars, slotVars
  <2> QED BY <2>1, <2>2 DEF IInv
<1> QED BY <1>1, <1>2, <1>3, <1>4, <1>5, <1>6, <1>7, <1>8 DEF Next

LEMMA Invariance == Spec => []IInv
BY InitInv, NextInv, PTL DEF Spec

-----------------------------------------------------------------------------
\* Every variable keeps its type; the resends of a device's life are at most
\* RETRY_CNT (protocol_update).
THEOREM TypeCorrect == Spec => []TypeOK
<1>1. IInv => TypeOK
  BY DEF IInv
<1> QED BY <1>1, Invariance, PTL

\* A timeout sends again what is awaited (protocol_resend).
THEOREM ResendCorrect == Spec => []ResendsTheAwaited
<1>1. IInv => ResendsTheAwaited
  BY DEF IInv
<1> QED BY <1>1, Invariance, PTL

\* The slot of protocol_send is taken for a bounded time.
THEOREM WaitCorrect == Spec => []WaitIsShort
<1>1. ASSUME IInv PROVE WaitIsShort
  <2>1. SUFFICES ASSUME protocol_step = "wait"
                 PROVE  timer_cnt - asked <= (RETRY_CNT + 1) * Slot
    BY DEF WaitIsShort
  <2>2. PICK sent \in Nat :
          /\ sent <= timer_cnt
          /\ last_run <= sent \/ (last_run - sent) * US_PER_TICK <= Timeout
          /\ sent - asked <= resend_try * Slot
    BY <1>1, <2>1 DEF IInv, Timing
  <2>3. timer_cnt - sent <= Slot
    BY <1>1, <2>2, Recent
  <2>4. /\ resend_try \in Nat /\ RETRY_CNT \in Nat /\ resend_try <= RETRY_CNT
        /\ timer_cnt \in Nat /\ asked \in Nat
    BY <1>1, RequestsAssumption DEF IInv, TypeOK
  <2>5. resend_try * Slot <= RETRY_CNT * Slot
    BY <2>4, SlotNat
  <2> QED BY <2>2, <2>3, <2>4, <2>5, NextTimes, SlotNat
<1> QED BY <1>1, Invariance, PTL
=============================================================================
