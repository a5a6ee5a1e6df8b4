------------------------------ MODULE Requests ------------------------------
(***************************************************************************)
(* The one outstanding request of user/protocol.c and the tick counter it  *)
(* is timed with (user/timer.c).  Requests to the MCU and to the server    *)
(* share one slot: what is sent, to whom, whether an answer is awaited,    *)
(* and a resend counter that nothing but a restart resets.                 *)
(*                                                                         *)
(* Time is counted in ticks of US_PER_TICK.  times_t has 64 bits, so       *)
(* nothing wraps in a device's life.                                       *)
(***************************************************************************)
EXTENDS Integers

CONSTANTS
  RETRY_CNT,
  US_PER_TICK,
  Timeout,                 \* microseconds: 1 s
  Gap,                     \* at most so many ticks between two runs of main_func
  MaxTicks                 \* bound: how long it is observed

ASSUME RequestsAssumption ==
  /\ RETRY_CNT \in Nat /\ Timeout \in Nat /\ MaxTicks \in Nat
  /\ US_PER_TICK \in Nat \ {0} /\ Gap \in Nat \ {0}

VARIABLES
  timer_cnt,
  protocol_step, last_ch, send_buf, last_send_time, resend_try,
  last_run,                \* when protocol_update ran last
  awaited, asked           \* whose answer a caller of protocol_send awaits, since when

slotVars == <<protocol_step, last_ch, send_buf, last_send_time, resend_try, awaited, asked>>
vars == <<timer_cnt, slotVars, last_run>>

Channels == {"net", "uart"}
\* The commands that are sent with need_ack, each with its channel ...
Acked   == {<<"uart", "MCU_UPGRADE">>, <<"uart", "MCU_UPGRADE_STATUS">>,
            <<"net", "GET_FIRMWARE_VER">>}
\* ... and the replies of protocol_msg_handle.
Replies == {<<"uart", "RECONNECT">>, <<"uart", "TRANS_VERSION">>, <<"uart", "MCU_UPGRADE_READY">>,
            <<"uart", "MCU_UPGRADE_REQUEST">>, <<"net", "REQUEST_UPGRADE_STATUS">>}

timer_now == timer_cnt * US_PER_TICK
timer_passed(since) == timer_now - since
timer_check(us) == timer_passed(last_send_time) > us

Init ==
  /\ timer_cnt = 0
  /\ protocol_step = "idle" /\ last_ch = "uart" /\ send_buf = "none"
  /\ last_send_time = 0 /\ resend_try = 0
  /\ last_run = 0
  /\ awaited = <<"uart", "none">> /\ asked = 0

\* timer_irs.
Tick ==
  /\ timer_cnt < MaxTicks /\ timer_cnt - last_run < Gap
  /\ timer_cnt' = timer_cnt + 1
  /\ UNCHANGED <<slotVars, last_run>>

\* protocol_send does nothing while an answer is awaited.
BugMaySend == TRUE
MaySend == protocol_step = "idle"

Ask(r) ==
  /\ MaySend
  /\ last_ch' = r[1] /\ send_buf' = r[2]
  /\ protocol_step' = "wait" /\ last_send_time' = timer_now
  /\ awaited' = r /\ asked' = timer_cnt
  /\ UNCHANGED <<timer_cnt, resend_try, last_run>>

Reply(r) ==
  /\ MaySend
  /\ last_ch' = r[1] /\ send_buf' = r[2]
  /\ UNCHANGED <<timer_cnt, protocol_step, last_send_time, resend_try, last_run, awaited, asked>>

\* protocol_msg_handle, for an answer: it ends the wait, whichever it answers.
\* MCU_UPGRADE is confirmed at once.
Answer(cmd) ==
  /\ protocol_step' = "idle"
  /\ IF cmd = "MCU_UPGRADE" THEN last_ch' = "uart" /\ send_buf' = "MCU_UPGRADE_READY"
                            ELSE UNCHANGED <<last_ch, send_buf>>
  /\ UNCHANGED <<timer_cnt, last_send_time, resend_try, last_run, awaited, asked>>

\* protocol_update, after its parsing.
Expired == protocol_step = "wait" /\ timer_check(Timeout)

Again == resend_try < RETRY_CNT

BugResend ==
  /\ Expired /\ Again
  /\ last_send_time' = timer_now
  /\ last_run' = timer_cnt
  /\ UNCHANGED <<timer_cnt, protocol_step, last_ch, send_buf, resend_try, awaited, asked>>
Resend ==
  /\ Expired /\ Again
  /\ last_send_time' = timer_now
  /\ resend_try' = resend_try + 1
  /\ last_run' = timer_cnt
  /\ UNCHANGED <<timer_cnt, protocol_step, last_ch, send_buf, awaited, asked>>

\* protocol_msg_timeout_handle takes byte 5 of send_buf for the command, which
\* is none of its cases.
GiveUp ==
  /\ Expired /\ ~Again
  /\ last_send_time' = timer_now
  /\ protocol_step' = "idle"
  /\ last_run' = timer_cnt
  /\ UNCHANGED <<timer_cnt, last_ch, send_buf, resend_try, awaited, asked>>

Nothing == ~Expired /\ last_run' = timer_cnt /\ UNCHANGED <<timer_cnt, slotVars>>

Next ==
  \/ Tick \/ Resend \/ GiveUp \/ Nothing
  \/ \E r \in Acked : Ask(r) \/ Answer(r[2])
  \/ \E r \in Replies : Reply(r)
Spec == Init /\ [][Next]_vars

-----------------------------------------------------------------------------
(* Properties.                                                             *)

TypeOK ==
  /\ timer_cnt \in Nat /\ last_run \in Nat /\ asked \in Nat
  /\ protocol_step \in {"idle", "wait"}
  /\ <<last_ch, send_buf>> \in Acked \union Replies \union {<<"uart", "none">>}
  /\ awaited \in Acked \union {<<"uart", "none">>}
  /\ last_send_time \in Nat /\ resend_try \in 0 .. RETRY_CNT

\* What a timeout would send again is the request somebody waits for, on the
\* channel it was sent on: no reply or other request that uses the slot
\* meanwhile takes its place (protocol_resend).
ResendsTheAwaited == protocol_step = "wait" => <<last_ch, send_buf>> = awaited

\* How many ticks after the last transmission protocol_update finds the timer
\* expired.
Slot == Timeout \div US_PER_TICK + Gap

\* No wait lasts longer than one transmission and RETRY_CNT more can take, so
\* nobody is kept from sending for longer, whatever is answered or not
\* (protocol_update).
WaitIsShort == protocol_step = "wait" => timer_cnt - asked <= (RETRY_CNT + 1) * Slot
=============================================================================
