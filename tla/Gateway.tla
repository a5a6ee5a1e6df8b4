------------------------------ MODULE Gateway ------------------------------
(***************************************************************************)
(* Forwarding between the server and the MCU: tcp_recv_cb of user/net.c,   *)
(* protocol_update and protocol_set_recv of user/protocol.c,               *)
(* uart_trans_update of user/uart_trans.c and mcu_link_update of           *)
(* user/mcu_link.c, with the bytes and parsers of FrameParser.             *)
(*                                                                         *)
(* A TCP segment may overwrite the one before, and stays, to be parsed at  *)
(* every run of the main loop, until a message is found.  What the UART    *)
(* has is read in pieces of any length, whose bytes continue whatever the  *)
(* parser was fed last.                                                    *)
(***************************************************************************)
EXTENDS FrameParser

CONSTANTS
  Scripts,                 \* what the server and the MCU send: [segments, sends]
  LengthWrap,              \* protocol_set_recv takes a uint8_t: 256
  ReadMax,                 \* uart_trans_update reads so many bytes at most: 128
  OneFramePerRead          \* the MCU leaves time between its frames

ASSUME GatewayAssumption ==
  /\ LengthWrap \in Nat \ {0} /\ ReadMax \in Nat \ {0} /\ OneFramePerRead \in BOOLEAN

VARIABLES
  segments, sends,         \* the scripts; an element of sends is a frame's
                           \* [boot |-> from the boot loader, bytes |-> its bytes]
  arrived, sent,           \* how much of them is done
  uart,                    \* bytes of one frame or more, received and not read
  turn,                    \* "idle", or within main_func: "uart"
  parse, link,             \* the parsers' states
  recv_buf,                \* with its length, recv_buf_len
  is_mcu_in_boot,
  handled, answers,        \* messages handled: by protocol.c, by mcu_boot.c
  toMcu, toNet             \* what was forwarded

script  == <<segments, sends>>
inVars  == <<script, arrived, sent, uart>>
logVars == <<handled, answers, toMcu, toNet>>
vars == <<turn, inVars, parse, link, recv_buf, is_mcu_in_boot, logVars>>

\* Commands the ESP handles itself.
Local == {11, 12, 162, 163, 164, 171, 173, 180}
CMD_MCU_UPGRADE == 164
BugNeedTrans(cmd) == TRUE
protocol_is_need_trans(cmd) == cmd \notin Local

Init ==
  /\ \E s \in Scripts : segments = s.segments /\ sends = s.sends
  /\ arrived = 0 /\ sent = 0 /\ uart = <<>>
  /\ turn = "idle" /\ parse = protocol_init /\ link = mcu_link_init
  /\ recv_buf = <<>> /\ is_mcu_in_boot = FALSE
  /\ handled = <<>> /\ answers = <<>> /\ toMcu = <<>> /\ toNet = <<>>

BugTaken(s) == s
Taken(s) == SubSeq(s, 1, Len(s) % LengthWrap)

\* tcp_recv_cb, whatever the connection is used for.
Receive ==
  /\ turn = "idle" /\ arrived < Len(segments)
  /\ arrived' = arrived + 1
  /\ recv_buf' = Taken(segments[arrived'])
  /\ UNCHANGED <<turn, script, sent, uart, parse, link, is_mcu_in_boot, logVars>>

\* Bytes arrive; the boot loader answers what it was sent.
Arrive ==
  /\ turn = "idle" /\ sent < Len(sends) /\ (uart # <<>> => ~OneFramePerRead)
  /\ sent' = sent + 1
  /\ sends[sent'].boot => is_mcu_in_boot
  /\ uart' = uart \o sends[sent'].bytes
  /\ UNCHANGED <<turn, script, arrived, parse, link, recv_buf, is_mcu_in_boot, logVars>>

\* protocol_msg_handle: of its effects, the one that reroutes the UART.
Handle(ch, p) ==
  /\ handled' = Append(handled, [ch |-> ch, sn |-> p.sn, cmd |-> p.cmd])
  /\ is_mcu_in_boot' = (is_mcu_in_boot \/ p.cmd = CMD_MCU_UPGRADE)

BugCleared == recv_buf
Cleared == <<>>
BugUnfinished == <<>>
Unfinished == recv_buf

\* protocol_update: the whole buffer is passed on for its first message.
ProtocolUpdate ==
  LET r == protocol_msg_parse(parse, recv_buf) IN
    /\ turn = "idle" /\ turn' = "uart"
    /\ parse' = r.p
    /\ IF r.found
         THEN /\ Handle("net", r.p)
              /\ recv_buf' = Cleared
              /\ toMcu' = IF protocol_is_need_trans(r.p.cmd) THEN Append(toMcu, recv_buf) ELSE toMcu
         ELSE /\ recv_buf' = Unfinished
              /\ UNCHANGED <<is_mcu_in_boot, handled, toMcu>>
    /\ UNCHANGED <<inVars, link, answers, toNet>>

\* uart_trans_update, for the n bytes it finds in the ring, and the
\* mcu_link_update of the same run.
Read(n) ==
  /\ turn = "uart" /\ turn' = "idle"
  /\ n \in 0 .. Len(uart) /\ n <= ReadMax
  /\ uart' = SubSeq(uart, n + 1, Len(uart))
UartUpdate(n) ==
  LET chunk == SubSeq(uart, 1, n)
      r     == protocol_msg_parse(parse, chunk) IN
    /\ Read(n) /\ ~is_mcu_in_boot
    /\ parse' = r.p
    /\ IF r.found
         THEN /\ Handle("uart", r.p)
              /\ toNet' = IF protocol_is_need_trans(r.p.cmd) THEN Append(toNet, chunk) ELSE toNet
         ELSE UNCHANGED <<is_mcu_in_boot, handled, toNet>>
    /\ UNCHANGED <<script, arrived, sent, link, recv_buf, answers, toMcu>>
LinkUpdate(n) ==
  LET r == mcu_link_update(link, SubSeq(uart, 1, n)) IN
    /\ Read(n) /\ is_mcu_in_boot
    /\ link' = r.q
    /\ answers' = answers \o r.seqs
    /\ UNCHANGED <<script, arrived, sent, parse, recv_buf, is_mcu_in_boot, handled,
                   toMcu, toNet>>

Next == \/ Receive \/ Arrive \/ ProtocolUpdate
        \/ \E n \in 0 .. Len(uart) : UartUpdate(n) \/ LinkUpdate(n)
Spec == Init /\ [][Next]_vars

\* The main loop runs, and what the MCU has to send arrives.
FairSpec ==
  /\ Spec
  /\ WF_vars(ProtocolUpdate) /\ WF_vars(\E n \in 0 .. Len(uart) : UartUpdate(n) \/ LinkUpdate(n))
  /\ SF_vars(Arrive) /\ SF_vars(\E n \in 1 .. Len(uart) : UartUpdate(n) \/ LinkUpdate(n))

-----------------------------------------------------------------------------
(* Properties.                                                             *)

Steps == {"HEAD1", "HEAD2", "DIR", "BYTE3", "LEN", "DATA", "CHECKSUM_H", "CHECKSUM_L"}
Byte  == 0 .. 255
TypeOK ==
  /\ turn \in {"idle", "uart"} /\ is_mcu_in_boot \in BOOLEAN
  /\ parse.step \in Steps /\ parse.checksum \in 0 .. 65535
  /\ {parse.data_len, parse.data_cnt, parse.sn, parse.cmd} \subseteq Byte
  /\ link.step \in {"HEAD1", "DIR", "SEQ", "CMD", "LEN", "DATA", "CHECKSUM"}
  /\ Len(link.checksum_buf) < 256 /\ {link.data_len, link.data_cnt} \subseteq Byte
  /\ \A k \in 1 .. Len(recv_buf) : recv_buf[k] \in Byte
  /\ Len(recv_buf) < LengthWrap

\* However frames are cut, mixed, overwritten and parsed again, none is handled
\* twice: a segment that stays in the buffer is not taken for a repetition
\* (protocol_update).
HandledOnce == IsInjective(handled)

\* Of segments that hold one frame each, the MCU gets those whose message is
\* not for the ESP itself: whole, once, and in the order they came in.
OneFrame(s) == Len(s) = 14 /\ protocol_msg_parse(protocol_init, s).found
PassedOn == (toMcu # <<>> /\ \A k \in DOMAIN segments : OneFrame(segments[k])) =>
  \E at \in [1 .. Len(toMcu) -> 1 .. arrived] :
    \A k \in 1 .. Len(toMcu) :
      /\ toMcu[k] = segments[at[k]] /\ segments[at[k]][11] \notin Local
      /\ k > 1 => at[k - 1] < at[k]

\* The last segment is not stuck behind the rest of a frame received before it,
\* on either side: with one whole frame in it, and no other start of one, it is
\* parsed again and again until it is handled (protocol_update).
Whole(s) == /\ Len(s) >= 14 /\ SubSeq(s, 1, 2) = <<HEAD1, HEAD2>>
            /\ protocol_msg_parse(protocol_init, s).found
            /\ \A k \in 2 .. Len(s) : s[k] # HEAD1
LastHandled ==
  \E k \in DOMAIN handled : handled[k].ch = "net" /\ handled[k].sn = segments[Len(segments)][10]
Recovers == (segments # <<>> /\ arrived = Len(segments) /\ Whole(recv_buf)) ~> LastHandled

\* While the server is silent, what the MCU and its boot loader send is heard,
\* in order, however it is cut into reads, also across the change of protocols
\* (uart_trans_update, mcu_link_update).
OfMcu(boot) == SelectSeq(sends, LAMBDA f : f.boot = boot)
Commands == [k \in 1 .. Len(OfMcu(FALSE)) |->
  [ch |-> "uart", sn |-> OfMcu(FALSE)[k].bytes[10], cmd |-> OfMcu(FALSE)[k].bytes[11]]]
Answers  == [k \in 1 .. Len(OfMcu(TRUE)) |-> OfMcu(TRUE)[k].bytes[3]]

AllHeard == segments = <<>> => <>(handled = Commands /\ answers = Answers)
=============================================================================
