---------------------------- MODULE FrameParser ----------------------------
(***************************************************************************)
(* The two frame parsers, byte by byte: protocol_parse_char of             *)
(* user/protocol.c, which serves the server and the MCU's application with *)
(* one state, and mcu_link_parse_char of user/mcu_link.c for the MCU's     *)
(* boot loader.                                                            *)
(*                                                                         *)
(* Of the data of a frame, the state keeps what the program looks at: the  *)
(* last byte of the serial number and the command, bytes 4 and 5.  Both    *)
(* stay from the frame before when a frame is too short to have them.      *)
(***************************************************************************)
EXTENDS Integers, Sequences, SequencesExt, Bitwise

HEAD1 == 70                \* 0x46
HEAD2 == 185               \* 0xB9
TAIL  == 22                \* 0x16

protocol_init ==
  [step |-> "HEAD1", checksum |-> 0, data_len |-> 0, data_cnt |-> 0, sn |-> 0, cmd |-> 0]

\* What step makes of start for the bytes of data, one after the other; the
\* sets of one element have TLC compute each state once.
AfterEach(step(_, _), start, data) ==
  LET after[k \in 0 .. Len(data)] ==
        IF k = 0 THEN start ELSE CHOOSE t \in {step(s, data[k]) : s \in {after[k - 1]}} : TRUE
  IN  after[Len(data)]

Stored(p, ch) == [p EXCEPT !.data_cnt = @ + 1,
                           !.sn = IF p.data_cnt = 4 THEN ch ELSE @,
                           !.cmd = IF p.data_cnt = 5 THEN ch ELSE @]

\* From the direction to the last byte of data, everything is summed.
Summed(p, ch) == [p EXCEPT !.checksum = (@ + ch) % 65536]
To(p, step) == [p EXCEPT !.step = step]

\* Neither a wrong second byte nor a failed checksum is looked at again as
\* the start of a frame; no data is still one byte; the tail is not checked.
protocol_parse_char(p, ch) ==
  CASE p.step = "HEAD1" -> To(p, IF ch = HEAD1 THEN "HEAD2" ELSE "HEAD1")
    [] p.step = "HEAD2" -> IF ch = HEAD2 THEN [To(p, "DIR") EXCEPT !.checksum = 0]
                                         ELSE To(p, "HEAD1")
    [] p.step = "DIR"   -> To(Summed(p, ch), "BYTE3")
    [] p.step = "BYTE3" -> To(Summed(p, ch), "LEN")
    [] p.step = "LEN"   -> [To(Summed(p, ch), "DATA") EXCEPT !.data_len = ch, !.data_cnt = 0]
    [] p.step = "DATA"  -> To(Stored(Summed(p, ch), ch),
                              IF p.data_cnt + 1 >= p.data_len THEN "CHECKSUM_H" ELSE "DATA")
    [] p.step = "CHECKSUM_H" -> To(p, IF ch = p.checksum \div 256 THEN "CHECKSUM_L" ELSE "HEAD1")
    [] p.step = "CHECKSUM_L" -> To(p, "HEAD1")

IsMessage(p, ch) == p.step = "CHECKSUM_L" /\ ch = p.checksum % 256

\* protocol_msg_parse: up to the first message.
ParseNext(r, ch) ==
  IF r.found THEN r ELSE [p |-> protocol_parse_char(r.p, ch), found |-> IsMessage(r.p, ch)]
protocol_msg_parse(p, data) == AfterEach(ParseNext, [p |-> p, found |-> FALSE], data)

\* protocol_encode, for a command without parameters.
protocol_encode(dir, sn, cmd) ==
  LET body == <<dir, 0, 6, 0, 0, 0, 0, sn, cmd>>
      sum  == FoldLeft(LAMBDA a, b : a + b, 0, body)
  IN  <<HEAD1, HEAD2>> \o body \o <<sum \div 256, sum % 256, TAIL>>

-----------------------------------------------------------------------------
(* The boot loader's frames.                                               *)

MCULINK_HEAD1 == 85        \* 0x55
MCULINK_CLIENT_MASK == 204 \* 0xCC

mcu_link_init == [step |-> "HEAD1", checksum_buf |-> <<>>, data_len |-> 0, data_cnt |-> 0]

\* CRC-8 with the polynomial 0xD5, over everything but checksum and tail.
Shifted == [crc \in 0 .. 255 |-> IF crc >= 128 THEN ((2 * crc) % 256) ^^ 213 ELSE 2 * crc]
ShiftNext(crc, i) == Shifted[crc]
CrcNext(crc, ch)  == AfterEach(ShiftNext, crc ^^ ch, <<1, 2, 3, 4, 5, 6, 7, 8>>)
mcu_link_get_checksum(data) == AfterEach(CrcNext, 0, data)

Kept(q, ch, step) == [q EXCEPT !.checksum_buf = Append(@, ch), !.step = step]

BugLinkDir(q, ch) == [Kept(q, ch, "SEQ") EXCEPT !.checksum_buf = <<ch>>]
LinkDir(q, ch) == Kept(q, ch, IF ch = MCULINK_CLIENT_MASK THEN "SEQ" ELSE "HEAD1")

mcu_link_parse_char(q, ch) ==
  CASE q.step = "HEAD1" -> [q EXCEPT !.checksum_buf = <<ch>>,
                                     !.step = IF ch = MCULINK_HEAD1 THEN "DIR" ELSE "HEAD1"]
    [] q.step = "DIR"   -> LinkDir(q, ch)
    [] q.step = "SEQ"   -> Kept(q, ch, "CMD")
    [] q.step = "CMD"   -> Kept(q, ch, "LEN")
    [] q.step = "LEN"   -> [Kept(q, ch, IF ch > 0 THEN "DATA" ELSE "CHECKSUM")
                              EXCEPT !.data_len = ch, !.data_cnt = 0]
    [] q.step = "DATA"  -> [Kept(q, ch, IF q.data_cnt + 1 >= q.data_len THEN "CHECKSUM" ELSE "DATA")
                              EXCEPT !.data_cnt = @ + 1]
    [] q.step = "CHECKSUM" -> [q EXCEPT !.step = "HEAD1"]

IsLinkMessage(q, ch) == q.step = "CHECKSUM" /\ ch = mcu_link_get_checksum(q.checksum_buf)

\* mcu_link_update: every message of the buffer; seqs are their sequence numbers.
LinkNext(r, ch) ==
  [q    |-> mcu_link_parse_char(r.q, ch),
   seqs |-> IF IsLinkMessage(r.q, ch) THEN Append(r.seqs, r.q.checksum_buf[3]) ELSE r.seqs]
mcu_link_update(q, data) == AfterEach(LinkNext, [q |-> q, seqs |-> <<>>], data)

\* What the boot loader sends, as mcu_link_encode would.
LinkFrame(seq, cmd, data) ==
  LET head == <<MCULINK_HEAD1, MCULINK_CLIENT_MASK, seq, cmd, Len(data)>> \o data
  IN  head \o <<mcu_link_get_checksum(head), 102>>
=============================================================================
