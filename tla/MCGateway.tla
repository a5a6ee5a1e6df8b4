------------------------------ MODULE MCGateway ------------------------------
(* Scripts for TLC: frames as in include/protocol.h and include/mcu_link.h,  *)
(* with a serial number each, whole, cut or run together.                    *)
EXTENDS Gateway

CMD_CONTROL == 3
FromServer(sn, cmd) == protocol_encode(106, sn, cmd)
FromMcu(sn, cmd)    == [boot |-> FALSE, bytes |-> protocol_encode(104, sn, cmd)]
FromBoot(seq, data) == [boot |-> TRUE, bytes |-> LinkFrame(seq, 160, data)]

First(f, n) == SubSeq(f, 1, n)
Rest(f, n)  == SubSeq(f, n + 1, Len(f))

\* Segments of one frame each, for the MCU and for the ESP.
Frames == <<FromServer(1, CMD_CONTROL), FromServer(2, 162), FromServer(3, CMD_CONTROL)>>

\* A frame cut in two, the second part with another frame or lost; two frames and
\* a third, cut to a part of the first by the wrap of the length; data that is no
\* frame; and a frame behind each of these.
Pieces == LET f == FromServer(1, CMD_CONTROL)
              g == FromServer(2, CMD_CONTROL)
              h == FromServer(3, 162)
          IN  {<<First(f, 6), Rest(f, 6) \o g>>, <<First(f, 12), h>>,
               <<f \o g \o h, h>>, <<<<13, HEAD1, HEAD1, HEAD2, 0, 0, 2>>, h>>}

\* A command, the acknowledgement that the MCU enters its boot loader, and two
\* answers of that, one with data that looks like a frame.
IntoBoot == <<FromMcu(7, 180), FromMcu(8, CMD_CONTROL), FromMcu(9, CMD_MCU_UPGRADE),
              FromBoot(0, <<>>), FromBoot(1, <<0, MCULINK_HEAD1>>)>>

\* With the server's segments, one command of the MCU, cut anywhere.
AllScripts == {[segments |-> s, sends |-> <<FromMcu(9, CMD_CONTROL)>>] : s \in {Frames} \union Pieces}
                \union {[segments |-> <<>>, sends |-> IntoBoot]}
=============================================================================
