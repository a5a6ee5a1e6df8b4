------------------------------ MODULE Download ------------------------------
(***************************************************************************)
(* Fetching a firmware file over HTTP into the download area of the flash  *)
(* (user/http_func.c), with the connection it uses (server_connect_port,   *)
(* tcp_reconnect_cb and tcp_recv_cb of user/net.c) and the states of       *)
(* user/upgrade_func.c that route received data to http_handle.            *)
(*                                                                         *)
(* A response is a stream of units: HeaderLines header lines and then the  *)
(* bytes of the file.  Segments cut it anywhere between two units.  What   *)
(* this leaves out: segments that end inside a header line (read_line then *)
(* reads beyond the segment), header lines longer than "line", and files   *)
(* with a CR LF in their first 99 bytes, which pass for header lines.      *)
(*                                                                         *)
(* The flash is NOR: a write can only follow an erase of the sector.  The  *)
(* results of the flash operations are only printed by the code.           *)
(***************************************************************************)
EXTENDS Naturals

CONSTANTS
  Versions,          \* firmware versions the server may offer
  FileLen,           \* [Versions -> Nat]: bytes of each file
  HeaderLines,       \* lines of a response's header
  LengthLine,        \* which of them is Content-Length; the first is the status
  SECTOR_SIZE,
  SegMax,            \* units in a TCP segment
  Sectors,           \* sectors of the download area
  None,              \* no version
  Budgets            \* what may go wrong: a set of elements of BudgetType

\* How many files are asked for, how often a connection fails or is closed, a
\* request finds no memory and the ESP restarts.
BudgetType == [get : Nat, reset : Nat, close : Nat, nomem : Nat, restart : Nat]

\* A segment is smaller than a sector, so no segment fills two sectors (the
\* inner loop of http_handle never runs), and a file is longer than a segment.
ASSUME DownloadAssumption ==
  /\ None \notin Versions
  /\ HeaderLines \in Nat /\ LengthLine \in 2 .. HeaderLines
  /\ SECTOR_SIZE \in Nat /\ SegMax \in 1 .. SECTOR_SIZE /\ Sectors \in Nat \ {0}
  /\ FileLen \in [Versions -> Nat]
  /\ \A v \in Versions : SegMax < FileLen[v] /\ FileLen[v] <= Sectors * SECTOR_SIZE
  /\ Budgets \subseteq BudgetType

VARIABLES
  upgrade_state,     \* "saved": whatever set_upgrade_download_done goes on to
  http_path,         \* the version asked for
  conn,              \* the connection to the upgrade server
  status, pos,       \* its response: what it says, the units delivered so far
  file_cnt, http_file_len, is_get_len,
  flash_buf, flash_write_index, sector_index,
  flash,             \* the download area
  left               \* what remains of one of Budgets

netVars    == <<conn, status, pos>>
lengthVars == <<http_file_len, is_get_len>>
bufVars    == <<flash_buf, flash_write_index, sector_index>>
vars == <<upgrade_state, http_path, netVars, file_cnt, lengthVars, bufVars,
          flash, left>>

Unit(v, u) == [ver |-> v, at |-> u]            \* unit u of v's response
FileByte(v, k) == Unit(v, HeaderLines + k)     \* byte k of v's file, from 1
Erased  == [ver |-> None, at |-> 0]
Garbage == [ver |-> None, at |-> 1]            \* written without an erase
Units   == [ver : Versions \union {None}, at : Nat]
Blank   == [j \in 0 .. SECTOR_SIZE - 1 |-> Erased]

Spend(what) == left[what] > 0 /\ left' = [left EXCEPT ![what] = @ - 1]

\* The download area holds whatever an earlier firmware left there.
Init ==
  /\ upgrade_state = "idle" /\ http_path = None
  /\ conn = "closed" /\ status = "ok" /\ pos = 0
  /\ file_cnt = 0 /\ http_file_len = 0 /\ is_get_len = FALSE
  /\ flash_buf = Blank /\ flash_write_index = 0 /\ sector_index = 0
  /\ flash = [s \in 0 .. Sectors - 1 |-> [j \in 0 .. SECTOR_SIZE - 1 |-> Garbage]]
  /\ left \in Budgets

-----------------------------------------------------------------------------
(* Connections.                                                            *)

get_is_upgrade_need_net == upgrade_state \in {"connecting", "download"}

\* set_upgrade_get_version, for a version worth having, and its http_get.
HttpGet(v) ==
  /\ ~get_is_upgrade_need_net
  /\ Spend("get")
  /\ http_path' = v
  /\ upgrade_state' = "connecting"
  /\ conn' = "connecting"
  /\ UNCHANGED <<status, pos, file_cnt, lengthVars, bufVars, flash>>

\* http_connect_cb: without memory for the request nothing is asked for, and
\* the state becomes DOWNLOAD all the same.
BugConnected(url) ==
  /\ conn = "connecting"
  /\ conn' = IF url THEN "open" ELSE "silent"
  /\ pos' = 0 /\ status' \in {"ok", "error"}
  /\ upgrade_state' = "download"
  /\ UNCHANGED <<http_path, file_cnt, lengthVars, bufVars, flash>>
Connected(url) ==
  /\ conn = "connecting"
  /\ conn' = IF url THEN "open" ELSE "silent"
  /\ pos' = 0 /\ status' \in {"ok", "error"}
  /\ file_cnt' = 0
  /\ upgrade_state' = "download"
  /\ UNCHANGED <<http_path, lengthVars, bufVars, flash>>

Connect     == Connected(TRUE) /\ UNCHANGED left
ConnectNoMem == Connected(FALSE) /\ Spend("nomem")

\* tcp_reconnect_cb: the connection failed and is set up anew at once.
Reconnect ==
  /\ conn \in {"open", "silent"}
  /\ Spend("reset")
  /\ conn' = "connecting"
  /\ UNCHANGED <<upgrade_state, http_path, status, pos, file_cnt, lengthVars,
                 bufVars, flash>>

\* tcp_disconnect_cb only prints: the peer closed the connection.
Disconnect ==
  /\ conn \in {"open", "silent"}
  /\ Spend("close")
  /\ conn' = "closed"
  /\ UNCHANGED <<upgrade_state, http_path, status, pos, file_cnt, lengthVars,
                 bufVars, flash>>

\* A restart clears the RAM; an upgrade that was to be resumed after it does
\* not involve this module.
Restart ==
  /\ Spend("restart")
  /\ upgrade_state' = "idle" /\ http_path' = None
  /\ conn' = "closed"
  /\ file_cnt' = 0 /\ http_file_len' = 0 /\ is_get_len' = FALSE
  /\ flash_buf' = Blank /\ flash_write_index' = 0 /\ sector_index' = 0
  /\ UNCHANGED <<status, pos, flash>>

-----------------------------------------------------------------------------
(* http_handle.                                                            *)

\* tcp_recv_cb, for a segment of n units.
Segment(n) ==
  /\ conn = "open" /\ get_is_upgrade_need_net
  /\ pos + n <= HeaderLines + FileLen[http_path]
  /\ pos' = pos + n

Body(n) == IF pos + n > HeaderLines
             THEN pos + n - (IF pos > HeaderLines THEN pos ELSE HeaderLines)
             ELSE 0                            \* bytes of the file in it
StatusBad(n)  == pos = 0 /\ status = "error"
HasLength(n)  == pos < LengthLine /\ LengthLine <= pos + n

BugFileLen(n) == IF HasLength(n) THEN FileLen[http_path] - 1 ELSE http_file_len
NewFileLen(n) == IF HasLength(n) THEN FileLen[http_path] ELSE http_file_len
Lengths(n) ==
  /\ http_file_len' = NewFileLen(n)
  /\ is_get_len' = (is_get_len \/ HasLength(n))

\* spi_flash_write of the first len bytes of buf to sector s of area.
Program(area, s, buf, len) ==
  [area EXCEPT ![s] = [j \in 0 .. SECTOR_SIZE - 1 |->
     IF j >= len THEN area[s][j]
     ELSE IF area[s][j] = Erased THEN buf[j] ELSE Garbage]]

\* The end of http_handle: the last, partial sector, and what follows
\* (set_upgrade_download_done hangs up unless the upgrade is forced).
Finish(area) ==
  /\ flash' = Program(area, sector_index', flash_buf', flash_write_index')
  /\ upgrade_state' = "saved"
  /\ conn' \in {"closed", "open"}
  /\ file_cnt' = 0
More(cnt, area) ==
  /\ flash' = area
  /\ file_cnt' = cnt
  /\ UNCHANGED <<upgrade_state, conn>>
BugEnd(cnt, area) == IF cnt > http_file_len' THEN Finish(area) ELSE More(cnt, area)
End(cnt, area) == IF cnt >= http_file_len' THEN Finish(area) ELSE More(cnt, area)

\* Any status but 200: clear_is_need_upgrade.
RecvError(n) ==
  /\ Segment(n) /\ file_cnt = 0 /\ StatusBad(n)
  /\ upgrade_state' = "idle"
  /\ UNCHANGED <<http_path, conn, status, file_cnt, lengthVars, bufVars, flash, left>>

\* A segment of header lines only.  It falls through to the end of the
\* handler, which takes a length of 0 for a complete file.
RecvHeader(n) ==
  /\ Segment(n) /\ file_cnt = 0 /\ ~StatusBad(n) /\ Body(n) = 0
  /\ Lengths(n)
  /\ UNCHANGED bufVars
  /\ End(0, flash)
  /\ UNCHANGED <<http_path, status, left>>

\* The rest of the header and the first bytes of the file.  The length is
\* known: it is one of the header's lines.
RecvFirst(n) ==
  /\ Segment(n) /\ file_cnt = 0 /\ ~StatusBad(n) /\ Body(n) > 0
  /\ Lengths(n) /\ is_get_len'
  /\ file_cnt' = Body(n)
  /\ flash' = [flash EXCEPT ![0] = Blank]
  /\ sector_index' = 0
  /\ flash_write_index' = Body(n)
  /\ flash_buf' = [j \in 0 .. SECTOR_SIZE - 1 |->
                     IF j < Body(n) THEN Unit(http_path, pos + n - Body(n) + j + 1)
                                    ELSE flash_buf[j]]
  /\ UNCHANGED <<upgrade_state, http_path, conn, status, left>>

\* The bytes of flash_buf with a segment behind them.
Joined(j) == IF j < flash_write_index THEN flash_buf[j]
             ELSE Unit(http_path, pos + (j - flash_write_index) + 1)

Overflows(n) == flash_write_index + n > SECTOR_SIZE

\* A further segment that the buffer has room for ...
RecvFits(n) ==
  /\ Segment(n) /\ file_cnt > 0 /\ ~Overflows(n)
  /\ flash_buf' = [j \in 0 .. SECTOR_SIZE - 1 |->
                     IF j < flash_write_index + n THEN Joined(j) ELSE flash_buf[j]]
  /\ flash_write_index' = flash_write_index + n
  /\ UNCHANGED <<lengthVars, sector_index>>
  /\ End(file_cnt + n, flash)
  /\ UNCHANGED <<http_path, status, left>>

\* ... and one that completes a sector: the sector is written, the next one
\* is erased, and the rest of the segment starts the buffer again.
RecvFills(n) ==
  /\ Segment(n) /\ file_cnt > 0 /\ Overflows(n)
  /\ flash_write_index' = flash_write_index + n - SECTOR_SIZE
  /\ flash_buf' = [j \in 0 .. SECTOR_SIZE - 1 |->
                     IF j < flash_write_index' THEN Joined(SECTOR_SIZE + j) ELSE Joined(j)]
  /\ sector_index' = sector_index + 1
  /\ UNCHANGED lengthVars
  /\ LET full == [j \in 0 .. SECTOR_SIZE - 1 |-> Joined(j)]
         area == Program(flash, sector_index, full, SECTOR_SIZE)
     IN  End(file_cnt + n, [area EXCEPT ![sector_index'] = Blank])
  /\ UNCHANGED <<http_path, status, left>>

Recv == \E n \in 1 .. SegMax :
  RecvError(n) \/ RecvHeader(n) \/ RecvFirst(n) \/ RecvFits(n) \/ RecvFills(n)

Next == \/ \E v \in Versions : HttpGet(v)
        \/ Connect \/ ConnectNoMem
        \/ Reconnect \/ Disconnect \/ Restart
        \/ Recv

Spec == Init /\ [][Next]_vars

\* The TCP stack connects and delivers.
Fairness == WF_vars(Connect) /\ WF_vars(Recv)
FairSpec == Spec /\ Fairness

-----------------------------------------------------------------------------
(* Properties.                                                             *)

TypeOK ==
  /\ upgrade_state \in {"idle", "connecting", "download", "saved"}
  /\ http_path \in Versions \union {None}
  /\ conn \in {"closed", "connecting", "open", "silent"}
  /\ status \in {"ok", "error"} /\ pos \in Nat
  /\ file_cnt \in Nat /\ http_file_len \in Nat /\ is_get_len \in BOOLEAN
  /\ flash_buf \in [0 .. SECTOR_SIZE - 1 -> Units]
  /\ flash_write_index \in 0 .. SECTOR_SIZE
  /\ sector_index \in 0 .. Sectors - 1
  /\ flash \in [0 .. Sectors - 1 -> [0 .. SECTOR_SIZE - 1 -> Units]]
  /\ left \in BudgetType

\* The first cnt bytes of v's file, of which the last fill bytes are in buf
\* and the others in the flash.
Saved(v, cnt, s, fill) ==
  /\ cnt = s * SECTOR_SIZE + fill
  /\ \A q \in 0 .. s - 1, j \in 0 .. SECTOR_SIZE - 1 :
       flash[q][j] = FileByte(v, q * SECTOR_SIZE + j + 1)

\* While a file comes in, the counters of http_handle agree with each other
\* and with what was delivered; no byte is missing, doubled or misplaced; and
\* the sector that is to be written next is erased.
NothingLost ==
  upgrade_state = "download" /\ conn = "open" /\ file_cnt > 0 =>
    /\ file_cnt = pos - HeaderLines
    /\ http_file_len = FileLen[http_path]
    /\ Saved(http_path, file_cnt, sector_index, flash_write_index)
    /\ \A j \in 0 .. flash_write_index - 1 :
         flash_buf[j] = FileByte(http_path, sector_index * SECTOR_SIZE + j + 1)
    /\ flash[sector_index] = Blank

\* A file that is reported downloaded, its length having been announced, is
\* in the flash from its first byte to its last, however the response was cut
\* up and however often the connection had to be set up.
SavedIsComplete ==
  upgrade_state = "saved" /\ http_file_len > 0 =>
    \A k \in 0 .. FileLen[http_path] - 1 :
      flash[k \div SECTOR_SIZE][k % SECTOR_SIZE] = FileByte(http_path, k + 1)

\* A download that starts ends, with a file or with a bad status.  (One whose
\* connection the server closes, or that had no memory to ask, does not: nothing
\* in the program notices.)
Terminates == left.close = 0 /\ left.nomem = 0 =>
  (get_is_upgrade_need_net ~> ~get_is_upgrade_need_net)
=============================================================================
