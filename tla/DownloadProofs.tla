--------------------------- MODULE DownloadProofs ---------------------------
(***************************************************************************)
(* Theorems about Download, for files, sectors and segments of every size, *)
(* and any number of downloads and faults.  The argument: what the flash   *)
(* and the buffer hold is, at every segment, the file as far as it was     *)
(* delivered; the counters are only ever trusted on the connection they    *)
(* were counted on.                                                        *)
(***************************************************************************)
EXTENDS Download, TLAPS

Index   == 0 .. SECTOR_SIZE - 1
Content == [Index -> Units]                    \* of a sector, or of flash_buf
Area    == [0 .. Sectors - 1 -> Content]

\* The sectors of v's file before s are in area, fill bytes of sector s in buf,
\* and sector s itself is erased.
Holds(v, area, buf, s, fill) ==
  /\ \A q \in 0 .. s - 1, j \in Index : area[q][j] = FileByte(v, q * SECTOR_SIZE + j + 1)
  /\ \A j \in 0 .. fill - 1 : buf[j] = FileByte(v, s * SECTOR_SIZE + j + 1)
  /\ area[s] = Blank

\* What the counters rest on: a file is counted from the response's header on,
\* and the length is that of the file as soon as its line has passed.
Response ==
  /\ upgrade_state = "connecting" => conn = "connecting"
  /\ conn # "closed" \/ upgrade_state # "idle" => http_path \in Versions
  /\ upgrade_state = "download" /\ conn = "open" =>
       /\ file_cnt = 0 => pos <= HeaderLines
       /\ pos >= LengthLine => http_file_len = FileLen[http_path]

IInv == TypeOK /\ NothingLost /\ SavedIsComplete /\ Response

-----------------------------------------------------------------------------
(* The constants, and multiples of the sector's size.                      *)

LEMMA Constants ==
  /\ SECTOR_SIZE \in Nat /\ SECTOR_SIZE > 0 /\ Sectors \in Nat /\ Sectors > 0
  /\ HeaderLines \in Nat /\ LengthLine \in Nat /\ LengthLine >= 2 /\ LengthLine <= HeaderLines
  /\ SegMax \in Nat /\ SegMax > 0 /\ SegMax <= SECTOR_SIZE
  /\ None \notin Versions
  /\ \A v \in Versions : /\ FileLen[v] \in Nat /\ SegMax < FileLen[v]
                         /\ FileLen[v] <= Sectors * SECTOR_SIZE
  /\ Budgets \subseteq BudgetType
  BY DownloadAssumption

LEMMA Multiples ==
  ASSUME NEW s \in Nat
  PROVE  s * SECTOR_SIZE \in Nat /\ (s + 1) * SECTOR_SIZE = s * SECTOR_SIZE + SECTOR_SIZE
  BY Constants

\* Whole sectors before s, with a part of s, fit only if there is a sector s.
LEMMA SectorInArea ==
  ASSUME NEW s \in Nat, NEW fill \in Nat, fill > 0,
         s * SECTOR_SIZE + fill <= Sectors * SECTOR_SIZE
  PROVE  s \in 0 .. Sectors - 1
<1>1. CASE s >= Sectors
  <2>1. s * SECTOR_SIZE >= Sectors * SECTOR_SIZE
    BY <1>1, Constants
  <2> QED  BY <2>1, Constants, Multiples
<1> QED  BY <1>1, Constants

\* Every byte of a file has a place in a sector.
LEMMA Place ==
  ASSUME NEW k \in Nat
  PROVE  /\ k = (k \div SECTOR_SIZE) * SECTOR_SIZE + (k % SECTOR_SIZE)
         /\ k \div SECTOR_SIZE \in Nat /\ k % SECTOR_SIZE \in Index
  BY Constants DEF Index

LEMMA SectorOrder ==
  ASSUME NEW s \in Nat, NEW q \in Nat, NEW r \in Index, NEW fill \in 0 .. SECTOR_SIZE,
         q * SECTOR_SIZE + r < s * SECTOR_SIZE + fill
  PROVE  q < s \/ (q = s /\ r < fill)
<1>1. CASE q > s
  <2>1. q * SECTOR_SIZE >= (s + 1) * SECTOR_SIZE
    BY <1>1, Constants
  <2>2. q * SECTOR_SIZE >= s * SECTOR_SIZE + SECTOR_SIZE /\ q * SECTOR_SIZE \in Nat
    BY <2>1, Multiples
  <2> QED  BY <2>2, Constants, Multiples DEF Index
<1>2. CASE q = s
  BY <1>2, Constants, Multiples DEF Index
<1> QED  BY <1>1, <1>2

-----------------------------------------------------------------------------
(* Writing the flash.                                                      *)

LEMMA ProgramType ==
  ASSUME NEW area \in Area, NEW buf \in Content, NEW s \in 0 .. Sectors - 1, NEW len
  PROVE  Program(area, s, buf, len) \in Area
<1>1. Garbage \in Units
  BY DEF Garbage, Units
<1>2. [j \in Index |-> IF j >= len THEN area[s][j]
                       ELSE IF area[s][j] = Erased THEN buf[j] ELSE Garbage] \in Content
  BY <1>1 DEF Area, Content
<1> QED  BY <1>2 DEF Program, Area, Index

\* What is written to an erased sector is what the buffer holds.
LEMMA Programmed ==
  ASSUME NEW area \in Area, NEW buf \in Content, NEW s \in 0 .. Sectors - 1,
         NEW len \in 0 .. SECTOR_SIZE, area[s] = Blank
  PROVE  /\ \A j \in 0 .. len - 1 : Program(area, s, buf, len)[s][j] = buf[j]
         /\ \A q \in 0 .. Sectors - 1 : q # s => Program(area, s, buf, len)[q] = area[q]
<1>1. \A j \in Index : area[s][j] = Erased
  BY DEF Blank, Index
<1>2. \A j \in 0 .. len - 1 : j \in Index /\ ~(j >= len)
  BY Constants DEF Index
<1>3. Program(area, s, buf, len)[s] =
        [j \in Index |-> IF j >= len THEN area[s][j]
                         ELSE IF area[s][j] = Erased THEN buf[j] ELSE Garbage]
  BY DEF Program, Area, Index
<1>4. \A j \in 0 .. len - 1 : Program(area, s, buf, len)[s][j] = buf[j]
  BY <1>1, <1>2, <1>3
<1>5. \A q \in 0 .. Sectors - 1 : q # s => Program(area, s, buf, len)[q] = area[q]
  BY DEF Program, Area
<1> QED  BY <1>4, <1>5

\* Once the last, partial sector is written the whole file is in the flash.
LEMMA FinishCompletes ==
  ASSUME NEW v \in Versions, NEW area \in Area, NEW buf \in Content,
         NEW s \in 0 .. Sectors - 1, NEW fill \in 0 .. SECTOR_SIZE,
         FileLen[v] = s * SECTOR_SIZE + fill, Holds(v, area, buf, s, fill)
  PROVE  \A k \in 0 .. FileLen[v] - 1 :
           Program(area, s, buf, fill)[k \div SECTOR_SIZE][k % SECTOR_SIZE] = FileByte(v, k + 1)
<1> SUFFICES ASSUME NEW k \in 0 .. FileLen[v] - 1
             PROVE  Program(area, s, buf, fill)[k \div SECTOR_SIZE][k % SECTOR_SIZE]
                      = FileByte(v, k + 1)
  OBVIOUS
<1> DEFINE q == k \div SECTOR_SIZE
           r == k % SECTOR_SIZE
<1>1. s \in Nat /\ fill \in Nat /\ k \in Nat /\ k < s * SECTOR_SIZE + fill
  BY Constants
<1>2. k = q * SECTOR_SIZE + r /\ q \in Nat /\ r \in Index
  BY <1>1, Place
<1> HIDE DEF q, r
<1>3. q < s \/ (q = s /\ r < fill)
  BY <1>1, <1>2, SectorOrder
<1>4. CASE q < s
  <2>1. q \in 0 .. s - 1 /\ q \in 0 .. Sectors - 1 /\ q # s
    BY <1>1, <1>2, <1>4, Constants
  <2>2. Program(area, s, buf, fill)[q] = area[q]
    BY <2>1, Programmed DEF Holds
  <2>3. area[q][r] = FileByte(v, q * SECTOR_SIZE + r + 1)
    BY <1>2, <2>1 DEF Holds
  <2> QED  BY <1>2, <2>2, <2>3 DEF q, r
<1>5. CASE q = s /\ r < fill
  <2>1. r \in 0 .. fill - 1
    BY <1>1, <1>2, <1>5, Constants DEF Index
  <2>2. Program(area, s, buf, fill)[q][r] = buf[r]
    BY <1>5, <2>1, Programmed DEF Holds
  <2>3. buf[r] = FileByte(v, q * SECTOR_SIZE + r + 1)
    BY <1>5, <2>1 DEF Holds
  <2> QED  BY <1>2, <2>2, <2>3 DEF q, r
<1> QED  BY <1>3, <1>4, <1>5

-----------------------------------------------------------------------------
(* Types.                                                                  *)

LEMMA UnitType ==
  /\ \A v \in Versions, u \in Nat : Unit(v, u) \in Units
  /\ Erased \in Units /\ Garbage \in Units /\ Blank \in Content
  BY DEF Unit, Units, Erased, Garbage, Blank, Content, Index

\* The places a sector and the buffer have are those of the model.
LEMMA TypeValue ==
  ASSUME TypeOK
  PROVE  /\ flash \in Area /\ flash_buf \in Content
         /\ flash_write_index \in 0 .. SECTOR_SIZE /\ sector_index \in 0 .. Sectors - 1
         /\ pos \in Nat /\ file_cnt \in Nat /\ http_file_len \in Nat
  BY DEF TypeOK, Area, Content, Index

\* A segment that is received comes on the connection of a download.
LEMMA Incoming ==
  ASSUME IInv, NEW n \in 1 .. SegMax, Segment(n)
  PROVE  /\ upgrade_state = "download" /\ conn = "open" /\ http_path \in Versions
         /\ n \in Nat /\ n > 0 /\ n <= SegMax /\ n <= SECTOR_SIZE
         /\ pos' = pos + n /\ pos' \in Nat
         /\ pos + n <= HeaderLines + FileLen[http_path]
<1>1. upgrade_state = "download" /\ conn = "open"
  BY DEF IInv, Response, Segment, get_is_upgrade_need_net
<1>2. http_path \in Versions
  BY <1>1 DEF IInv, Response
<1>3. n \in Nat /\ n > 0 /\ n <= SegMax /\ n <= SECTOR_SIZE
  BY Constants
<1>4. pos' = pos + n /\ pos + n <= HeaderLines + FileLen[http_path] /\ pos \in Nat
  BY DEF Segment, IInv, TypeOK
<1> QED  BY <1>1, <1>2, <1>3, <1>4

\* The length is known when its line has passed, and stays known.
LEMMA LengthKnown ==
  ASSUME IInv, NEW n \in 1 .. SegMax, Segment(n), Lengths(n)
  PROVE  /\ http_file_len' \in Nat /\ is_get_len' \in BOOLEAN
         /\ pos + n >= LengthLine => http_file_len' = FileLen[http_path]
<1>1. /\ upgrade_state = "download" /\ conn = "open" /\ http_path \in Versions
      /\ pos \in Nat /\ n \in Nat /\ LengthLine \in Nat
  BY Incoming, Constants DEF IInv, TypeOK
<1>2. FileLen[http_path] \in Nat /\ http_file_len \in Nat /\ is_get_len \in BOOLEAN
  BY <1>1, Constants DEF IInv, TypeOK
<1>3. http_file_len' \in Nat
  BY <1>2 DEF Lengths, NewFileLen
<1>4. is_get_len' \in BOOLEAN
  BY <1>2 DEF Lengths, HasLength
<1>5. ASSUME pos + n >= LengthLine PROVE http_file_len' = FileLen[http_path]
  <2>1. CASE pos < LengthLine
    BY <1>1, <1>5, <2>1 DEF Lengths, NewFileLen, HasLength
  <2>2. CASE pos >= LengthLine
    BY <1>1, <1>5, <2>2 DEF Lengths, NewFileLen, HasLength, IInv, Response
  <2> QED  BY <1>1, <2>1, <2>2
<1> QED  BY <1>3, <1>4, <1>5

\* What the end of http_handle does to the types.
LEMMA EndType ==
  ASSUME NEW cnt \in Nat, NEW area \in Area, End(cnt, area),
         upgrade_state = "download", conn = "open",
         flash_buf' \in Content, sector_index' \in 0 .. Sectors - 1
  PROVE  /\ upgrade_state' \in {"download", "saved"} /\ conn' \in {"closed", "open"}
         /\ file_cnt' \in Nat /\ flash' \in Area
         /\ upgrade_state' = "download" => file_cnt' = cnt /\ flash' = area
         /\ upgrade_state' = "saved" =>
              /\ cnt >= http_file_len'
              /\ flash' = Program(area, sector_index', flash_buf', flash_write_index')
<1>1. CASE cnt >= http_file_len'
  <2>1. Finish(area)
    BY <1>1 DEF End
  <2>2. flash' \in Area
    BY <2>1, ProgramType DEF Finish
  <2> QED  BY <1>1, <2>1, <2>2 DEF Finish
<1>2. CASE ~(cnt >= http_file_len')
  BY <1>2 DEF End, More
<1> QED  BY <1>1, <1>2

-----------------------------------------------------------------------------
(* The segments of a response, one operation of http_handle at a time.     *)

\* After a segment with bytes of the file, whether it ends the file or not,
\* what it left in area and in the buffer is the file so far.
LEMMA FileSoFar ==
  ASSUME IInv, NEW n \in 1 .. SegMax, Segment(n), NEW cnt \in Nat, cnt > 0,
         NEW area \in Area, End(cnt, area),
         http_path' = http_path, http_file_len' = FileLen[http_path],
         flash_buf' \in Content, flash_write_index' \in 0 .. SECTOR_SIZE,
         sector_index' \in 0 .. Sectors - 1,
         cnt = pos + n - HeaderLines,
         cnt = sector_index' * SECTOR_SIZE + flash_write_index',
         Holds(http_path, area, flash_buf', sector_index', flash_write_index')
  PROVE  NothingLost' /\ SavedIsComplete' /\ Response'
<1>1. /\ upgrade_state = "download" /\ conn = "open" /\ http_path \in Versions
      /\ n \in Nat /\ pos' = pos + n /\ pos \in Nat /\ HeaderLines \in Nat
      /\ pos + n <= HeaderLines + FileLen[http_path] /\ FileLen[http_path] \in Nat
  BY Incoming, Constants DEF IInv, TypeOK
<1>2. cnt <= FileLen[http_path]
  BY <1>1
<1>3. /\ upgrade_state' \in {"download", "saved"}
      /\ upgrade_state' = "download" => file_cnt' = cnt /\ flash' = area
      /\ upgrade_state' = "saved" =>
           /\ cnt >= http_file_len'
           /\ flash' = Program(area, sector_index', flash_buf', flash_write_index')
  BY <1>1, EndType
<1>4. NothingLost'
  <2> SUFFICES ASSUME upgrade_state' = "download"
               PROVE  /\ file_cnt' = pos' - HeaderLines
                      /\ http_file_len' = FileLen[http_path']
                      /\ Saved(http_path, file_cnt, sector_index, flash_write_index)'
                      /\ \A j \in 0 .. flash_write_index' - 1 :
                           flash_buf'[j]
                             = FileByte(http_path', sector_index' * SECTOR_SIZE + j + 1)
                      /\ flash'[sector_index'] = Blank
    BY DEF NothingLost
  <2>1. file_cnt' = cnt /\ flash' = area
    BY <1>3
  <2>2. \A q \in 0 .. sector_index' - 1, j \in 0 .. SECTOR_SIZE - 1 :
          flash'[q][j] = FileByte(http_path', q * SECTOR_SIZE + j + 1)
    BY <2>1 DEF Holds, Index
  <2>3. Saved(http_path, file_cnt, sector_index, flash_write_index)'
    BY <2>1, <2>2 DEF Saved
  <2>4. \A j \in 0 .. flash_write_index' - 1 :
          flash_buf'[j] = FileByte(http_path', sector_index' * SECTOR_SIZE + j + 1)
    BY DEF Holds
  <2>5. flash'[sector_index'] = Blank
    BY <2>1 DEF Holds
  <2>6. file_cnt' = pos' - HeaderLines /\ http_file_len' = FileLen[http_path']
    BY <1>1, <2>1
  <2> QED  BY <2>3, <2>4, <2>5, <2>6
<1>5. SavedIsComplete'
  <2> SUFFICES ASSUME upgrade_state' = "saved"
               PROVE  \A k \in 0 .. FileLen[http_path'] - 1 :
                        flash'[k \div SECTOR_SIZE][k % SECTOR_SIZE] = FileByte(http_path', k + 1)
    BY DEF SavedIsComplete
  <2>1. FileLen[http_path] = sector_index' * SECTOR_SIZE + flash_write_index'
    BY <1>1, <1>2, <1>3
  <2>2. \A k \in 0 .. FileLen[http_path] - 1 :
          Program(area, sector_index', flash_buf', flash_write_index')
            [k \div SECTOR_SIZE][k % SECTOR_SIZE] = FileByte(http_path, k + 1)
    BY <1>1, <2>1, FinishCompletes
  <2> QED  BY <1>3, <2>2
<1>6. Response'
  BY <1>1, <1>3 DEF Response
<1> QED  BY <1>4, <1>5, <1>6

LEMMA ErrorInv ==
  ASSUME IInv, NEW n \in 1 .. SegMax, RecvError(n)
  PROVE  IInv'
<1>1. /\ upgrade_state' = "idle" /\ conn = "open" /\ http_path \in Versions /\ pos' \in Nat
      /\ UNCHANGED <<http_path, conn, status, file_cnt, lengthVars, bufVars, flash, left>>
  BY Incoming DEF RecvError
<1>2. TypeOK'
  BY <1>1 DEF IInv, TypeOK, lengthVars, bufVars
<1> QED  BY <1>1, <1>2 DEF IInv, NothingLost, SavedIsComplete, Response

LEMMA HeaderInv ==
  ASSUME IInv, NEW n \in 1 .. SegMax, RecvHeader(n)
  PROVE  IInv'
<1>1. /\ Segment(n) /\ Lengths(n) /\ End(0, flash) /\ Body(n) = 0
      /\ UNCHANGED <<flash_buf, flash_write_index, sector_index, http_path, status, left>>
  BY DEF RecvHeader, bufVars
<1>2. /\ upgrade_state = "download" /\ conn = "open" /\ http_path \in Versions
      /\ pos' = pos + n /\ pos' \in Nat /\ pos \in Nat /\ n \in Nat /\ HeaderLines \in Nat
  BY <1>1, Incoming, Constants DEF IInv, TypeOK
<1>3. /\ http_file_len' \in Nat /\ is_get_len' \in BOOLEAN
      /\ pos + n >= LengthLine => http_file_len' = FileLen[http_path]
  BY <1>1, LengthKnown
<1>4. /\ flash \in Area /\ flash_buf' \in Content /\ sector_index' \in 0 .. Sectors - 1
      /\ flash_write_index' \in 0 .. SECTOR_SIZE
  BY <1>1, TypeValue DEF IInv
<1>5. /\ upgrade_state' \in {"download", "saved"} /\ conn' \in {"closed", "open"}
      /\ file_cnt' \in Nat /\ flash' \in Area
      /\ upgrade_state' = "download" => file_cnt' = 0
      /\ upgrade_state' = "saved" => 0 >= http_file_len'
  BY <1>1, <1>2, <1>4, EndType
<1>6. TypeOK'
  BY <1>1, <1>2, <1>3, <1>4, <1>5 DEF IInv, TypeOK, Area, Content, Index
<1>7. pos + n <= HeaderLines
  BY <1>1, <1>2 DEF Body, RecvHeader, IInv, Response
<1>8. NothingLost' /\ SavedIsComplete'
  BY <1>3, <1>5 DEF NothingLost, SavedIsComplete
<1>9. Response'
  BY <1>1, <1>2, <1>3, <1>5, <1>7 DEF Response
<1> QED  BY <1>6, <1>8, <1>9 DEF IInv

LEMMA FirstInv ==
  ASSUME IInv, NEW n \in 1 .. SegMax, RecvFirst(n)
  PROVE  IInv'
<1> DEFINE b == Body(n)
<1>1. /\ Segment(n) /\ Lengths(n) /\ file_cnt = 0 /\ b > 0
      /\ file_cnt' = b /\ sector_index' = 0 /\ flash_write_index' = b
      /\ flash' = [flash EXCEPT ![0] = Blank]
      /\ flash_buf' = [j \in Index |-> IF j < b THEN Unit(http_path, pos + n - b + j + 1)
                                                 ELSE flash_buf[j]]
      /\ UNCHANGED <<upgrade_state, http_path, conn, status, left>>
  BY DEF RecvFirst, Index
<1>2. /\ upgrade_state = "download" /\ conn = "open" /\ http_path \in Versions
      /\ n \in Nat /\ n <= SegMax /\ n <= SECTOR_SIZE
      /\ pos' = pos + n /\ pos' \in Nat /\ pos \in Nat
      /\ HeaderLines \in Nat /\ LengthLine \in Nat /\ LengthLine <= HeaderLines
  BY <1>1, Incoming, Constants DEF IInv, TypeOK
<1>3. pos <= HeaderLines
  BY <1>1, <1>2 DEF IInv, Response
<1>4. b = pos + n - HeaderLines /\ b \in Nat /\ b <= n
  BY <1>1, <1>2, <1>3 DEF Body
<1>5. /\ http_file_len' = FileLen[http_path] /\ http_file_len' \in Nat
      /\ is_get_len' \in BOOLEAN
  BY <1>1, <1>2, <1>4, LengthKnown
<1> HIDE DEF b
<1>6. flash \in Area /\ flash_buf \in Content /\ 0 \in 0 .. Sectors - 1 /\ SECTOR_SIZE \in Nat
  BY TypeValue, Constants DEF IInv
<1>7. flash' \in Area /\ flash'[0] = Blank
  BY <1>1, <1>6, UnitType DEF Area
<1>8. flash_buf' \in Content
  <2>1. \A j \in Index : j < b => Unit(http_path, pos + n - b + j + 1) \in Units
    <3> SUFFICES ASSUME NEW j \in Index PROVE Unit(http_path, pos + n - b + j + 1) \in Units
      OBVIOUS
    <3>1. pos + n - b + j + 1 \in Nat
      BY <1>2, <1>4, Constants DEF Index
    <3> QED  BY <1>2, <3>1, UnitType
  <2> QED  BY <1>1, <1>6, <2>1 DEF Content
<1>9. TypeOK'
  <2>1. /\ upgrade_state' \in {"idle", "connecting", "download", "saved"}
        /\ http_path' \in Versions \union {None}
        /\ conn' \in {"closed", "connecting", "open", "silent"}
        /\ status' \in {"ok", "error"} /\ left' \in BudgetType
    BY <1>1 DEF IInv, TypeOK
  <2>2. /\ flash_write_index' \in 0 .. SECTOR_SIZE /\ sector_index' \in 0 .. Sectors - 1
        /\ file_cnt' \in Nat
    BY <1>1, <1>2, <1>4, <1>6
  <2> QED  BY <1>2, <1>5, <1>7, <1>8, <2>1, <2>2 DEF TypeOK, Area, Content, Index
<1>10. NothingLost'
  <2>1. \A j \in 0 .. b - 1 : flash_buf'[j] = FileByte(http_path, 0 * SECTOR_SIZE + j + 1)
    <3> SUFFICES ASSUME NEW j \in 0 .. b - 1
                 PROVE  flash_buf'[j] = FileByte(http_path, 0 * SECTOR_SIZE + j + 1)
      OBVIOUS
    <3>1. j \in Index /\ j < b /\ j \in Nat
      BY <1>2, <1>4, Constants DEF Index
    <3>2. flash_buf'[j] = Unit(http_path, pos + n - b + j + 1)
      BY <1>1, <3>1
    <3>3. pos + n - b + j + 1 = HeaderLines + (0 * SECTOR_SIZE + j + 1)
      BY <1>2, <1>4, <3>1, Constants
    <3> QED  BY <3>2, <3>3 DEF FileByte
  <2>2. Saved(http_path, file_cnt, sector_index, flash_write_index)'
    <3>1. b = 0 * SECTOR_SIZE + b
      BY <1>4, <1>6
    <3>2. \A q \in 0 .. 0 - 1 : FALSE
      OBVIOUS
    <3> QED  BY <1>1, <3>1, <3>2 DEF Saved
  <2>3. \A j \in 0 .. flash_write_index' - 1 :
          flash_buf'[j] = FileByte(http_path', sector_index' * SECTOR_SIZE + j + 1)
    BY <1>1, <2>1
  <2>4. file_cnt' = pos' - HeaderLines /\ http_file_len' = FileLen[http_path']
    BY <1>1, <1>2, <1>4, <1>5
  <2> QED  BY <1>1, <1>7, <2>2, <2>3, <2>4 DEF NothingLost
<1>11. SavedIsComplete' /\ Response'
  BY <1>1, <1>2, <1>5 DEF SavedIsComplete, Response
<1> QED  BY <1>9, <1>10, <1>11 DEF IInv

\* Where the bytes of a further segment belong, from what NothingLost says of
\* the ones before.
LEMMA JoinedInv ==
  ASSUME IInv, NEW n \in 1 .. SegMax, Segment(n), file_cnt > 0
  PROVE  /\ file_cnt = pos - HeaderLines /\ http_file_len = FileLen[http_path]
         /\ file_cnt = sector_index * SECTOR_SIZE + flash_write_index
         /\ Holds(http_path, flash, flash_buf, sector_index, flash_write_index)
         /\ \A j \in 0 .. flash_write_index + n - 1 :
              /\ Joined(j) \in Units
              /\ Joined(j) = FileByte(http_path, sector_index * SECTOR_SIZE + j + 1)
<1>1. /\ upgrade_state = "download" /\ conn = "open" /\ http_path \in Versions
      /\ n \in Nat /\ pos \in Nat /\ HeaderLines \in Nat /\ SECTOR_SIZE \in Nat
  BY Incoming, Constants DEF IInv, TypeOK
<1>2. /\ flash_buf \in Content /\ flash_write_index \in 0 .. SECTOR_SIZE
      /\ flash_write_index \in Nat
      /\ sector_index \in Nat /\ sector_index * SECTOR_SIZE \in Nat
  BY <1>1, TypeValue, Constants, Multiples DEF IInv
<1>3. /\ file_cnt = pos - HeaderLines /\ http_file_len = FileLen[http_path]
      /\ file_cnt = sector_index * SECTOR_SIZE + flash_write_index
      /\ Holds(http_path, flash, flash_buf, sector_index, flash_write_index)
  BY <1>1 DEF IInv, NothingLost, Saved, Holds, Index
<1>4. ASSUME NEW j \in 0 .. flash_write_index + n - 1
      PROVE  /\ Joined(j) \in Units
             /\ Joined(j) = FileByte(http_path, sector_index * SECTOR_SIZE + j + 1)
  <2>1. CASE j < flash_write_index
    <3>1. j \in 0 .. flash_write_index - 1 /\ j \in Index
      BY <1>2, <2>1, <1>1 DEF Index
    <3> QED  BY <1>2, <1>3, <2>1, <3>1 DEF Joined, Holds, Content
  <2>2. CASE ~(j < flash_write_index)
    <3>1. pos + (j - flash_write_index) + 1
            = HeaderLines + (sector_index * SECTOR_SIZE + j + 1)
      BY <1>1, <1>2, <1>3, <2>2
    <3>2. HeaderLines + (sector_index * SECTOR_SIZE + j + 1) \in Nat
      BY <1>1, <1>2
    <3> QED  BY <1>1, <2>2, <3>1, <3>2, UnitType DEF Joined, FileByte
  <2> QED  BY <2>1, <2>2
<1> QED  BY <1>3, <1>4

LEMMA FitsInv ==
  ASSUME IInv, NEW n \in 1 .. SegMax, RecvFits(n)
  PROVE  IInv'
<1> DEFINE fill == flash_write_index + n
<1>1. /\ Segment(n) /\ file_cnt > 0 /\ End(file_cnt + n, flash)
      /\ ~(fill > SECTOR_SIZE) /\ flash_write_index' = fill
      /\ flash_buf' = [j \in Index |-> IF j < fill THEN Joined(j) ELSE flash_buf[j]]
      /\ UNCHANGED <<http_file_len, is_get_len, sector_index, http_path, status, left>>
  BY DEF RecvFits, Overflows, Index, lengthVars
<1>2. /\ upgrade_state = "download" /\ conn = "open" /\ http_path \in Versions
      /\ n \in Nat /\ pos' = pos + n /\ pos' \in Nat /\ pos \in Nat /\ HeaderLines \in Nat
      /\ SECTOR_SIZE \in Nat
  BY <1>1, Incoming, Constants DEF IInv, TypeOK
<1>3. /\ flash \in Area /\ flash_buf \in Content /\ sector_index \in 0 .. Sectors - 1
      /\ flash_write_index \in Nat /\ file_cnt \in Nat
      /\ sector_index * SECTOR_SIZE \in Nat
  BY <1>2, TypeValue, Constants, Multiples DEF IInv
<1>4. fill \in 0 .. SECTOR_SIZE
  BY <1>1, <1>2, <1>3
<1>5. /\ file_cnt = pos - HeaderLines /\ http_file_len = FileLen[http_path]
      /\ file_cnt = sector_index * SECTOR_SIZE + flash_write_index
      /\ Holds(http_path, flash, flash_buf, sector_index, flash_write_index)
      /\ \A j \in 0 .. flash_write_index + n - 1 :
           /\ Joined(j) \in Units
           /\ Joined(j) = FileByte(http_path, sector_index * SECTOR_SIZE + j + 1)
  <2> HIDE DEF fill
  <2> QED  BY <1>1, JoinedInv
<1> HIDE DEF fill
<1>6. fill = flash_write_index + n
  BY DEF fill
<1>7. \A j \in Index : j < fill => j \in 0 .. flash_write_index + n - 1
  BY <1>2, <1>3, <1>6 DEF Index
<1>8. flash_buf' \in Content
  BY <1>1, <1>3, <1>5, <1>7 DEF Content
<1>9. Holds(http_path, flash, flash_buf', sector_index', flash_write_index')
  <2>1. ASSUME NEW j \in 0 .. fill - 1
        PROVE  flash_buf'[j] = FileByte(http_path, sector_index * SECTOR_SIZE + j + 1)
    <3>1. j \in Index /\ j < fill
      BY <1>2, <1>4 DEF Index
    <3> QED  BY <1>1, <1>5, <1>7, <3>1
  <2> QED  BY <1>1, <1>5, <2>1 DEF Holds
<1>10. /\ file_cnt + n \in Nat /\ file_cnt + n > 0
      /\ file_cnt + n = pos + n - HeaderLines
      /\ file_cnt + n = sector_index * SECTOR_SIZE + fill
  BY <1>1, <1>2, <1>3, <1>4, <1>5 DEF fill
<1>11. NothingLost' /\ SavedIsComplete' /\ Response'
  BY <1>1, <1>3, <1>4, <1>5, <1>8, <1>9, <1>10, FileSoFar
<1>12. /\ upgrade_state' \in {"download", "saved"} /\ conn' \in {"closed", "open"}
       /\ file_cnt' \in Nat /\ flash' \in Area
  BY <1>1, <1>2, <1>3, <1>8, <1>10, EndType
<1>13. TypeOK'
  BY <1>1, <1>2, <1>3, <1>4, <1>8, <1>12 DEF IInv, TypeOK, Area, Content, Index
<1> QED  BY <1>11, <1>13 DEF IInv

LEMMA FillsInv ==
  ASSUME IInv, NEW n \in 1 .. SegMax, RecvFills(n)
  PROVE  IInv'
<1> DEFINE fill == flash_write_index + n - SECTOR_SIZE
           full == [j \in Index |-> Joined(j)]
           done == Program(flash, sector_index, full, SECTOR_SIZE)
           area == [done EXCEPT ![sector_index + 1] = Blank]
<1>1. /\ Segment(n) /\ file_cnt > 0 /\ flash_write_index + n > SECTOR_SIZE
      /\ flash_write_index' = fill /\ sector_index' = sector_index + 1
      /\ flash_buf' = [j \in Index |-> IF j < fill THEN Joined(SECTOR_SIZE + j) ELSE Joined(j)]
      /\ End(file_cnt + n, area)
      /\ UNCHANGED <<http_file_len, is_get_len, http_path, status, left>>
  BY DEF RecvFills, Overflows, Index, lengthVars
<1>2. /\ upgrade_state = "download" /\ conn = "open" /\ http_path \in Versions
      /\ n \in Nat /\ n > 0 /\ n <= SECTOR_SIZE
      /\ pos' = pos + n /\ pos' \in Nat /\ pos \in Nat /\ HeaderLines \in Nat
      /\ SECTOR_SIZE \in Nat /\ SECTOR_SIZE > 0
      /\ pos + n <= HeaderLines + FileLen[http_path]
      /\ FileLen[http_path] <= Sectors * SECTOR_SIZE /\ FileLen[http_path] \in Nat
      /\ Sectors \in Nat /\ Sectors * SECTOR_SIZE \in Nat
  BY <1>1, Incoming, Constants, Multiples DEF IInv, TypeOK
<1>3. /\ flash \in Area /\ flash_buf \in Content
      /\ sector_index \in 0 .. Sectors - 1 /\ sector_index \in Nat
      /\ flash_write_index \in Nat /\ flash_write_index <= SECTOR_SIZE /\ file_cnt \in Nat
      /\ sector_index * SECTOR_SIZE \in Nat
      /\ (sector_index + 1) * SECTOR_SIZE = sector_index * SECTOR_SIZE + SECTOR_SIZE
  BY <1>2, TypeValue, Constants, Multiples DEF IInv
<1>4. /\ file_cnt = pos - HeaderLines /\ http_file_len = FileLen[http_path]
      /\ file_cnt = sector_index * SECTOR_SIZE + flash_write_index
      /\ Holds(http_path, flash, flash_buf, sector_index, flash_write_index)
      /\ \A j \in 0 .. flash_write_index + n - 1 :
           /\ Joined(j) \in Units
           /\ Joined(j) = FileByte(http_path, sector_index * SECTOR_SIZE + j + 1)
  BY <1>1, JoinedInv
<1>5. fill \in Nat /\ fill > 0 /\ fill <= n /\ fill \in 0 .. SECTOR_SIZE
      /\ fill + SECTOR_SIZE = flash_write_index + n
  BY <1>1, <1>2, <1>3
<1> HIDE DEF fill
<1>6. /\ file_cnt + n \in Nat /\ file_cnt + n > 0
      /\ file_cnt + n = pos + n - HeaderLines
      /\ file_cnt + n = (sector_index + 1) * SECTOR_SIZE + fill
  BY <1>2, <1>3, <1>4, <1>5
<1>7. sector_index + 1 \in 0 .. Sectors - 1
  BY <1>2, <1>3, <1>5, <1>6, SectorInArea
<1>8. \A j \in Index : /\ j \in 0 .. flash_write_index + n - 1
                       /\ j < fill => SECTOR_SIZE + j \in 0 .. flash_write_index + n - 1
  BY <1>2, <1>3, <1>5 DEF Index
<1>9. full \in Content /\ flash_buf' \in Content
  BY <1>1, <1>4, <1>8 DEF Content
<1>10. area \in Area
  BY <1>3, <1>7, <1>9, ProgramType, UnitType DEF Area
<1>11. Holds(http_path, area, flash_buf', sector_index', flash_write_index')
  <2>1. ASSUME NEW q \in 0 .. sector_index, NEW j \in Index
        PROVE  area[q][j] = FileByte(http_path, q * SECTOR_SIZE + j + 1)
    <3>1. /\ q \in 0 .. Sectors - 1 /\ q # sector_index + 1
          /\ SECTOR_SIZE \in 0 .. SECTOR_SIZE
      BY <1>2, <1>3
    <3>2. done \in Area
      BY <1>3, <1>9, ProgramType
    <3>3. area[q] = done[q]
      BY <3>1, <3>2 DEF Area
    <3>4. CASE q = sector_index
      <4>1. j \in 0 .. SECTOR_SIZE - 1 /\ flash[sector_index] = Blank
        BY <1>4 DEF Index, Holds
      <4>2. done[sector_index][j] = full[j]
        BY <1>3, <1>9, <3>1, <4>1, Programmed
      <4>3. full[j] = FileByte(http_path, sector_index * SECTOR_SIZE + j + 1)
        BY <1>4, <1>8
      <4> QED  BY <3>3, <3>4, <4>2, <4>3
    <3>5. CASE q # sector_index
      <4>1. q \in 0 .. sector_index - 1 /\ flash[sector_index] = Blank
        BY <1>3, <1>4, <3>5 DEF Holds
      <4>2. done[q] = flash[q]
        BY <1>3, <1>9, <3>1, <3>5, <4>1, Programmed
      <4> QED  BY <1>4, <3>3, <4>1, <4>2 DEF Holds
    <3> QED  BY <3>4, <3>5
  <2>2. ASSUME NEW j \in 0 .. fill - 1
        PROVE  flash_buf'[j] = FileByte(http_path, (sector_index + 1) * SECTOR_SIZE + j + 1)
    <3>1. j \in Index /\ j < fill
      BY <1>2, <1>5 DEF Index
    <3>2. flash_buf'[j] = Joined(SECTOR_SIZE + j)
      BY <1>1, <3>1
    <3>3. Joined(SECTOR_SIZE + j)
            = FileByte(http_path, sector_index * SECTOR_SIZE + (SECTOR_SIZE + j) + 1)
      BY <1>4, <1>8, <3>1
    <3>4. sector_index * SECTOR_SIZE + (SECTOR_SIZE + j) + 1
            = (sector_index + 1) * SECTOR_SIZE + j + 1
      BY <1>2, <1>3, <3>1
    <3> QED  BY <3>2, <3>3, <3>4
  <2>3. area[sector_index + 1] = Blank
    BY <1>3, <1>7, <1>9, ProgramType DEF Area
  <2>4. \A q \in 0 .. (sector_index + 1) - 1 : q \in 0 .. sector_index
    BY <1>3
  <2> HIDE DEF area
  <2> QED  BY <1>1, <2>1, <2>2, <2>3, <2>4 DEF Holds
<1> HIDE DEF area
<1>12. NothingLost' /\ SavedIsComplete' /\ Response'
  BY <1>1, <1>4, <1>5, <1>6, <1>7, <1>9, <1>10, <1>11, FileSoFar
<1>13. /\ upgrade_state' \in {"download", "saved"} /\ conn' \in {"closed", "open"}
       /\ file_cnt' \in Nat /\ flash' \in Area
  BY <1>1, <1>2, <1>6, <1>7, <1>9, <1>10, EndType
<1>14. TypeOK'
  BY <1>1, <1>2, <1>4, <1>5, <1>7, <1>9, <1>13 DEF IInv, TypeOK, Area, Content, Index
<1> QED  BY <1>12, <1>14 DEF IInv

-----------------------------------------------------------------------------
(* The invariant.                                                          *)

LEMMA InitInv == Init => IInv
<1> SUFFICES ASSUME Init PROVE IInv
  OBVIOUS
<1>1. 0 \in 0 .. Sectors - 1 /\ 0 \in 0 .. SECTOR_SIZE /\ 0 \in Nat
  BY Constants
<1>2. flash_buf \in Content /\ flash \in Area
  BY UnitType DEF Init, Area, Content, Index
<1>3. left \in BudgetType
  BY Constants DEF Init
<1>4. TypeOK
  BY <1>1, <1>2, <1>3 DEF Init, TypeOK, Area, Content, Index
<1> QED  BY <1>4 DEF Init, IInv, NothingLost, SavedIsComplete, Response

\* Faults and downloads use up what is left of the budget.
LEMMA SpendType ==
  ASSUME left \in BudgetType, NEW what \in {"get", "reset", "close", "nomem", "restart"},
         Spend(what)
  PROVE  left' \in BudgetType
  BY DEF Spend, BudgetType

LEMMA NextInv == IInv /\ [Next]_vars => IInv'
<1> SUFFICES ASSUME IInv, [Next]_vars PROVE IInv'
  OBVIOUS
<1>0. left \in BudgetType
  BY DEF IInv, TypeOK
<1> USE DEF netVars, lengthVars, bufVars
<1>1. ASSUME NEW v \in Versions, HttpGet(v) PROVE IInv'
  <2>1. left' \in BudgetType
    BY <1>0, <1>1, SpendType DEF HttpGet
  <2>2. TypeOK'
    BY <1>1, <2>1 DEF HttpGet, IInv, TypeOK
  <2> QED  BY <1>1, <2>2 DEF HttpGet, IInv, NothingLost, SavedIsComplete, Response
<1>2. CASE Connect \/ ConnectNoMem
  <2>1. PICK url \in BOOLEAN : Connected(url)
    BY <1>2 DEF Connect, ConnectNoMem
  <2>2. left' \in BudgetType
    BY <1>0, <1>2, SpendType DEF Connect, ConnectNoMem
  <2>3. TypeOK'
    BY <2>1, <2>2 DEF Connected, IInv, TypeOK
  <2>4. pos' <= HeaderLines /\ ~(pos' >= LengthLine)
    BY <2>1, Constants DEF Connected
  <2> QED  BY <2>1, <2>3, <2>4 DEF Connected, IInv, NothingLost, SavedIsComplete, Response
<1>3. CASE Reconnect \/ Disconnect
  <2>1. left' \in BudgetType
    BY <1>0, <1>3, SpendType DEF Reconnect, Disconnect
  <2>2. TypeOK'
    BY <1>3, <2>1 DEF Reconnect, Disconnect, IInv, TypeOK
  <2>3. NothingLost' /\ Response'
    BY <1>3 DEF Reconnect, Disconnect, IInv, NothingLost, Response
  <2>4. SavedIsComplete'
    BY <1>3 DEF Reconnect, Disconnect, IInv, SavedIsComplete
  <2> QED  BY <2>2, <2>3, <2>4 DEF IInv
<1>4. CASE Restart
  <2>1. left' \in BudgetType
    BY <1>0, <1>4, SpendType DEF Restart
  <2>2. 0 \in 0 .. Sectors - 1 /\ 0 \in 0 .. SECTOR_SIZE /\ 0 \in Nat
    BY Constants
  <2>3. TypeOK'
    BY <1>4, <2>1, <2>2, UnitType DEF Restart, IInv, TypeOK, Content, Index
  <2> QED  BY <1>4, <2>3 DEF Restart, IInv, NothingLost, SavedIsComplete, Response
<1>5. CASE Recv
  BY <1>5, ErrorInv, HeaderInv, FirstInv, FitsInv, FillsInv DEF Recv
<1>6. CASE UNCHANGED vars
  <2>1. TypeOK' /\ Response'
    BY <1>6 DEF vars, IInv, TypeOK, Response
  <2>2. NothingLost' /\ SavedIsComplete'
    BY <1>6 DEF vars, IInv, NothingLost, SavedIsComplete, Saved
  <2> QED  BY <2>1, <2>2 DEF IInv
<1> QED  BY <1>1, <1>2, <1>3, <1>4, <1>5, <1>6 DEF Next

LEMMA Invariance == Spec => []IInv
  BY InitInv, NextInv, PTL DEF Spec

\* All variables keep their types: in particular no segment, however it lies to
\* the sectors' ends, leads out of flash_buf or out of the download area.
THEOREM TypeCorrect == Spec => []TypeOK
<1>1. IInv => TypeOK
  BY DEF IInv
<1> QED  BY <1>1, Invariance, PTL

\* While a file comes in the counters agree with what was delivered, and the
\* buffer and the flash with the file, for every way to cut a response.
THEOREM NothingLostCorrect == Spec => []NothingLost
<1>1. IInv => NothingLost
  BY DEF IInv
<1> QED  BY <1>1, Invariance, PTL

\* A file with an announced length that is reported downloaded is in the flash,
\* every byte in its place, with any number of downloads and faults before.
THEOREM SavedCorrect == Spec => []SavedIsComplete
<1>1. IInv => SavedIsComplete
  BY DEF IInv
<1> QED  BY <1>1, Invariance, PTL
=============================================================================
