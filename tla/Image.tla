-------------------------------- MODULE Image --------------------------------
(***************************************************************************)
(* Unpacking an image from the download area (user/upgrade_func.c,         *)
(* upgrade_firmware_phase; user/secure.c): sector by sector it is read,    *)
(* summed, decrypted and written to where it will run.  Each sector is one *)
(* step, so power can fail between and inside them.                        *)
(*                                                                         *)
(* A cell of the flash tells which byte of the payload it holds and the    *)
(* position that byte was decrypted with.  The download area is only read. *)
(***************************************************************************)
EXTENDS Integers

CONSTANTS
  SectorSize,              \* SPI_FLASH_SEC_SIZE: 4096 bytes
  KeyPeriod,               \* bin_decrypt repeats after 8 bytes
  CountWrap,               \* sector_num is a uint8_t: 256
  FlashSize,
  Areas, Start, AreaLen,   \* where images go: the MCU's area, the two banks
  Sizes,                   \* what the size field of an image may hold
  Calls                    \* bound: how often an image is unpacked

ASSUME ImageAssumption ==
  /\ SectorSize \in Nat \ {0} /\ KeyPeriod \in Nat \ {0} /\ CountWrap \in Nat \ {0}
  /\ SectorSize % KeyPeriod = 0
  /\ FlashSize \in Nat /\ Start \in [Areas -> Nat] /\ AreaLen \in Nat
  /\ AreaLen % SectorSize = 0
  /\ Sizes \subseteq Nat /\ Calls \in Nat

VARIABLES
  flash,
  area, size, need_decrypt, \* the arguments, the area standing for its address
  good,                    \* firmware_crc is the checksum of the payload
  i, summed,               \* the loop; how many bytes were summed, from the first
  pc,                      \* "called", "true" or "false"
  left                     \* what remains of Calls

call == <<area, size, need_decrypt, good>>
vars == <<flash, call, i, summed, pc, left>>

Address == 0 .. FlashSize - 1
Old     == [byte |-> 0, key |-> 0]
Erased  == [byte |-> 0, key |-> 1]
Mixed   == -1              \* a sum of anything else

BugSectorNum == size \div SectorSize + 1
sector_num == (size \div SectorSize) % CountWrap
firmware_last == size % SectorSize

Summed(first, n) == IF summed = first THEN first + n ELSE Mixed

\* Byte b of the payload, which is byte k of the buffer: bin_decrypt_buf.
bin_decrypt(b, k) == [byte |-> b, key |-> IF need_decrypt THEN 2 + (k % KeyPeriod) ELSE 2]

\* n bytes from the payload's byte first on are written to sector s.
BugWrite(first, n, s) ==
  flash' = [a \in Address |->
    LET k == a - (Start[area] + s * SectorSize) IN
      IF k < 0 \/ k >= n THEN flash[a] ELSE bin_decrypt(first + k + 1, k)]
Write(first, n, s) ==
  flash' = [a \in Address |->
    LET k == a - (Start[area] + s * SectorSize) IN
      IF k < 0 \/ k >= SectorSize THEN flash[a]
      ELSE IF k >= n THEN Erased ELSE bin_decrypt(first + k + 1, k + 1)]

Init ==
  /\ flash = [a \in Address |-> Old]
  /\ area \in Areas /\ size = 0 /\ need_decrypt = FALSE /\ good = FALSE
  /\ i = 0 /\ summed = 0 /\ pc = "false"
  /\ left = Calls

\* upgrade_mcu_save and upgrade_wifi, which take the area from the running bank.
Call ==
  /\ pc # "called" /\ left > 0
  /\ area' \in Areas /\ size' \in Sizes
  /\ need_decrypt' \in BOOLEAN /\ good' \in BOOLEAN
  /\ i' = 0 /\ summed' = 0
  /\ pc' = "called"
  /\ left' = left - 1
  /\ UNCHANGED flash

Sector ==
  /\ pc = "called" /\ i < sector_num
  /\ summed' = Summed(i * SectorSize, SectorSize)
  /\ Write(i * SectorSize, SectorSize, i)
  /\ i' = i + 1
  /\ UNCHANGED <<call, pc, left>>

\* What is left after the loop, and the comparison of the checksums.
Last ==
  /\ pc = "called" /\ i = sector_num
  /\ summed' = Summed(sector_num * SectorSize, firmware_last)
  /\ IF firmware_last > 0
       THEN Write(sector_num * SectorSize, firmware_last, sector_num)
       ELSE UNCHANGED flash
  /\ pc' = IF good /\ summed' = size THEN "true" ELSE "false"
  /\ UNCHANGED <<call, i, left>>

\* The power fails: between two sectors, or with one erased.
PowerLoss ==
  /\ pc = "called"
  /\ \/ UNCHANGED flash
     \/ (i < sector_num \/ firmware_last > 0) /\ Write(0, 0, i)
  /\ pc' = "false"
  /\ UNCHANGED <<call, i, summed, left>>

Next == Call \/ Sector \/ Last \/ PowerLoss
Spec == Init /\ [][Next]_vars

-----------------------------------------------------------------------------
(* Properties.                                                             *)

TypeOK ==
  /\ flash \in [Address -> [byte : Nat, key : Nat]]
  /\ area \in Areas /\ size \in Nat /\ need_decrypt \in BOOLEAN /\ good \in BOOLEAN
  /\ i \in 0 .. CountWrap - 1 /\ summed \in Nat \union {Mixed}
  /\ pc \in {"called", "true", "false"} /\ left \in Nat

\* An image reported good is in its area whole, decrypted as if in one piece,
\* although it is cut into buffers and although the number of sectors is cut to
\* one byte: what is not copied is not summed either.
TrueMeansCopied ==
  pc = "true" =>
    \A b \in 1 .. size :
      Start[area] + b - 1 \in Address => flash[Start[area] + b - 1] = bin_decrypt(b, b)

\* A size that fits stays in its area; any other, such as one read from erased
\* flash, is not refused and goes on for up to CountWrap sectors.
Reach == IF size <= AreaLen THEN AreaLen ELSE CountWrap * SectorSize
Beyond(b) == Start[b] + AreaLen <= Start[area] \/ Start[area] + Reach <= Start[b]

\* No bank or area out of that reach changes: neither the bank that runs, nor
\* the MCU's image.
OthersIntact ==
  [][\A b \in Areas : Beyond(b) =>
       \A a \in Address : a >= Start[b] /\ a < Start[b] + AreaLen => flash'[a] = flash[a]]_vars
=============================================================================
