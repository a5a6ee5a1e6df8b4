------------------------------ MODULE Checksum ------------------------------
(***************************************************************************)
(* The checksum of a firmware image (user/secure.c), bit by bit, next to   *)
(* the polynomial division it stands for, and next to the checksum of the  *)
(* same image with two neighbouring bytes damaged, at most.  Module Image  *)
(* has which bytes are summed, in which order.                             *)
(*                                                                         *)
(* A number is the set of the positions of its one-bits: ^ is SymDiff.     *)
(***************************************************************************)
EXTENDS Integers, FiniteSetsExt

CONSTANTS
  Bytes,                   \* that images are made of
  MaxLen                   \* bound: bytes summed

Byte == 0 .. 7             \* 0xff
Bits == 0 .. 15            \* 0xffff

ASSUME ChecksumAssumption == Bytes \subseteq SUBSET Byte /\ MaxLen \in Nat

VARIABLES
  crcValue,                \* for the image
  damaged,                 \* for the damaged image
  register,                \* the division's remainder, for the image
  len, errors,             \* bytes summed; damaged ones, and where the last one is
  done

checksumVars == <<crcValue, damaged, register, len, errors, done>>

Shl(w, k) == {i + k : i \in w}                        \* <<, of what an int has room for
Shr(w, k) == {i - k : i \in {j \in w : j >= k}}       \* >>, of what is not negative

\* What a byte changes in the value: tmp is a short whose upper byte is masked.
Masked(tmp) == SymDiff(tmp, Shl(tmp, 4)) \intersect Byte
Changes(tmp) == SymDiff(SymDiff(Shl(tmp, 8), Shl(tmp, 3)), Shr(tmp, 4) \intersect (0 .. 3))

BugCrcUpdate(crc, data) == SymDiff(Shr(crc, 8) \intersect Byte, Changes(Masked(data)))
\* What data has besides a byte, where char has a sign, Masked takes away.
crc_updateChecksum(crc, data) ==
  SymDiff(Shr(crc, 8) \intersect Byte, Changes(Masked(SymDiff(data, crc \intersect Byte))))

crc_startChecksum == Bits
BugCrcEnd(crc) == crc
crc_endChecksum(crc) == SymDiff(crc, Bits)

-----------------------------------------------------------------------------
(* CRC-16 as it is defined: one bit at a time, least significant first, by *)
(* the polynomial x^16 + x^12 + x^5 + 1.                                   *)

Polynomial == {15, 10, 3}
Shift(reg, bit) == IF (0 \in reg) # bit THEN SymDiff(Shr(reg, 1), Polynomial) ELSE Shr(reg, 1)
Divide(reg, byte) ==
  LET S(r, k) == Shift(r, k \in byte)
  IN  S(S(S(S(S(S(S(S(reg, 0), 1), 2), 3), 4), 5), 6), 7)

ChecksumInit ==
  /\ crcValue = crc_startChecksum /\ damaged = crc_startChecksum /\ register = Bits
  /\ len = 0 /\ errors = [count |-> 0, last |-> 0] /\ done = FALSE

\* One more byte, b in the image and e in the damaged one.
Sum(b, e) ==
  /\ ~done /\ len < MaxLen
  /\ crcValue' = crc_updateChecksum(crcValue, b)
  /\ damaged'  = crc_updateChecksum(damaged, e)
  /\ register' = Divide(register, b)
  /\ len' = len + 1
  /\ UNCHANGED done
Same(b) == Sum(b, b) /\ UNCHANGED errors
Damage(b, e) ==
  /\ b # e /\ (errors.count = 0 \/ (errors.count = 1 /\ errors.last = len))
  /\ Sum(b, e)
  /\ errors' = [count |-> errors.count + 1, last |-> len']

End ==
  /\ ~done /\ done' = TRUE
  /\ crcValue' = crc_endChecksum(crcValue) /\ damaged' = crc_endChecksum(damaged)
  /\ UNCHANGED <<register, len, errors>>

ChecksumNext == End \/ \E b \in Bytes : Same(b) \/ \E e \in Bytes : Damage(b, e)
ChecksumSpec == ChecksumInit /\ [][ChecksumNext]_checksumVars

-----------------------------------------------------------------------------
(* Properties.                                                             *)

\* The shifts of crc_updateChecksum do what eight steps of the division do, and
\* crc_endChecksum inverts the remainder: the checksum is CRC-16/X-25, and it
\* never leaves the 16 bits it is compared with although crcValue is an int
\* (upgrade_firmware_phase).
IsCrc16 ==
  /\ crcValue \union damaged \subseteq Bits
  /\ crcValue = IF done THEN Bits \ register ELSE register

\* Damage to one byte, or to two neighbours, never goes unnoticed, whatever
\* follows it (upgrade_firmware_phase's comparison of the checksums).
Noticed == errors.count > 0 => damaged # crcValue
=============================================================================
