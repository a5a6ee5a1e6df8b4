----------------------------- MODULE ImageProofs -----------------------------
(***************************************************************************)
(* Image, proved for every sector size, key period, count width, layout    *)
(* and size field, with any number of calls cut off by power failures; and *)
(* the checksum it relies on (module Checksum), for every image.           *)
(***************************************************************************)
EXTENDS Image, Checksum, TLAPS

(* Remainders.                                                             *)

\* A number has one remainder.
LEMMA Unique ==
  ASSUME NEW a \in Int, NEW b \in Int, NEW n \in Nat, n > 0,
         NEW r \in 0 .. n - 1, NEW s \in 0 .. n - 1, a * n + r = b * n + s
  PROVE  r = s
<1>1. CASE a = b
  BY <1>1, SMT
<1>2. CASE a > b
  <2>1. (a - b) * n >= n
    BY <1>2, SMT
  <2>2. (a - b) * n = s - r
    BY SMT
  <2> QED
    BY <2>1, <2>2, SMT
<1>3. CASE b > a
  <2>1. (b - a) * n >= n
    BY <1>3, SMT
  <2>2. (b - a) * n = r - s
    BY SMT
  <2> QED
    BY <2>1, <2>2, SMT
<1> QED
  BY <1>1, <1>2, <1>3, SMT

LEMMA Quotient ==
  ASSUME NEW a \in Nat, NEW n \in Nat, n > 0
  PROVE  a \div n \in Nat
  BY SMT

\* Multiples of the divisor do not count.
LEMMA ModMultiple ==
  ASSUME NEW q \in Nat, NEW n \in Nat, n > 0, NEW k \in Nat
  PROVE  (q * n + k) % n = k % n
<1> DEFINE x == q * n + k
<1>1. x \in Nat
  BY SMT
<1>2. x = (x \div n) * n + (x % n) /\ x % n \in 0 .. n - 1 /\ x \div n \in Nat
  BY <1>1, SMT
<1>3. k = (k \div n) * n + (k % n) /\ k % n \in 0 .. n - 1 /\ k \div n \in Nat
  BY SMT
<1> DEFINE c == k \div n
           d == x \div n
           e == k % n
           f == x % n
<1>4. c \in Nat /\ d \in Nat /\ e \in 0 .. n - 1 /\ f \in 0 .. n - 1
  BY <1>2, <1>3
<1>5. d * n + f = q * n + (c * n + e)
  BY <1>2, <1>3
<1> HIDE DEF c, d, e, f
<1>6. d * n + f = (q + c) * n + e
  BY <1>4, <1>5, SMT
<1>7. f = e
  BY <1>4, <1>6, Unique, q + c \in Int, SMT
<1> QED
  BY <1>7 DEF e, f, x

\* A position in a sector is decrypted like the position in the image: sectors
\* are whole periods of the key.
LEMMA KeyAligned ==
  ASSUME NEW s \in Nat, NEW k \in Nat
  PROVE  (s * SectorSize + k) % KeyPeriod = k % KeyPeriod
<1> DEFINE q == SectorSize \div KeyPeriod
<1> USE ImageAssumption
<1>1. q \in Nat /\ SectorSize = q * KeyPeriod
  BY SMT
<1> HIDE DEF q
<1>2. s * SectorSize = (s * q) * KeyPeriod
  BY <1>1, SMT
<1>3. s * q \in Nat
  BY <1>1, SMT
<1>4. ((s * q) * KeyPeriod + k) % KeyPeriod = k % KeyPeriod
  <2>1. KeyPeriod \in Nat /\ KeyPeriod > 0
    BY SMT
  <2> QED
    BY <1>3, <2>1, ModMultiple, Zenon
<1> QED
  BY <1>2, <1>4, Zenon

LEMMA DecryptAligned ==
  ASSUME NEW s \in Nat, NEW k \in Nat, NEW b
  PROVE  bin_decrypt(b, s * SectorSize + k) = bin_decrypt(b, k)
  BY KeyAligned, Zenon DEF bin_decrypt

-----------------------------------------------------------------------------
(* The invariant: what was summed was copied.                              *)

Copied ==
  summed # Mixed =>
    \A b \in 1 .. summed :
      Start[area] + b - 1 \in Address => flash[Start[area] + b - 1] = bin_decrypt(b, b)
InLoop == pc = "called" => i <= sector_num /\ summed = i * SectorSize
Result == pc = "true" => summed = size

IInv == TypeOK /\ (pc \in {"called", "true"} => Copied) /\ InLoop /\ Result

LEMMA Numbers ==
  ASSUME TypeOK
  PROVE  /\ sector_num \in 0 .. CountWrap - 1
         /\ firmware_last \in 0 .. SectorSize - 1
         /\ SectorSize \in Nat /\ SectorSize > 0 /\ CountWrap \in Nat /\ KeyPeriod \in Nat
         /\ KeyPeriod > 0 /\ Start[area] \in Nat
<1>1. SectorSize \in Nat /\ SectorSize > 0 /\ CountWrap \in Nat /\ CountWrap > 0
      /\ KeyPeriod \in Nat /\ KeyPeriod > 0 /\ size \in Nat
  BY ImageAssumption, SMT DEF TypeOK
<1>2. size \div SectorSize \in Nat
  BY <1>1, SMT
<1> QED
  BY <1>1, <1>2, ImageAssumption, SMT DEF TypeOK, sector_num, firmware_last

\* Writing the next n bytes of the payload to its sector extends what is copied.
LEMMA WriteCopies ==
  ASSUME TypeOK, Copied, NEW s \in Nat, summed = s * SectorSize,
         NEW n \in 0 .. SectorSize, Write(s * SectorSize, n, s),
         UNCHANGED <<area, need_decrypt>>
  PROVE  /\ flash' \in [Address -> [byte : Nat, key : Nat]]
         /\ \A b \in 1 .. s * SectorSize + n :
              Start[area] + b - 1 \in Address => flash'[Start[area] + b - 1] = bin_decrypt(b, b)
<1> DEFINE base == s * SectorSize
           off(a) == a - (Start[area] + base)
<1>1. base \in Nat /\ SectorSize \in Nat /\ SectorSize > 0 /\ Start[area] \in Nat
      /\ KeyPeriod \in Nat /\ KeyPeriod > 0 /\ n \in Nat /\ n <= SectorSize
  BY Numbers, SMT
<1>2. flash' = [a \in Address |->
                 IF off(a) < 0 \/ off(a) >= SectorSize THEN flash[a]
                 ELSE IF off(a) >= n THEN Erased ELSE bin_decrypt(base + off(a) + 1, off(a) + 1)]
  BY Zenon DEF Write
<1>3. summed = base /\ summed # Mixed
  BY <1>1, SMT DEF Mixed
<1>4. flash \in [Address -> [byte : Nat, key : Nat]]
  BY DEF TypeOK
<1>a. Address \subseteq Int
  BY ImageAssumption, SMT DEF Address
<1>b. \A b \in 1 .. base :
        Start[area] + b - 1 \in Address => flash[Start[area] + b - 1] = bin_decrypt(b, b)
  BY <1>3 DEF Copied
<1> HIDE DEF base
<1>5. ASSUME NEW a \in Address PROVE flash'[a] \in [byte : Nat, key : Nat]
  <2>1. CASE off(a) < 0 \/ off(a) >= SectorSize
    BY <1>2, <1>4, <2>1
  <2>2. CASE ~(off(a) < 0 \/ off(a) >= SectorSize) /\ off(a) >= n
    BY <1>2, <2>2 DEF Erased
  <2>3. CASE ~(off(a) < 0 \/ off(a) >= SectorSize) /\ ~(off(a) >= n)
    <3>1. off(a) \in Nat /\ base + off(a) + 1 \in Nat /\ off(a) + 1 \in Nat
      BY <1>1, <1>a, <2>3, SMT
    <3>2. (off(a) + 1) % KeyPeriod \in Nat
      BY <1>1, <3>1, SMT
    <3>3. flash'[a] = bin_decrypt(base + off(a) + 1, off(a) + 1)
      BY <1>2, <2>3
    <3> QED
      BY <3>1, <3>2, <3>3, SMT DEF bin_decrypt
  <2> QED
    BY <2>1, <2>2, <2>3
<1>6. flash' \in [Address -> [byte : Nat, key : Nat]]
  BY <1>2, <1>5, Zenon
<1>7. ASSUME NEW b \in 1 .. base + n, Start[area] + b - 1 \in Address
      PROVE  flash'[Start[area] + b - 1] = bin_decrypt(b, b)
  <2> DEFINE a == Start[area] + b - 1
  <2>1. CASE b <= base
    <3>1. off(a) < 0 /\ b \in 1 .. base
      BY <1>1, <2>1, SMT
    <3> QED
      BY <1>2, <1>7, <1>b, <3>1
  <2>2. CASE b > base
    <3>1. off(a) >= 0 /\ off(a) < n /\ base + off(a) + 1 = b /\ off(a) + 1 = b - base
      BY <1>1, <2>2, SMT
    <3>2. flash'[a] = bin_decrypt(b, b - base)
      <4>1. ~(off(a) < 0 \/ off(a) >= SectorSize) /\ ~(off(a) >= n)
        BY <1>1, <3>1, SMT
      <4>2. flash'[a] = bin_decrypt(base + off(a) + 1, off(a) + 1)
        BY <1>2, <1>7, <4>1
      <4> QED
        BY <3>1, <4>2
    <3>3. b - base \in Nat /\ base + (b - base) = b
      BY <1>1, <2>2, SMT
    <3>4. bin_decrypt(b, base + (b - base)) = bin_decrypt(b, b - base)
      BY <3>3, DecryptAligned, Zenon DEF base
    <3> QED
      BY <3>2, <3>3, <3>4
  <2> QED
    BY <1>1, <2>1, <2>2, SMT
<1> QED
  BY <1>6, <1>7 DEF base

\* Summing the next n bytes.
LEMMA SumNext ==
  ASSUME TypeOK, NEW s \in Nat, summed = s * SectorSize, NEW n \in Nat,
         summed' = Summed(s * SectorSize, n)
  PROVE  summed' = s * SectorSize + n /\ summed' \in Nat
  BY Numbers, SMT DEF Summed

LEMMA InitInv == Init => IInv
<1> SUFFICES ASSUME Init PROVE IInv
  OBVIOUS
<1>1. TypeOK
  <2>1. [a \in Address |-> Old] \in [Address -> [byte : Nat, key : Nat]]
    BY DEF Old
  <2>2. flash \in [Address -> [byte : Nat, key : Nat]]
    BY <2>1 DEF Init
  <2>3. i \in 0 .. CountWrap - 1 /\ left \in Nat
    BY ImageAssumption, SMT DEF Init
  <2> QED
    BY <2>2, <2>3 DEF Init, TypeOK
<1> QED
  BY <1>1, SMT DEF Init, IInv, InLoop, Result

LEMMA CallInv == IInv /\ Call => IInv'
<1> SUFFICES ASSUME IInv, Call PROVE IInv'
  OBVIOUS
<1>1. TypeOK'
  <2>1. size' \in Nat /\ left' \in Nat
    BY ImageAssumption, SMT DEF Call, IInv, TypeOK
  <2>2. i' \in 0 .. CountWrap - 1
    BY ImageAssumption, SMT DEF Call
  <2> QED
    BY <2>1, <2>2, SMT DEF Call, IInv, TypeOK
<1>2. Copied'
  BY SMT DEF Call, Copied
<1>3. InLoop'
  <2>1. sector_num' \in Nat
    <3>1. size' \in Nat /\ SectorSize \in Nat /\ SectorSize > 0
      BY <1>1, ImageAssumption, SMT DEF TypeOK
    <3>2. size' \div SectorSize \in Nat
      BY <3>1, Quotient, Zenon
    <3>3. CountWrap \in Nat /\ CountWrap > 0
      BY ImageAssumption, SMT
    <3> QED
      BY <3>2, <3>3, SMT DEF sector_num
  <2> QED
    BY <2>1, ImageAssumption, SMT DEF Call, InLoop
<1> QED
  BY <1>1, <1>2, <1>3, Zenon DEF Call, IInv, Result

LEMMA SectorInv == IInv /\ Sector => IInv'
<1> SUFFICES ASSUME IInv, Sector PROVE IInv'
  OBVIOUS
<1>1. TypeOK /\ Copied /\ i \in Nat /\ i < sector_num /\ summed = i * SectorSize
  BY SMT DEF Sector, IInv, TypeOK, InLoop
<1>2. SectorSize \in 0 .. SectorSize
  BY <1>1, Numbers, SMT
<1>3. /\ flash' \in [Address -> [byte : Nat, key : Nat]]
      /\ \A b \in 1 .. i * SectorSize + SectorSize :
           Start[area] + b - 1 \in Address => flash'[Start[area] + b - 1] = bin_decrypt(b, b)
  BY <1>1, <1>2, WriteCopies, Zenon DEF Sector, call
<1>4. summed' = i * SectorSize + SectorSize /\ summed' \in Nat
  BY <1>1, Numbers, SumNext, Zenon DEF Sector
<1>5. i' = i + 1 /\ i' <= sector_num /\ i' \in 0 .. CountWrap - 1
  BY <1>1, Numbers, SMT DEF Sector
<1>6. summed' = i' * SectorSize
  BY <1>1, <1>4, <1>5, Numbers, SMT
<1>7. UNCHANGED <<area, size, need_decrypt, good, pc, left>>
  BY DEF Sector, call
<1>8. TypeOK'
  BY <1>1, <1>3, <1>4, <1>5, <1>7 DEF TypeOK
<1>9. Copied'
  BY <1>3, <1>4, <1>7 DEF Copied, bin_decrypt
<1>10. sector_num' = sector_num
  BY <1>7 DEF sector_num
<1> QED
  BY <1>5, <1>6, <1>7, <1>8, <1>9, <1>10 DEF Sector, IInv, InLoop, Result

LEMMA LastInv == IInv /\ Last => IInv'
<1> SUFFICES ASSUME IInv, Last PROVE IInv'
  OBVIOUS
<1> DEFINE n == firmware_last
<1>1. TypeOK /\ Copied /\ i \in Nat /\ i = sector_num /\ summed = i * SectorSize
  BY SMT DEF Last, IInv, TypeOK, InLoop
<1>2. n \in Nat /\ n \in 0 .. SectorSize /\ sector_num \in Nat
  BY <1>1, Numbers, SMT
<1> HIDE DEF n
<1>3. summed' = sector_num * SectorSize + n /\ summed' \in Nat
  BY <1>1, <1>2, SumNext, Zenon DEF Last, n
<1>4. /\ flash' \in [Address -> [byte : Nat, key : Nat]]
      /\ \A b \in 1 .. sector_num * SectorSize + n :
           Start[area] + b - 1 \in Address => flash'[Start[area] + b - 1] = bin_decrypt(b, b)
  <2>1. CASE n > 0
    BY <1>1, <1>2, <2>1, WriteCopies, Zenon DEF Last, call, n
  <2>2. CASE ~(n > 0)
    <3>1. n = 0 /\ sector_num * SectorSize + n = summed /\ summed # Mixed
      BY <1>1, <1>2, <2>2, Numbers, SMT DEF Mixed
    <3>2. flash' = flash
      BY <2>2 DEF Last, n
    <3> QED
      BY <1>1, <3>1, <3>2 DEF TypeOK, Copied
  <2> QED
    BY <2>1, <2>2
<1>5. UNCHANGED <<area, size, need_decrypt, good, i, left>>
  BY DEF Last, call
<1>6. TypeOK'
  BY <1>1, <1>3, <1>4, <1>5 DEF TypeOK, Last
<1>7. Copied'
  BY <1>3, <1>4, <1>5 DEF Copied, bin_decrypt
<1> QED
  BY <1>5, <1>6, <1>7 DEF Last, IInv, InLoop, Result

LEMMA PowerLossInv == IInv /\ PowerLoss => IInv'
<1> SUFFICES ASSUME IInv, PowerLoss PROVE IInv'
  OBVIOUS
<1>1. flash' \in [Address -> [byte : Nat, key : Nat]]
  <2>1. CASE UNCHANGED flash
    BY <2>1 DEF IInv, TypeOK
  <2>2. CASE Write(0, 0, i)
    <3> DEFINE k(a) == a - (Start[area] + i * SectorSize)
    <3>1. flash' = [a \in Address |->
                     IF k(a) < 0 \/ k(a) >= SectorSize THEN flash[a]
                     ELSE IF k(a) >= 0 THEN Erased ELSE bin_decrypt(0 + k(a) + 1, k(a) + 1)]
      BY <2>2, Zenon DEF Write
    <3>2. ASSUME NEW a \in Address PROVE flash'[a] \in [byte : Nat, key : Nat]
      <4>1. k(a) \in Int
        BY <3>2, Numbers, ImageAssumption, SMT DEF IInv, TypeOK, Address
      <4>2. flash'[a] = flash[a] \/ flash'[a] = Erased
        BY <3>1, <3>2, <4>1, SMT
      <4> QED
        BY <3>2, <4>2, SMT DEF Erased, IInv, TypeOK
    <3> QED
      BY <3>1, <3>2, Zenon
  <2> QED
    BY <2>1, <2>2 DEF PowerLoss
<1>2. TypeOK'
  BY <1>1, SMT DEF PowerLoss, call, IInv, TypeOK
<1> QED
  BY <1>2 DEF PowerLoss, call, IInv, InLoop, Result

LEMMA StutterInv == IInv /\ UNCHANGED vars => IInv'
  BY DEF vars, call, IInv, TypeOK, Copied, InLoop, Result, bin_decrypt, sector_num

THEOREM Invariance == Spec => []IInv
<1>1. IInv /\ [Next]_vars => IInv'
  BY CallInv, SectorInv, LastInv, PowerLossInv, StutterInv, Zenon DEF Next
<1> QED
  BY InitInv, <1>1, PTL DEF Spec

\* Types of all the state, among them that the loop stays below CountWrap.
THEOREM TypeCorrect == Spec => []TypeOK
<1>1. IInv => TypeOK
  BY DEF IInv
<1> QED
  BY <1>1, Invariance, PTL

\* What is reported good was copied whole and decrypted as one piece, for
\* every size field, also one that does not fit into a byte of sectors.
THEOREM CopyCorrect == Spec => []TrueMeansCopied
<1>1. IInv => TrueMeansCopied
  <2> SUFFICES ASSUME IInv, pc = "true" PROVE TrueMeansCopied
    BY DEF TrueMeansCopied
  <2>1. summed = size /\ size \in Nat /\ Copied
    BY DEF IInv, Result, TypeOK
  <2>2. summed # Mixed
    BY <2>1, SMT DEF Mixed
  <2> QED
    BY <2>1, <2>2 DEF TrueMeansCopied, Copied
<1> QED
  BY <1>1, Invariance, PTL

-----------------------------------------------------------------------------
(* What a step may write.                                                  *)

\* A remainder is not greater than what it is the remainder of.
LEMMA Remainder ==
  ASSUME NEW a \in Nat, NEW n \in Nat, n > 0
  PROVE  a % n <= a
<1>1. a = (a \div n) * n + (a % n) /\ a \div n \in Nat /\ a % n \in Nat
  BY SMT
<1> DEFINE q == a \div n
           r == a % n
<1> HIDE DEF q, r
<1>2. q * n \in Nat
  BY <1>1, SMT DEF q
<1> QED
  BY <1>1, <1>2, SMT DEF q, r

\* The last sector written ends within reach.
LEMMA WithinReach ==
  ASSUME TypeOK, NEW s \in Nat, s < sector_num \/ (s = sector_num /\ firmware_last > 0)
  PROVE  s * SectorSize + SectorSize <= Reach
<1> DEFINE S == SectorSize
           d == size \div SectorSize
           r == size % SectorSize
           m == AreaLen \div SectorSize
<1>1. S \in Nat /\ S > 0 /\ size \in Nat /\ AreaLen \in Nat /\ CountWrap \in Nat /\ CountWrap > 0
  BY ImageAssumption, SMT DEF TypeOK
<1>2. size = d * S + r /\ d \in Nat /\ r \in Nat
  BY <1>1, SMT
<1>3. AreaLen = m * S /\ m \in Nat
  <2>1. AreaLen % S = 0
    BY ImageAssumption
  <2> QED
    BY <1>1, <2>1, SMT
<1>4. sector_num <= d /\ sector_num \in 0 .. CountWrap - 1
  BY <1>1, <1>2, Remainder, Numbers, Zenon DEF sector_num
<1>5. s < sector_num \/ (s = sector_num /\ r > 0)
  BY DEF firmware_last
<1> HIDE DEF S, d, r, m
<1>6. CASE size <= AreaLen
  <2>1. s + 1 <= m
    <3>1. CASE s < sector_num
      <4>1. s + 1 <= d
        BY <1>2, <1>4, <3>1, SMT
      <4>2. d <= m
        <5> SUFFICES ASSUME m + 1 <= d PROVE FALSE
          BY <1>2, <1>3, SMT
        <5>1. m * S + S <= d * S
          BY <1>1, <1>2, <1>3, SMT
        <5> QED
          BY <1>1, <1>2, <1>3, <1>6, <5>1, SMT
      <4> QED
        BY <1>2, <1>3, <4>1, <4>2, SMT
    <3>2. CASE s = sector_num /\ r > 0
      <4> SUFFICES ASSUME m <= d PROVE FALSE
        BY <1>2, <1>3, <1>4, <3>2, SMT
      <4>1. m * S <= d * S
        BY <1>1, <1>2, <1>3, SMT
      <4> QED
        BY <1>1, <1>2, <1>3, <1>6, <3>2, <4>1, SMT
    <3> QED
      BY <1>5, <3>1, <3>2
  <2>2. s * S + S <= m * S
    BY <1>1, <1>3, <2>1, SMT
  <2> QED
    BY <1>3, <1>6, <2>2 DEF Reach, S
<1>7. CASE ~(size <= AreaLen)
  <2>1. s + 1 <= CountWrap
    BY <1>1, <1>4, <1>5, SMT
  <2>2. s * S + S <= CountWrap * S
    BY <1>1, <2>1, SMT
  <2> QED
    BY <1>7, <2>2 DEF Reach, S
<1> QED
  BY <1>6, <1>7

Untouched ==
  \A b \in Areas : Beyond(b) =>
    \A a \in Address : a >= Start[b] /\ a < Start[b] + AreaLen => flash'[a] = flash[a]

LEMMA WriteUntouched ==
  ASSUME TypeOK, NEW s \in Nat, s < sector_num \/ (s = sector_num /\ firmware_last > 0),
         NEW f, NEW n, Write(f, n, s)
  PROVE  Untouched
<1> SUFFICES ASSUME NEW b \in Areas, Beyond(b), NEW a \in Address,
                    a >= Start[b], a < Start[b] + AreaLen
             PROVE  flash'[a] = flash[a]
  BY DEF Untouched
<1> DEFINE k == a - (Start[area] + s * SectorSize)
<1>1. s * SectorSize + SectorSize <= Reach /\ s * SectorSize \in Nat /\ SectorSize \in Nat
  BY WithinReach, Numbers, SMT
<1>2. Start[b] \in Nat /\ Start[area] \in Nat /\ AreaLen \in Nat /\ a \in Int /\ Reach \in Nat
  <2>1. CountWrap * SectorSize \in Nat
    BY ImageAssumption, SMT
  <2> QED
    BY <2>1, Numbers, ImageAssumption, SMT DEF Address, Reach
<1>3. k < 0 \/ k >= SectorSize
  BY <1>1, <1>2, SMT DEF Beyond
<1> QED
  BY <1>3, Zenon DEF Write

\* An image whose size fits stays in its area, and one with any other size
\* field, such as an erased one, ends within CountWrap sectors.
THEOREM OthersCorrect == Spec => OthersIntact
<1>1. IInv /\ [Next]_vars => (Untouched \/ UNCHANGED vars)
  <2> SUFFICES ASSUME IInv, Next PROVE Untouched
    BY Zenon
  <2>1. CASE Call
    BY <2>1 DEF Call, Untouched
  <2>2. CASE Sector
    <3>1. TypeOK /\ i \in Nat /\ i < sector_num
      BY <2>2, SMT DEF IInv, TypeOK, Sector
    <3> QED
      BY <2>2, <3>1, WriteUntouched, Zenon DEF Sector
  <2>3. CASE Last
    <3>1. TypeOK /\ sector_num \in Nat
      BY Numbers, SMT DEF IInv
    <3>2. CASE firmware_last > 0
      BY <2>3, <3>1, <3>2, WriteUntouched, Zenon DEF Last
    <3>3. CASE ~(firmware_last > 0)
      BY <2>3, <3>3 DEF Last, Untouched
    <3> QED
      BY <3>2, <3>3
  <2>4. CASE PowerLoss
    <3>1. CASE UNCHANGED flash
      BY <3>1 DEF Untouched
    <3>2. CASE (i < sector_num \/ firmware_last > 0) /\ Write(0, 0, i)
      <4>1. TypeOK /\ i \in Nat /\ (i < sector_num \/ (i = sector_num /\ firmware_last > 0))
        BY <2>4, <3>2, Numbers, SMT DEF IInv, TypeOK, InLoop, PowerLoss
      <4> QED
        BY <3>2, <4>1, WriteUntouched, Zenon
    <3> QED
      BY <2>4, <3>1, <3>2 DEF PowerLoss
  <2> QED
    BY <2>1, <2>2, <2>3, <2>4 DEF Next
<1> QED
  BY <1>1, Invariance, PTL DEF Spec, OthersIntact, Untouched

-----------------------------------------------------------------------------
(* The checksum (module Checksum), for all bytes and images of any length. *)
(* One call of crc_updateChecksum and one step of the division are written *)
(* out bit by bit, which lets the provers compare eight steps with one     *)
(* call.                                                                   *)

\* ^, bit by bit.
LEMMA XorBits ==
  ASSUME NEW v, NEW w
  PROVE  /\ \A k : k \in SymDiff(v, w) <=> ~(k \in v <=> k \in w)
         /\ \A B : v \subseteq B /\ w \subseteq B => SymDiff(v, w) \subseteq B
BY Zenon DEF SymDiff

\* One step of the division: every bit moves down, and where the bit shifted out
\* differs from the byte's (f) the polynomial is added.
LEMMA ShiftBits ==
  ASSUME NEW r \in SUBSET Bits, NEW bit \in BOOLEAN, NEW f, f <=> ~(bit <=> 0 \in r)
  PROVE  /\ Shift(r, bit) \in SUBSET Bits
         /\ \A k \in Bits : k \in Shift(r, bit) <=> ~(k + 1 \in r <=> (f /\ k \in Polynomial))
<1>1. Shr(r, 1) \in SUBSET Bits /\ \A k \in Bits : k \in Shr(r, 1) <=> k + 1 \in r
  BY DEF Shr, Bits
<1>2. Polynomial \in SUBSET Bits
  BY DEF Polynomial, Bits
<1>3. f <=> ((0 \in r) # bit)
  OBVIOUS
<1>4. Shift(r, bit) = IF f THEN SymDiff(Shr(r, 1), Polynomial) ELSE Shr(r, 1)
  BY <1>3 DEF Shift
<1>5. CASE f
  BY <1>1, <1>2, <1>4, <1>5 DEF SymDiff
<1>6. CASE ~f
  BY <1>1, <1>2, <1>4, <1>6 DEF SymDiff
<1> QED BY <1>5, <1>6

\* tmp of crc_updateChecksum, and what it makes of a value and a byte.
Tmp(crc, data) == Masked(SymDiff(data, crc \intersect Byte))

\* Every bit of tmp, and every bit of what crc_updateChecksum computes, from the
\* bits of the value and of the byte: no shift leaves 16 bits.
LEMMA UpdateBits ==
  ASSUME NEW crc \in SUBSET Bits, NEW data \in SUBSET Byte, NEW tmp, tmp = Tmp(crc, data)
  PROVE  /\ tmp \in SUBSET Byte
         /\ \A k \in 0 .. 3 : k \in tmp <=> ~(k \in data <=> k \in crc)
         /\ \A k \in 4 .. 7 : k \in tmp <=>
              ~(~(k \in data <=> k \in crc) <=> ~(k - 4 \in data <=> k - 4 \in crc))
         /\ crc_updateChecksum(crc, data) \in SUBSET Bits
         /\ \A k \in Bits : k \in crc_updateChecksum(crc, data) <=>
              ~( ~(k \in 0 .. 7 /\ k + 8 \in crc <=> k - 8 \in tmp)
                <=> ~(k - 3 \in tmp <=> (k \in 0 .. 3 /\ k + 4 \in tmp)) )
<1> DEFINE t == SymDiff(data, crc \intersect Byte)
<1>1. t \in SUBSET Byte /\ \A k \in 0 .. 7 : k \in t <=> ~(k \in data <=> k \in crc)
  BY DEF SymDiff, Byte
<1>2. tmp = SymDiff(t, Shl(t, 4)) \intersect Byte
  BY DEF Masked, Tmp
<1>3. \A k \in Int : k \in Shl(t, 4) <=> k - 4 \in t
  BY <1>1 DEF Shl, Byte
<1> HIDE DEF t
<1>4. tmp \in SUBSET Byte /\ \A k \in Byte : k \in tmp <=> ~(k \in t <=> k - 4 \in t)
  <2>1. \A k \in Byte : k \in Int /\ (k \in tmp <=> k \in SymDiff(t, Shl(t, 4)))
    BY <1>2 DEF Byte
  <2> QED BY <1>2, <1>3, <2>1 DEF SymDiff
<1>5. /\ \A k \in 0 .. 3 : k \in tmp <=> ~(k \in data <=> k \in crc)
      /\ \A k \in 4 .. 7 : k \in tmp <=>
              ~(~(k \in data <=> k \in crc) <=> ~(k - 4 \in data <=> k - 4 \in crc))
  BY <1>1, <1>4 DEF Byte
<1>6. \A k \in Int : /\ k \in Shl(tmp, 8) <=> k - 8 \in tmp
                     /\ k \in Shl(tmp, 3) <=> k - 3 \in tmp
  BY <1>4 DEF Shl, Byte
<1>7. /\ \A k \in Int : k \in Shr(tmp, 4) \intersect (0 .. 3) <=> k \in 0 .. 3 /\ k + 4 \in tmp
      /\ \A k \in Int : k \in Shr(crc, 8) \intersect Byte <=> k \in 0 .. 7 /\ k + 8 \in crc
  BY <1>4 DEF Shr, Byte, Bits
<1>8. /\ Shl(tmp, 8) \in SUBSET Bits /\ Shl(tmp, 3) \in SUBSET Bits
      /\ Shr(tmp, 4) \intersect (0 .. 3) \in SUBSET Bits
      /\ Shr(crc, 8) \intersect Byte \in SUBSET Bits
  BY <1>4 DEF Shl, Byte, Bits
<1>9. crc_updateChecksum(crc, data) =
        SymDiff(Shr(crc, 8) \intersect Byte,
                  SymDiff(SymDiff(Shl(tmp, 8), Shl(tmp, 3)), Shr(tmp, 4) \intersect (0 .. 3)))
  BY DEF crc_updateChecksum, Changes, Tmp
<1>10. crc_updateChecksum(crc, data) \in SUBSET Bits
  BY <1>8, <1>9 DEF SymDiff
<1>11. \A k \in Bits : k \in Int
  BY DEF Bits
<1>12. ASSUME NEW k \in Bits
       PROVE  k \in crc_updateChecksum(crc, data) <=>
              ~( ~(k \in 0 .. 7 /\ k + 8 \in crc <=> k - 8 \in tmp)
                <=> ~(k - 3 \in tmp <=> (k \in 0 .. 3 /\ k + 4 \in tmp)) )
  <2>1. k \in Int
    BY <1>11
  <2>2. k \in SymDiff(Shl(tmp, 8), Shl(tmp, 3)) <=> ~(k - 8 \in tmp <=> k - 3 \in tmp)
    BY <1>6, <2>1 DEF SymDiff
  <2>3. k \in SymDiff(SymDiff(Shl(tmp, 8), Shl(tmp, 3)), Shr(tmp, 4) \intersect (0 .. 3)) <=>
          ~(~(k - 8 \in tmp <=> k - 3 \in tmp) <=> (k \in 0 .. 3 /\ k + 4 \in tmp))
    BY <1>7, <2>1, <2>2 DEF SymDiff
  <2>4. k \in crc_updateChecksum(crc, data) <=>
          ~((k \in 0 .. 7 /\ k + 8 \in crc) <=>
            ~(~(k - 8 \in tmp <=> k - 3 \in tmp) <=> (k \in 0 .. 3 /\ k + 4 \in tmp)))
    BY <1>7, <1>9, <2>1, <2>3 DEF SymDiff
  <2> QED BY <2>4
<1> QED BY <1>4, <1>5, <1>10, <1>12

\* One step of the division, written out: r is shifted to s, f being fed back.
ShiftsTo(r, f, s) ==
  /\ (0 \in s <=> 1 \in r)  /\ (1 \in s <=> 2 \in r)
  /\ (2 \in s <=> 3 \in r)  /\ (3 \in s <=> ~(4 \in r <=> f))
  /\ (4 \in s <=> 5 \in r)  /\ (5 \in s <=> 6 \in r)
  /\ (6 \in s <=> 7 \in r)  /\ (7 \in s <=> 8 \in r)
  /\ (8 \in s <=> 9 \in r)  /\ (9 \in s <=> 10 \in r)
  /\ (10 \in s <=> ~(11 \in r <=> f))  /\ (11 \in s <=> 12 \in r)
  /\ (12 \in s <=> 13 \in r)  /\ (13 \in s <=> 14 \in r)
  /\ (14 \in s <=> 15 \in r)  /\ (15 \in s <=> f)

\* ShiftsTo is what Shift does.
LEMMA StepWritten ==
  ASSUME NEW r \in SUBSET Bits, NEW bit \in BOOLEAN
  PROVE  /\ Shift(r, bit) \in SUBSET Bits
         /\ ShiftsTo(r, ~(bit <=> 0 \in r), Shift(r, bit))
<1>1. PICK f : f \in BOOLEAN /\ (f <=> ~(bit <=> 0 \in r))
  OBVIOUS
<1>2. PICK s : s = Shift(r, bit)
  OBVIOUS
<1>3. s \in SUBSET Bits /\ \A k \in Bits : k \in s <=> ~(k + 1 \in r <=> (f /\ k \in Polynomial))
  BY <1>1, <1>2, ShiftBits
<1>4. \A k \in Bits : k \in Polynomial <=> k = 15 \/ k = 10 \/ k = 3
  BY DEF Polynomial
<1>5. 16 \notin r
  BY DEF Bits
<1>6. ShiftsTo(r, f, s)
  <2>1. \A k \in Bits \ {3, 10, 15} : k \in s <=> k + 1 \in r
    BY <1>3, <1>4
  <2>2. \A k \in {3, 10, 15} : k \in s <=> ~(k + 1 \in r <=> f)
    BY <1>3, <1>4 DEF Bits
  <2>3. 15 \in s <=> f
    BY <1>5, <2>2
  <2>4. /\ 3 \in s <=> ~(4 \in r <=> f)
        /\ 10 \in s <=> ~(11 \in r <=> f)
    BY <2>2
  <2>5. /\ (0 \in s <=> 1 \in r)  /\ (1 \in s <=> 2 \in r)  /\ (2 \in s <=> 3 \in r)
        /\ (4 \in s <=> 5 \in r)  /\ (5 \in s <=> 6 \in r)  /\ (6 \in s <=> 7 \in r)
        /\ (7 \in s <=> 8 \in r)  /\ (8 \in s <=> 9 \in r)  /\ (9 \in s <=> 10 \in r)
        /\ (11 \in s <=> 12 \in r)  /\ (12 \in s <=> 13 \in r)
        /\ (13 \in s <=> 14 \in r)  /\ (14 \in s <=> 15 \in r)
    BY <2>1 DEF Bits
  <2> QED BY <2>3, <2>4, <2>5 DEF ShiftsTo
<1> QED BY <1>1, <1>2, <1>3, <1>6 DEF ShiftsTo

\* One call of crc_updateChecksum, written out: tmp is the local variable.
UpdatesTo(crc, data, tmp, new) ==
  /\ (0 \in tmp <=> ~(0 \in data <=> 0 \in crc))  /\ (1 \in tmp <=> ~(1 \in data <=> 1 \in crc))
  /\ (2 \in tmp <=> ~(2 \in data <=> 2 \in crc))  /\ (3 \in tmp <=> ~(3 \in data <=> 3 \in crc))
  /\ (4 \in tmp <=> ~(~(4 \in data <=> 4 \in crc) <=> ~(0 \in data <=> 0 \in crc)))
  /\ (5 \in tmp <=> ~(~(5 \in data <=> 5 \in crc) <=> ~(1 \in data <=> 1 \in crc)))
  /\ (6 \in tmp <=> ~(~(6 \in data <=> 6 \in crc) <=> ~(2 \in data <=> 2 \in crc)))
  /\ (7 \in tmp <=> ~(~(7 \in data <=> 7 \in crc) <=> ~(3 \in data <=> 3 \in crc)))
  /\ (0 \in new <=> ~(8 \in crc <=> 4 \in tmp))  /\ (1 \in new <=> ~(9 \in crc <=> 5 \in tmp))
  /\ (2 \in new <=> ~(10 \in crc <=> 6 \in tmp))
  /\ (3 \in new <=> ~(11 \in crc <=> ~(0 \in tmp <=> 7 \in tmp)))
  /\ (4 \in new <=> ~(12 \in crc <=> 1 \in tmp))  /\ (5 \in new <=> ~(13 \in crc <=> 2 \in tmp))
  /\ (6 \in new <=> ~(14 \in crc <=> 3 \in tmp))  /\ (7 \in new <=> ~(15 \in crc <=> 4 \in tmp))
  /\ (8 \in new <=> ~(0 \in tmp <=> 5 \in tmp))  /\ (9 \in new <=> ~(1 \in tmp <=> 6 \in tmp))
  /\ (10 \in new <=> ~(2 \in tmp <=> 7 \in tmp))
  /\ (11 \in new <=> 3 \in tmp)  /\ (12 \in new <=> 4 \in tmp)
  /\ (13 \in new <=> 5 \in tmp)  /\ (14 \in new <=> 6 \in tmp)
  /\ (15 \in new <=> 7 \in tmp)

\* UpdatesTo is what crc_updateChecksum does.
LEMMA UpdateWritten ==
  ASSUME NEW crc \in SUBSET Bits, NEW data \in SUBSET Byte
  PROVE  /\ crc_updateChecksum(crc, data) \in SUBSET Bits
         /\ UpdatesTo(crc, data, Tmp(crc, data), crc_updateChecksum(crc, data))
<1>1. PICK tmp : tmp = Tmp(crc, data)
  OBVIOUS
<1>2. PICK new : new = crc_updateChecksum(crc, data)
  OBVIOUS
<1>3. /\ tmp \in SUBSET Byte
      /\ \A k \in 0 .. 3 : k \in tmp <=> ~(k \in data <=> k \in crc)
      /\ \A k \in 4 .. 7 : k \in tmp <=>
           ~(~(k \in data <=> k \in crc) <=> ~(k - 4 \in data <=> k - 4 \in crc))
      /\ crc_updateChecksum(crc, data) \in SUBSET Bits
      /\ \A k \in Bits : k \in crc_updateChecksum(crc, data) <=>
              ~( ~(k \in 0 .. 7 /\ k + 8 \in crc <=> k - 8 \in tmp)
                <=> ~(k - 3 \in tmp <=> (k \in 0 .. 3 /\ k + 4 \in tmp)) )
  BY <1>1, UpdateBits
<1>4. /\ new \in SUBSET Bits
       /\ \A k \in Bits : k \in new <=>
              ~( ~(k \in 0 .. 7 /\ k + 8 \in crc <=> k - 8 \in tmp)
                <=> ~(k - 3 \in tmp <=> (k \in 0 .. 3 /\ k + 4 \in tmp)) )
  BY <1>2, <1>3
<1>5. /\ \A k \in 0 .. 2 : k \in new <=> ~(k + 8 \in crc <=> k + 4 \in tmp)
      /\ 3 \in new <=> ~(11 \in crc <=> ~(0 \in tmp <=> 7 \in tmp))
      /\ \A k \in 4 .. 7 : k \in new <=> ~(k + 8 \in crc <=> k - 3 \in tmp)
      /\ \A k \in 8 .. 10 : k \in new <=> ~(k - 8 \in tmp <=> k - 3 \in tmp)
      /\ \A k \in 11 .. 15 : k \in new <=> k - 8 \in tmp
  BY <1>3, <1>4 DEF Byte, Bits
<1>6. UpdatesTo(crc, data, tmp, new)
  BY <1>3, <1>5 DEF UpdatesTo
<1> QED BY <1>1, <1>2, <1>3, <1>4, <1>6

\* Two values with the same sixteen bits are equal.
SameBits(v, w) ==
  /\ (0 \in v <=> 0 \in w)  /\ (1 \in v <=> 1 \in w)  /\ (2 \in v <=> 2 \in w)  /\ (3 \in v <=> 3 \in w)
  /\ (4 \in v <=> 4 \in w)  /\ (5 \in v <=> 5 \in w)  /\ (6 \in v <=> 6 \in w)  /\ (7 \in v <=> 7 \in w)
  /\ (8 \in v <=> 8 \in w)  /\ (9 \in v <=> 9 \in w)  /\ (10 \in v <=> 10 \in w)  /\ (11 \in v <=> 11 \in w)
  /\ (12 \in v <=> 12 \in w)  /\ (13 \in v <=> 13 \in w)  /\ (14 \in v <=> 14 \in w)  /\ (15 \in v <=> 15 \in w)

LEMMA BitsEqual ==
  ASSUME NEW v \in SUBSET Bits, NEW w \in SUBSET Bits, SameBits(v, w)
  PROVE  v = w
<1>1. \A k \in Bits : k \in v <=> k \in w
  BY DEF SameBits, Bits
<1> QED BY <1>1

\* What crc_updateChecksum does with four shifts, eight steps of the division do:
\* the bits are those of the code, whatever value and byte.
LEMMA Division ==
  ASSUME NEW crc \in SUBSET Bits, NEW data \in SUBSET Byte
  PROVE  crc_updateChecksum(crc, data) = Divide(crc, data)
<1>0. \A k : (k \in data) \in BOOLEAN
  OBVIOUS
<1>1. PICK r1 \in SUBSET Bits : r1 = Shift(crc, 0 \in data) /\ ShiftsTo(crc, ~(0 \in data <=> 0 \in crc), r1)
  BY <1>0, StepWritten
<1>2. PICK r2 \in SUBSET Bits : r2 = Shift(r1, 1 \in data) /\ ShiftsTo(r1, ~(1 \in data <=> 0 \in r1), r2)
  BY <1>0, StepWritten
<1>3. PICK r3 \in SUBSET Bits : r3 = Shift(r2, 2 \in data) /\ ShiftsTo(r2, ~(2 \in data <=> 0 \in r2), r3)
  BY <1>0, StepWritten
<1>4. PICK r4 \in SUBSET Bits : r4 = Shift(r3, 3 \in data) /\ ShiftsTo(r3, ~(3 \in data <=> 0 \in r3), r4)
  BY <1>0, StepWritten
<1>5. PICK r5 \in SUBSET Bits : r5 = Shift(r4, 4 \in data) /\ ShiftsTo(r4, ~(4 \in data <=> 0 \in r4), r5)
  BY <1>0, StepWritten
<1>6. PICK r6 \in SUBSET Bits : r6 = Shift(r5, 5 \in data) /\ ShiftsTo(r5, ~(5 \in data <=> 0 \in r5), r6)
  BY <1>0, StepWritten
<1>7. PICK r7 \in SUBSET Bits : r7 = Shift(r6, 6 \in data) /\ ShiftsTo(r6, ~(6 \in data <=> 0 \in r6), r7)
  BY <1>0, StepWritten
<1>8. PICK r8 \in SUBSET Bits : r8 = Shift(r7, 7 \in data) /\ ShiftsTo(r7, ~(7 \in data <=> 0 \in r7), r8)
  BY <1>0, StepWritten
<1>9. Divide(crc, data) = r8
  BY <1>1, <1>2, <1>3, <1>4, <1>5, <1>6, <1>7, <1>8 DEF Divide
<1>10. PICK tmp, new : /\ new \in SUBSET Bits /\ new = crc_updateChecksum(crc, data)
                       /\ UpdatesTo(crc, data, tmp, new)
  BY UpdateWritten
<1>11. SameBits(new, r8)
  BY SMTT(60), <1>1, <1>2, <1>3, <1>4, <1>5, <1>6, <1>7, <1>8, <1>10 DEF ShiftsTo, UpdatesTo, SameBits
<1>12. new = r8
  BY <1>10, <1>11, BitsEqual
<1> QED BY <1>9, <1>10, <1>12

-----------------------------------------------------------------------------
(* Damage.  The difference of two values is again updated by               *)
(* crc_updateChecksum, with the difference of the bytes, and is only       *)
(* cancelled by a byte equal to it.                                        *)

\* The difference of two updated values is the updated difference, whatever the
\* values and the bytes.
LEMMA Linear ==
  ASSUME NEW crc \in SUBSET Bits, NEW dam \in SUBSET Bits,
         NEW b \in SUBSET Byte, NEW e \in SUBSET Byte
  PROVE  SymDiff(crc_updateChecksum(crc, b), crc_updateChecksum(dam, e))
           = crc_updateChecksum(SymDiff(crc, dam), SymDiff(b, e))
<1>1. PICK d \in SUBSET Bits : d = SymDiff(crc, dam) /\ \A k : k \in d <=> ~(k \in crc <=> k \in dam)
  BY XorBits
<1>2. PICK x \in SUBSET Byte : x = SymDiff(b, e) /\ \A k : k \in x <=> ~(k \in b <=> k \in e)
  BY XorBits
<1>3. PICK t1, n1 : n1 = crc_updateChecksum(crc, b) /\ n1 \in SUBSET Bits /\ UpdatesTo(crc, b, t1, n1)
  BY UpdateWritten
<1>4. PICK t2, n2 : n2 = crc_updateChecksum(dam, e) /\ n2 \in SUBSET Bits /\ UpdatesTo(dam, e, t2, n2)
  BY UpdateWritten
<1>5. PICK t3, n3 : n3 = crc_updateChecksum(d, x) /\ n3 \in SUBSET Bits /\ UpdatesTo(d, x, t3, n3)
  BY UpdateWritten
<1>6. PICK n \in SUBSET Bits : n = SymDiff(n1, n2) /\ \A k : k \in n <=> ~(k \in n1 <=> k \in n2)
  BY <1>3, <1>4, XorBits
<1>7. SameBits(n, n3)
  BY SMTT(60), <1>1, <1>2, <1>3, <1>4, <1>5, <1>6 DEF UpdatesTo, SameBits
<1>8. n = n3
  BY <1>5, <1>6, <1>7, BitsEqual
<1> QED BY <1>1, <1>2, <1>3, <1>4, <1>5, <1>6, <1>8

\* The value becomes zero by a byte equal to it and by no other.
LEMMA Cancels ==
  ASSUME NEW d \in SUBSET Bits, NEW x \in SUBSET Byte
  PROVE  crc_updateChecksum(d, x) = {} <=> d = x
<1>1. PICK t, n : n = crc_updateChecksum(d, x) /\ n \in SUBSET Bits /\ UpdatesTo(d, x, t, n)
  BY UpdateWritten
<1>2. x \in SUBSET Bits /\ \A k \in 8 .. 15 : k \notin x
  BY DEF Bits, Byte
<1>3. ASSUME n = {} PROVE d = x
  <2>1. SameBits(d, x)
    BY <1>1, <1>2, <1>3 DEF UpdatesTo, SameBits
  <2> QED BY <1>2, <2>1, BitsEqual
<1>4. ASSUME d = x PROVE n = {}
  <2>1. SameBits(n, {})
    BY <1>1, <1>2, <1>4 DEF UpdatesTo, SameBits
  <2> QED BY <1>1, <2>1, BitsEqual
<1> QED BY <1>1, <1>3, <1>4

\* What a byte leaves in the value, no byte alone can cancel.
LEMMA Spreads ==
  ASSUME NEW x \in SUBSET Byte, crc_updateChecksum({}, x) \in SUBSET Byte
  PROVE  x = {}
<1>1. PICK t, n : n = crc_updateChecksum({}, x) /\ UpdatesTo({}, x, t, n)
  BY UpdateWritten
<1>2. \A k \in 8 .. 15 : k \notin n /\ k \notin x
  BY <1>1 DEF Byte
<1>3. SameBits(x, {})
  BY <1>1, <1>2 DEF UpdatesTo, SameBits
<1>4. x \in SUBSET Bits
  BY DEF Byte, Bits
<1> QED BY <1>3, <1>4, BitsEqual

\* The difference of the two values: none before the damage, one that a byte
\* made right after the first damaged byte, and some from then on.
Difference == SymDiff(crcValue, damaged)
SumTypes ==
  /\ crcValue \in SUBSET Bits /\ damaged \in SUBSET Bits /\ register \in SUBSET Bits
  /\ done \in BOOLEAN /\ len \in Nat /\ errors \in [count : Nat, last : Nat]
Differs ==
  /\ errors.count = 0 => Difference = {}
  /\ errors.count > 0 => Difference # {} /\ errors.last <= len
  /\ errors.count = 1 /\ errors.last = len =>
       \E x \in SUBSET Byte : x # {} /\ Difference = crc_updateChecksum({}, x)
SumInv == SumTypes /\ IsCrc16 /\ Differs

\* crc_startChecksum: no difference, and what the division starts with.
LEMMA ChecksumStart == ChecksumInit => SumInv
<1> SUFFICES ASSUME ChecksumInit PROVE SumInv
  OBVIOUS
<1>1. crcValue = Bits /\ damaged = Bits /\ Difference = {}
  BY DEF ChecksumInit, crc_startChecksum, Difference, SymDiff
<1>2. register = Bits /\ done = FALSE /\ len = 0 /\ errors = [count |-> 0, last |-> 0]
  BY DEF ChecksumInit
<1>3. SumTypes
  BY <1>1, <1>2 DEF SumTypes
<1>4. IsCrc16
  BY <1>1, <1>2 DEF IsCrc16
<1>5. Differs
  BY <1>1, <1>2 DEF Differs
<1> QED BY <1>3, <1>4, <1>5 DEF SumInv

\* One more byte: both values, and the difference, are updated.
LEMMA SumStep ==
  ASSUME SumInv, NEW b \in SUBSET Byte, NEW e \in SUBSET Byte, Sum(b, e),
         errors' \in [count : Nat, last : Nat]
  PROVE  /\ SumTypes' /\ IsCrc16'
         /\ Difference' = crc_updateChecksum(Difference, SymDiff(b, e))
         /\ Difference \in SUBSET Bits /\ SymDiff(b, e) \in SUBSET Byte
<1>1. /\ crcValue \in SUBSET Bits /\ damaged \in SUBSET Bits /\ register \in SUBSET Bits
      /\ len \in Nat /\ done = FALSE /\ crcValue = register
  BY DEF SumInv, SumTypes, IsCrc16, Sum
<1>2. /\ crcValue' = crc_updateChecksum(crcValue, b) /\ damaged' = crc_updateChecksum(damaged, e)
      /\ register' = Divide(register, b) /\ len' = len + 1 /\ done' = FALSE
  BY <1>1 DEF Sum
<1>3. crcValue' \in SUBSET Bits /\ damaged' \in SUBSET Bits /\ register' = crcValue'
  BY <1>1, <1>2, UpdateWritten, Division
<1>4. SumTypes' /\ IsCrc16'
  <2>1. SumTypes'
    <3>1. register' \in SUBSET Bits /\ len' \in Nat
      BY <1>1, <1>2, <1>3
    <3>2. done' \in BOOLEAN
      BY <1>2, Zenon
    <3> QED BY <1>3, <3>1, <3>2 DEF SumTypes
  <2>2. (crcValue \union damaged)' \subseteq Bits
    BY <1>3
  <2> QED BY <1>2, <1>3, <2>1, <2>2 DEF IsCrc16
<1>5. Difference' = crc_updateChecksum(Difference, SymDiff(b, e))
  BY <1>1, <1>2, Linear DEF Difference
<1>6. Difference \in SUBSET Bits /\ SymDiff(b, e) \in SUBSET Byte
  BY <1>1, XorBits DEF Difference
<1> QED BY <1>4, <1>5, <1>6

\* Undamaged bytes keep a difference.
LEMMA SameStep ==
  ASSUME SumInv, NEW b \in SUBSET Byte, Same(b)
  PROVE  SumInv'
<1>1. errors' = errors /\ len' = len + 1 /\ Sum(b, b)
  BY DEF Same, Sum
<1>2. errors \in [count : Nat, last : Nat] /\ len \in Nat
  BY DEF SumInv, SumTypes
<1>3. SymDiff(b, b) = {}
  BY DEF SymDiff
<1>4. /\ SumTypes' /\ IsCrc16' /\ Difference \in SUBSET Bits
      /\ Difference' = crc_updateChecksum(Difference, {})
  BY <1>1, <1>2, <1>3, SumStep
<1>5. Difference' = {} <=> Difference = {}
  BY <1>4, Cancels
<1>6. Differs'
  BY <1>1, <1>2, <1>5 DEF SumInv, Differs
<1> QED BY <1>4, <1>6 DEF SumInv

\* A first damaged byte makes a difference; the next one does not cancel it.
LEMMA DamageStep ==
  ASSUME SumInv, NEW b \in SUBSET Byte, NEW e \in SUBSET Byte, Damage(b, e)
  PROVE  SumInv'
<1> DEFINE x == SymDiff(b, e)
<1>1. /\ errors' = [count |-> errors.count + 1, last |-> len'] /\ len' = len + 1
      /\ b # e /\ Sum(b, e)
      /\ errors.count = 0 \/ (errors.count = 1 /\ errors.last = len)
  BY DEF Damage, Sum
<1>2. errors \in [count : Nat, last : Nat] /\ len \in Nat
  BY DEF SumInv, SumTypes
<1>3. errors' \in [count : Nat, last : Nat]
  BY <1>1, <1>2
<1>4. x # {}
  BY <1>1 DEF SymDiff
<1>5. /\ SumTypes' /\ IsCrc16' /\ Difference \in SUBSET Bits /\ x \in SUBSET Byte
      /\ Difference' = crc_updateChecksum(Difference, x)
  BY <1>1, <1>3, SumStep
<1> HIDE DEF x
<1>6. CASE errors.count = 0
  <2>1. Difference = {}
    BY <1>6 DEF SumInv, Differs
  <2>2. Difference' # {}
    BY <1>4, <1>5, <2>1, Cancels
  <2>3. errors'.count = 1 /\ errors'.last = len'
    BY <1>1, <1>6
  <2>4. Differs'
    BY <1>1, <1>2, <1>4, <1>5, <2>1, <2>2, <2>3 DEF Differs
  <2> QED BY <1>5, <2>4 DEF SumInv
<1>7. CASE errors.count = 1 /\ errors.last = len
  <2>1. PICK y \in SUBSET Byte : y # {} /\ Difference = crc_updateChecksum({}, y)
    BY <1>7 DEF SumInv, Differs
  <2>2. Difference' # {}
    <3>1. SUFFICES ASSUME Difference' = {} PROVE FALSE
      OBVIOUS
    <3>2. Difference = x
      BY <1>5, <3>1, Cancels
    <3> QED BY <1>5, <2>1, <3>2, Spreads
  <2>3. errors'.count = 2 /\ errors'.last = len'
    BY <1>1, <1>7
  <2>4. Differs'
    BY <1>1, <1>2, <2>2, <2>3 DEF Differs
  <2> QED BY <1>5, <2>4 DEF SumInv
<1> QED BY <1>1, <1>6, <1>7

\* SumInv holds always; crc_endChecksum inverts both values and so keeps their
\* difference.
LEMMA SumInvariance == ChecksumSpec => []SumInv
<1>1. SumInv /\ [ChecksumNext]_checksumVars => SumInv'
  <2> SUFFICES ASSUME SumInv, [ChecksumNext]_checksumVars PROVE SumInv'
    OBVIOUS
  <2>1. CASE End
    <3>1. /\ crcValue' = SymDiff(crcValue, Bits) /\ damaged' = SymDiff(damaged, Bits)
          /\ done' = TRUE /\ done = FALSE /\ UNCHANGED <<register, len, errors>>
      BY <2>1 DEF End, crc_endChecksum
    <3>2. /\ crcValue \in SUBSET Bits /\ damaged \in SUBSET Bits /\ register = crcValue
      BY <3>1 DEF SumInv, SumTypes, IsCrc16
    <3>3. crcValue' = Bits \ crcValue /\ damaged' = Bits \ damaged
      BY <3>1, <3>2 DEF SymDiff
    <3>4. Difference' = Difference
      BY <3>2, <3>3 DEF Difference, SymDiff
    <3>5. SumTypes' /\ IsCrc16'
      BY <3>1, <3>2, <3>3 DEF SumInv, SumTypes, IsCrc16
    <3>6. Differs'
      BY <3>1, <3>4 DEF SumInv, Differs
    <3> QED BY <3>5, <3>6 DEF SumInv
  <2>2. ASSUME NEW b \in Bytes, Same(b) PROVE SumInv'
    BY <2>2, SameStep, ChecksumAssumption
  <2>3. ASSUME NEW b \in Bytes, NEW e \in Bytes, Damage(b, e) PROVE SumInv'
    BY <2>3, DamageStep, ChecksumAssumption
  <2>4. CASE UNCHANGED checksumVars
    BY <2>4 DEF checksumVars, SumInv, SumTypes, IsCrc16, Differs, Difference
  <2> QED BY <2>1, <2>2, <2>3, <2>4 DEF ChecksumNext
<1> QED BY <1>1, ChecksumStart, PTL DEF ChecksumSpec

\* Whatever the bytes of an image and however many: the shifts of
\* crc_updateChecksum compute the CRC-16 of their division, in 16 bits.
THEOREM ChecksumCorrect == ChecksumSpec => []IsCrc16
<1>1. SumInv => IsCrc16
  BY DEF SumInv
<1> QED BY <1>1, SumInvariance, PTL

\* And an image with one damaged byte, or two neighbouring ones, never has the
\* checksum of the undamaged one (upgrade_firmware_phase compares them).
THEOREM DamageNoticed == ChecksumSpec => []Noticed
<1>1. SumInv => Noticed
  BY DEF SumInv, SumTypes, Differs, Difference, Noticed, SymDiff
<1> QED BY <1>1, SumInvariance, PTL
=============================================================================
