--------------------------- MODULE McuBootProofs ---------------------------
(***************************************************************************)
(* Proofs about McuBoot, for every image size, retry limit, index width,   *)
(* channel bound and budget: with prompt or slow answers its types, the    *)
(* agreement of the ESP's phase with its flash and the labelling of the    *)
(* packages; when answers are prompt or nothing is lost or refused, the    *)
(* delivery of the image, and that the protocol implements Install.        *)
(***************************************************************************)
EXTENDS McuBoot, SequenceTheorems, TLAPS

\* The inductive invariant adds what RAM holds while the ESP is off, how far
\* the counters of each phase can be, and that no record that was completely
\* saved asks for an upgrade in a later status than "none".
Details ==
  /\ ~up => boot_status = "idle" /\ ~is_mcu_in_boot /\ protocol_step = "idle"
  /\ boot_status = "connect" => boot_connect_cnt <= BOOT_CONNECT_CNT
  /\ boot_status = "send" => resend_try <= 1
  /\ protocol_step = "wait_recv" => send_cmd \in Requests
  /\ flash.magic /\ flash.is_need_upgrade => flash.upgrade_status = "none"

IInv == TypeOK /\ PhaseRecorded /\ PackageLabel /\ Details

-----------------------------------------------------------------------------
(* Sequences of messages.                                                  *)

\* What is left of a wire when its first n messages are read.
LEMMA SuffixIndex ==
  ASSUME NEW M, NEW s \in Seq(M), NEW n \in 1 .. Len(s), NEW b, b = SubSeq(s, n + 1, Len(s))
  PROVE  Len(b) = Len(s) - n /\ DOMAIN b = 1 .. Len(s) - n /\ \A j \in 1 .. Len(s) - n : b[j] = s[n + j]
<1>1. Len(s) \in Nat /\ \A i \in n + 1 .. Len(s) : s[i] \in M
  BY LenProperties
<1>2. /\ b \in Seq(M)
      /\ Len(b) = IF n + 1 <= Len(s) THEN Len(s) - (n + 1) + 1 ELSE 0
      /\ \A j \in 1 .. Len(s) - (n + 1) + 1 : b[j] = s[n + 1 + j - 1]
  <2>1. n + 1 \in Int /\ Len(s) \in Int
    BY <1>1
  <2> QED BY <1>1, <2>1, SubSeqProperties
<1>3. Len(b) = Len(s) - n
  BY <1>1, <1>2
<1>4. \A j \in 1 .. Len(s) - n : b[j] = s[n + j]
  BY <1>1, <1>2
<1> QED BY <1>2, <1>3, <1>4, LenProperties

\* A wire without one of its messages is the wire with a gap closed.
LEMMA WithoutIndex ==
  ASSUME NEW M, NEW s \in Seq(M), NEW i \in DOMAIN s
  PROVE  /\ DOMAIN Without(s, i) = 1 .. Len(s) - 1
         /\ \A j \in 1 .. Len(s) - 1 :
              Without(s, i)[j] = IF j < i THEN s[j] ELSE s[j + 1]
<1> DEFINE a == SubSeq(s, 1, i - 1)
           b == SubSeq(s, i + 1, Len(s))
<1>1. i \in 1 .. Len(s) /\ Len(s) \in Nat
  BY LenProperties
<1>2. a \in Seq(M) /\ Len(a) = i - 1 /\ \A j \in 1 .. i - 1 : a[j] = s[j]
  BY <1>1, SubSeqProperties, LenProperties
<1>3. /\ b \in Seq(M) /\ Len(b) = Len(s) - i
      /\ \A j \in 1 .. Len(s) - i : b[j] = s[i + j]
  BY <1>1, SubSeqProperties, LenProperties
<1> HIDE DEF a, b
<1>4. /\ a \o b \in Seq(M) /\ Len(a \o b) = Len(s) - 1
      /\ \A j \in 1 .. Len(s) - 1 : (a \o b)[j] = IF j <= i - 1 THEN a[j] ELSE b[j - (i - 1)]
  BY <1>1, <1>2, <1>3, ConcatProperties
<1>5. DOMAIN (a \o b) = 1 .. Len(s) - 1
  BY <1>4, LenProperties
<1>6. ASSUME NEW j \in 1 .. Len(s) - 1
      PROVE  (a \o b)[j] = IF j < i THEN s[j] ELSE s[j + 1]
  <2>1. CASE j < i
    BY <1>1, <1>2, <1>4, <2>1
  <2>2. CASE ~(j < i)
    <3>1. j - (i - 1) \in 1 .. Len(s) - i /\ i + (j - (i - 1)) = j + 1
      BY <1>1, <2>2
    <3>2. (a \o b)[j] = b[j - (i - 1)]
      BY <1>1, <1>4, <2>2
    <3>3. b[j - (i - 1)] = s[i + (j - (i - 1))]
      BY <1>3, <3>1
    <3> QED BY <2>2, <3>1, <3>2, <3>3
  <2> QED BY <2>1, <2>2
<1> QED BY <1>5, <1>6 DEF Without, a, b

\* Sending, receiving and losing messages keep the type of a wire.
LEMMA WireTypes ==
  ASSUME NEW M, NEW s \in Seq(M)
  PROVE  /\ \A m \in M : Append(s, m) \in Seq(M)
         /\ s # <<>> => Tail(s) \in Seq(M) /\ Head(s) \in M
         /\ \A n \in 1 .. Len(s) : SubSeq(s, n + 1, Len(s)) \in Seq(M)
         /\ \A i \in DOMAIN s : Without(s, i) \in Seq(M)
<1>1. \A m \in M : Append(s, m) \in Seq(M)
  BY AppendProperties
<1>2. s # <<>> => Tail(s) \in Seq(M) /\ Head(s) \in M
  BY HeadTailProperties
<1>3. \A n \in 1 .. Len(s) : SubSeq(s, n + 1, Len(s)) \in Seq(M)
  BY SubSeqProperties, LenProperties
<1>4. ASSUME NEW i \in DOMAIN s
      PROVE  Without(s, i) \in Seq(M)
  <2>1. SubSeq(s, 1, i - 1) \in Seq(M) /\ SubSeq(s, i + 1, Len(s)) \in Seq(M)
    BY SubSeqProperties, LenProperties
  <2> QED BY <2>1, ConcatProperties DEF Without
<1> QED BY <1>1, <1>2, <1>3, <1>4

\* They also keep the labels of the packages on it.
LEMMA WireLabels ==
  ASSUME NEW M, NEW s \in Seq(M), Labelled(s)
  PROVE  /\ \A m : (m.type = "update_aprom" => m.index = (m.off + 1) % IndexMod)
                     => Labelled(Append(s, m))
         /\ s # <<>> => Labelled(Tail(s))
         /\ \A i \in DOMAIN s : Labelled(Without(s, i))
<1>1. ASSUME NEW m, m.type = "update_aprom" => m.index = (m.off + 1) % IndexMod
      PROVE  Labelled(Append(s, m))
  BY <1>1, LenProperties DEF Labelled
<1>2. ASSUME s # <<>>
      PROVE  Labelled(Tail(s))
  BY <1>2, LenProperties DEF Labelled
<1>3. ASSUME NEW i \in DOMAIN s
      PROVE  Labelled(Without(s, i))
  <2>1. /\ DOMAIN Without(s, i) = 1 .. Len(s) - 1
        /\ \A j \in 1 .. Len(s) - 1 : Without(s, i)[j] = IF j < i THEN s[j] ELSE s[j + 1]
    BY WithoutIndex
  <2>2. \A j \in 1 .. Len(s) - 1 : j \in DOMAIN s /\ j + 1 \in DOMAIN s
    BY LenProperties
  <2> QED BY <2>1, <2>2 DEF Labelled
<1> QED BY <1>1, <1>2, <1>3

\* The messages the two sides send are messages of their wire.
LEMMA MessageTypes ==
  /\ \A t \in ToMcuTypes : Msg(t) \in Messages(ToMcuTypes) /\ Msg(t).type = t
  /\ \A t \in ToEspTypes, ok \in BOOLEAN :
       Msg(t) \in Messages(ToEspTypes) /\ Reply(t, ok) \in Messages(ToEspTypes)
  /\ \A i, k \in Nat : /\ PackageMsg(i, k) \in Messages(ToMcuTypes)
                       /\ PackageMsg(i, k).index = i /\ PackageMsg(i, k).off = k
  /\ "update_aprom" \in ToMcuTypes /\ "connect" \in ToMcuTypes
  /\ "run_aprom" \in ToMcuTypes /\ AppCmds \subseteq ToMcuTypes
  BY DEF Messages, Msg, Reply, PackageMsg, ToMcuTypes, ToEspTypes, AppCmds, Requests

\* An index field is a number.
LEMMA IndexType == \A i \in Nat : i % IndexMod \in Nat
  BY McuBootAssumption

\* The records that are saved, and the phase each of them tells.
LEMMA InfoTypes ==
  ASSUME mcu_boot_info \in InfoType, flash \in InfoType
  PROVE  /\ NeedInfo \in InfoType /\ NeedInfo.magic
         /\ NeedInfo.is_need_upgrade /\ NeedInfo.upgrade_status = "none"
         /\ ForcedInfo \in InfoType /\ ForcedInfo.magic
         /\ ForcedInfo.is_need_upgrade /\ ForcedInfo.upgrade_status = "none"
         /\ ClearedInfo \in InfoType /\ ClearedInfo.magic /\ ~ClearedInfo.is_need_upgrade
         /\ SuccessInfo \in InfoType /\ SuccessInfo.magic /\ ~SuccessInfo.is_need_upgrade
         /\ TimeoutInfo \in InfoType /\ TimeoutInfo.magic /\ ~TimeoutInfo.is_need_upgrade
         /\ ConnectedInfo \in InfoType /\ ConnectedInfo.magic
         /\ ~ConnectedInfo.is_need_upgrade /\ ConnectedInfo.upgrade_status = "process"
         /\ DoneInfo \in InfoType /\ DoneInfo.magic
         /\ ~DoneInfo.is_need_upgrade /\ DoneInfo.upgrade_status = "done"
         /\ SizedInfo \in InfoType /\ SizedInfo.magic
         /\ SizedInfo.is_need_upgrade = mcu_boot_info.is_need_upgrade
         /\ SizedInfo.upgrade_status = mcu_boot_info.upgrade_status
         /\ ErasedInfo \in InfoType /\ ~ErasedInfo.magic
         /\ BlankInfo \in InfoType
<1>1. \A need \in BOOLEAN, status \in {"none", "process", "done"} :
        LET info == WithFlags(need, status)
        IN  /\ info \in InfoType /\ info.magic
            /\ info.is_need_upgrade = need /\ info.upgrade_status = status
  BY DEF InfoType, WithFlags
<1>2. /\ SizedInfo \in InfoType /\ SizedInfo.magic
      /\ SizedInfo.is_need_upgrade = mcu_boot_info.is_need_upgrade
      /\ SizedInfo.upgrade_status = mcu_boot_info.upgrade_status
  BY McuBootAssumption DEF InfoType, SizedInfo
<1>3. /\ NeedInfo \in InfoType /\ NeedInfo.magic
      /\ NeedInfo.is_need_upgrade /\ NeedInfo.upgrade_status = "none"
  BY <1>1 DEF NeedInfo
<1>4. /\ ForcedInfo \in InfoType /\ ForcedInfo.magic
      /\ ForcedInfo.is_need_upgrade /\ ForcedInfo.upgrade_status = "none"
  BY <1>3, McuBootAssumption DEF InfoType, ForcedInfo
<1>5. ClearedInfo \in InfoType /\ ClearedInfo.magic /\ ~ClearedInfo.is_need_upgrade
  BY DEF InfoType, ClearedInfo
<1>6. ErasedInfo \in InfoType /\ ~ErasedInfo.magic /\ BlankInfo \in InfoType
  BY McuBootAssumption DEF InfoType, ErasedInfo, BlankInfo
<1>7. /\ SuccessInfo \in InfoType /\ SuccessInfo.magic /\ ~SuccessInfo.is_need_upgrade
      /\ TimeoutInfo \in InfoType /\ TimeoutInfo.magic /\ ~TimeoutInfo.is_need_upgrade
  BY <1>1 DEF SuccessInfo, TimeoutInfo
<1>8. /\ ConnectedInfo \in InfoType /\ ConnectedInfo.magic
      /\ ~ConnectedInfo.is_need_upgrade /\ ConnectedInfo.upgrade_status = "process"
      /\ DoneInfo \in InfoType /\ DoneInfo.magic
      /\ ~DoneInfo.is_need_upgrade /\ DoneInfo.upgrade_status = "done"
  BY <1>1 DEF ConnectedInfo, DoneInfo
<1> QED BY <1>2, <1>3, <1>4, <1>5, <1>6, <1>7, <1>8

\* What the ESP sends keeps the type and the labels of the wire to the MCU.
LEMMA SendKeeps ==
  ASSUME toMcu \in Seq(Messages(ToMcuTypes)), Labelled(toMcu)
  PROVE  /\ \A t \in ToMcuTypes \ {"update_aprom"} :
              /\ Append(toMcu, Msg(t)) \in Seq(Messages(ToMcuTypes))
              /\ Labelled(Append(toMcu, Msg(t)))
         /\ \A k \in Nat :
              LET m == PackageMsg((k + 1) % IndexMod, k)
              IN  /\ Append(toMcu, m) \in Seq(Messages(ToMcuTypes))
                  /\ Labelled(Append(toMcu, m))
<1>1. ASSUME NEW t \in ToMcuTypes \ {"update_aprom"}
      PROVE  /\ Append(toMcu, Msg(t)) \in Seq(Messages(ToMcuTypes))
             /\ Labelled(Append(toMcu, Msg(t)))
  BY MessageTypes, WireTypes, WireLabels
<1>2. ASSUME NEW k \in Nat, NEW m, m = PackageMsg((k + 1) % IndexMod, k)
      PROVE  /\ Append(toMcu, m) \in Seq(Messages(ToMcuTypes))
             /\ Labelled(Append(toMcu, m))
  <2>1. (k + 1) % IndexMod \in Nat
    <3>1. k + 1 \in Nat
      OBVIOUS
    <3> QED BY <3>1, IndexType
  <2>2. m \in Messages(ToMcuTypes) /\ m.index = (m.off + 1) % IndexMod
    BY <1>2, <2>1, MessageTypes
  <2> QED BY <2>2, WireTypes, WireLabels
<1> QED BY <1>1, <1>2

\* What the ESP takes from its wire leaves a wire of the same type.
LEMMA ReadKeeps ==
  ASSUME toEsp \in Seq(Messages(ToEspTypes)), toEsp # <<>>
  PROVE  /\ Tail(toEsp) \in Seq(Messages(ToEspTypes))
         /\ ReadChunk => toEsp' \in Seq(Messages(ToEspTypes))
         /\ Advance \in {0, 1}
  BY WireTypes DEF ReadChunk, Advance

\* What the MCU answers leaves both wires with their types and labels.
LEMMA AnswerKeeps ==
  ASSUME toMcu \in Seq(Messages(ToMcuTypes)), toEsp \in Seq(Messages(ToEspTypes)),
         Labelled(toMcu), toMcu # <<>>,
         NEW t \in ToEspTypes, NEW ok \in BOOLEAN,
         Answer(Msg(t)) \/ Answer(Reply(t, ok))
  PROVE  /\ toMcu' \in Seq(Messages(ToMcuTypes)) /\ Labelled(toMcu')
         /\ toEsp' \in Seq(Messages(ToEspTypes))
<1>1. Msg(t) \in Messages(ToEspTypes) /\ Reply(t, ok) \in Messages(ToEspTypes)
  BY MessageTypes
<1>2. toMcu' = Tail(toMcu) /\ \E m \in Messages(ToEspTypes) : toEsp' = Append(toEsp, m)
  BY <1>1 DEF Answer
<1> QED BY <1>2, WireTypes, WireLabels

-----------------------------------------------------------------------------
(* The invariant.                                                          *)

LEMMA InitInv == Init => IInv
<1> SUFFICES ASSUME Init PROVE IInv
  OBVIOUS
<1>1. flash \in InfoType /\ mcu_boot_info \in InfoType
  BY McuBootAssumption DEF Init, InfoType, ErasedInfo, BlankInfo
<1>2. mcu \in [mode : {"app", "boot"}, erased : BOOLEAN, got : SUBSET Nat]
  BY DEF Init
<1>3. /\ toMcu \in Seq(Messages(ToMcuTypes)) /\ toEsp \in Seq(Messages(ToEspTypes))
      /\ left \in BudgetType
      /\ boot_connect_cnt \in 0 .. BOOT_CONNECT_CNT + 1
      /\ resend_try \in 0 .. RETRY_CNT /\ protocol_resend_try \in 0 .. RETRY_CNT
  BY McuBootAssumption DEF Init
<1>4. PackageLabel
  BY DEF Init, PackageLabel, Labelled
<1>5. TypeOK
  BY <1>1, <1>2, <1>3 DEF Init, TypeOK
<1> QED BY <1>4, <1>5 DEF Init, IInv, PhaseRecorded, Details, ErasedInfo

\* A restart keeps the invariant, whatever well-formed record the flash is
\* left with.
LEMMA RestartInv ==
  ASSUME IInv, SpendCrash, Restart, UNCHANGED <<toMcu, mcu>>,
         flash' \in InfoType,
         flash'.magic /\ flash'.is_need_upgrade => flash'.upgrade_status = "none"
  PROVE  IInv'
<1>1. BlankInfo \in InfoType
  BY InfoTypes DEF IInv, TypeOK
<1>2. TypeOK'
  <2>0. left' \in BudgetType
    <3>1. left.crash - 1 \in Nat
      BY DEF IInv, TypeOK, SpendCrash, BudgetType
    <3> QED BY <3>1 DEF IInv, TypeOK, SpendCrash, BudgetType
  <2>1. /\ toEsp' \in Seq(Messages(ToEspTypes))
        /\ boot_connect_cnt' \in 0 .. BOOT_CONNECT_CNT + 1
        /\ resend_try' \in 0 .. RETRY_CNT /\ protocol_resend_try' \in 0 .. RETRY_CNT
    BY McuBootAssumption DEF Restart
  <2> QED BY <1>1, <2>0, <2>1 DEF IInv, TypeOK, Restart
<1>3. PackageLabel'
  BY DEF IInv, PackageLabel, Restart
<1> QED BY <1>2, <1>3 DEF IInv, Restart, PhaseRecorded, Details

\* Every step keeps the invariant: for each action, what it leaves on the
\* wires, then the four parts of the invariant.
LEMMA NextInv == IInv /\ [Next]_vars => IInv'
<1> SUFFICES ASSUME IInv, [Next]_vars PROVE IInv'
  OBVIOUS
<1> USE DEF IInv
<1> DEFINE WiresOK == /\ toMcu \in Seq(Messages(ToMcuTypes)) /\ Labelled(toMcu)
                      /\ toEsp \in Seq(Messages(ToEspTypes))
<1>t. /\ WiresOK
      /\ mcu_boot_info \in InfoType /\ flash \in InfoType
      /\ firmware_offset \in Nat /\ firmware_package_index \in Nat
      /\ left \in BudgetType
      /\ mcu \in [mode : {"app", "boot"}, erased : BOOLEAN, got : SUBSET Nat]
  BY DEF TypeOK, PackageLabel
<1>s. /\ \A t \in {"connect", "run_aprom", "ready", "upgrade", "status"} :
           /\ Append(toMcu, Msg(t)) \in Seq(Messages(ToMcuTypes))
           /\ Labelled(Append(toMcu, Msg(t)))
      /\ \A k \in Nat :
           /\ Append(toMcu, PackageMsg((k + 1) % IndexMod, k)) \in Seq(Messages(ToMcuTypes))
           /\ Labelled(Append(toMcu, PackageMsg((k + 1) % IndexMod, k)))
  BY <1>t, SendKeeps DEF ToMcuTypes, AppCmds, Requests
<1>1. CASE BootCorrupt
  <2>1. WiresOK'
    BY <1>1, <1>t DEF BootCorrupt, Booting, ClearInfo, SetBootInfo, infoVars, bootVars, transferVars, protocolVars, upgradeVars, wires, espVars
  <2>2. TypeOK'
    BY <2>1, <1>1, <1>t, InfoTypes, McuBootAssumption
       DEF TypeOK, Details, Requests, AppCmds, BootCorrupt, Booting, ClearInfo, SetBootInfo, infoVars, bootVars, transferVars, protocolVars, upgradeVars, wires, espVars
  <2>3. PhaseRecorded'
    BY <1>1, <1>t, InfoTypes DEF PhaseRecorded, Details, BootCorrupt, Booting, ClearInfo, SetBootInfo, infoVars, bootVars, transferVars, protocolVars, upgradeVars, wires, espVars
  <2>4. PackageLabel'
    BY <2>1, <1>1, <1>t, McuBootAssumption DEF PackageLabel, Details, BootCorrupt, Booting, ClearInfo, SetBootInfo, infoVars, bootVars, transferVars, protocolVars, upgradeVars, wires, espVars
  <2>5. Details'
    BY <2>1, <1>1, <1>t, InfoTypes, McuBootAssumption
       DEF Details, PhaseRecorded, Requests, TypeOK, BootCorrupt, Booting, ClearInfo, SetBootInfo, infoVars, bootVars, transferVars, protocolVars, upgradeVars, wires, espVars
  <2> QED BY <2>2, <2>3, <2>4, <2>5
<1>2. CASE BootKeyPressed
  <2>1. WiresOK'
    BY <1>2, <1>t DEF BootKeyPressed, Booting, ClearInfo, SetBootInfo, infoVars, bootVars, transferVars, protocolVars, upgradeVars, wires, espVars
  <2>2. TypeOK'
    BY <2>1, <1>2, <1>t, InfoTypes, McuBootAssumption
       DEF TypeOK, Details, Requests, AppCmds, BootKeyPressed, Booting, ClearInfo, SetBootInfo, infoVars, bootVars, transferVars, protocolVars, upgradeVars, wires, espVars
  <2>3. PhaseRecorded'
    BY <1>2, <1>t, InfoTypes DEF PhaseRecorded, Details, BootKeyPressed, Booting, ClearInfo, SetBootInfo, infoVars, bootVars, transferVars, protocolVars, upgradeVars, wires, espVars
  <2>4. PackageLabel'
    BY <2>1, <1>2, <1>t, McuBootAssumption DEF PackageLabel, Details, BootKeyPressed, Booting, ClearInfo, SetBootInfo, infoVars, bootVars, transferVars, protocolVars, upgradeVars, wires, espVars
  <2>5. Details'
    BY <2>1, <1>2, <1>t, InfoTypes, McuBootAssumption
       DEF Details, PhaseRecorded, Requests, TypeOK, BootKeyPressed, Booting, ClearInfo, SetBootInfo, infoVars, bootVars, transferVars, protocolVars, upgradeVars, wires, espVars
  <2> QED BY <2>2, <2>3, <2>4, <2>5
<1>3. CASE BootResume
  <2>a. \/ \E cmd \in {"upgrade", "status"} :
             /\ toMcu' = Append(toMcu, Msg(cmd)) /\ send_cmd' = cmd
             /\ protocol_step' = "wait_recv" /\ UNCHANGED protocol_resend_try
        \/ UNCHANGED <<toMcu, protocolVars>>
    BY <1>3 DEF BootResume, Booting, Details, ProtocolSend, protocolVars
  <2>b. \/ SetInBoot /\ flash.is_need_upgrade
        \/ UNCHANGED bootVars /\ ~flash.is_need_upgrade
    BY <1>3 DEF BootResume
  <2>e. boot_connect_cnt' \in 0 .. BOOT_CONNECT_CNT + 1
    BY <2>b, McuBootAssumption DEF SetInBoot, bootVars, TypeOK
  <2>g. /\ ~up /\ up' /\ toEsp' = <<>> /\ flash.magic /\ mcu_boot_info' = flash
        /\ UNCHANGED <<flash, transferVars, upgradeVars, mcu, left>>
    BY <1>3 DEF BootResume, Booting
  <2>1. WiresOK'
    <3>1. toMcu' \in Seq(Messages(ToMcuTypes)) /\ Labelled(toMcu')
      BY <1>t, <1>s, <2>a
    <3>2. toEsp' \in Seq(Messages(ToEspTypes))
      BY <2>g
    <3> QED BY <3>1, <3>2
  <2>2. TypeOK'
    <3>1. /\ protocol_step' \in {"idle", "wait_recv"} /\ send_cmd' \in AppCmds \union {"none"}
          /\ protocol_resend_try' \in 0 .. RETRY_CNT
      BY <2>a DEF TypeOK, Requests, AppCmds, protocolVars
    <3>2. is_mcu_in_boot' \in BOOLEAN /\ boot_status' \in {"idle", "connect", "send"}
      BY <2>b DEF TypeOK, SetInBoot, bootVars
    <3>3. flash' \in InfoType /\ mcu_boot_info' \in InfoType /\ up' \in BOOLEAN
      BY <2>g DEF TypeOK
    <3> QED BY <2>1, <2>e, <2>g, <3>1, <3>2, <3>3 DEF TypeOK, transferVars, upgradeVars
  <2>3. PhaseRecorded'
    BY <2>1, <1>t, <2>a, <2>b, <2>e, <2>g DEF PhaseRecorded, Details, SetInBoot, infoVars, bootVars, transferVars, protocolVars, upgradeVars, wires, espVars
  <2>4. PackageLabel'
    BY <2>1, <1>t, <2>a, <2>b, <2>e, <2>g, McuBootAssumption DEF PackageLabel, Details, SetInBoot, infoVars, bootVars, transferVars, protocolVars, upgradeVars, wires, espVars
  <2>5. Details'
    BY <2>1, <1>t, <2>a, <2>b, <2>e, <2>g, InfoTypes, McuBootAssumption
       DEF Details, PhaseRecorded, Requests, TypeOK, SetInBoot, infoVars, bootVars, transferVars, protocolVars, upgradeVars, wires, espVars
  <2> QED BY <2>2, <2>3, <2>4, <2>5
<1>4. CASE RecvConnect
  <2>1. WiresOK'
    BY <1>4, <1>t, <1>s, ReadKeeps DEF RecvConnect, ConnectAccepted, LinkHead, SetBootInfo, SendPackage, infoVars, bootVars, transferVars, protocolVars, upgradeVars, wires, espVars
  <2>2. TypeOK'
    BY <2>1, <1>4, <1>t, InfoTypes, McuBootAssumption
       DEF TypeOK, Details, Requests, AppCmds, RecvConnect, ConnectAccepted, LinkHead, SetBootInfo, SendPackage, infoVars, bootVars, transferVars, protocolVars, upgradeVars, wires, espVars
  <2>3. PhaseRecorded'
    BY <1>4, <1>t, InfoTypes DEF PhaseRecorded, Details, RecvConnect, ConnectAccepted, LinkHead, SetBootInfo, SendPackage, infoVars, bootVars, transferVars, protocolVars, upgradeVars, wires, espVars
  <2>4. PackageLabel'
    BY <2>1, <1>4, <1>t, McuBootAssumption DEF PackageLabel, Details, RecvConnect, ConnectAccepted, LinkHead, SetBootInfo, SendPackage, infoVars, bootVars, transferVars, protocolVars, upgradeVars, wires, espVars
  <2>5. Details'
    BY <2>1, <1>4, <1>t, InfoTypes, McuBootAssumption
       DEF Details, PhaseRecorded, Requests, TypeOK, RecvConnect, ConnectAccepted, LinkHead, SetBootInfo, SendPackage, infoVars, bootVars, transferVars, protocolVars, upgradeVars, wires, espVars
  <2> QED BY <2>2, <2>3, <2>4, <2>5
<1>5. CASE RecvPackageAnswer
  <2>a. Advance \in {0, 1}
    BY DEF Advance
  <2>b. firmware_offset' \in Nat /\ firmware_package_index' = firmware_offset' + 1
    BY <1>5, <1>t, <2>a DEF RecvPackageAnswer, PackageAnswered, PackageLabel
  <2>1. WiresOK'
    BY <1>5, <1>t, <1>s, <2>b, ReadKeeps DEF RecvPackageAnswer, PackageAnswered, LinkHead, ImageSent, SendPackage, infoVars, bootVars, transferVars, protocolVars, upgradeVars, wires, espVars
  <2>2. TypeOK'
    BY <2>1, <1>5, <1>t, <2>a, <2>b, InfoTypes, McuBootAssumption
       DEF TypeOK, Details, Requests, AppCmds, RecvPackageAnswer, PackageAnswered, LinkHead, ImageSent, SendPackage, infoVars, bootVars, transferVars, protocolVars, upgradeVars, wires, espVars
  <2>3. PhaseRecorded'
    BY <1>5, <1>t, InfoTypes DEF PhaseRecorded, Details, RecvPackageAnswer, PackageAnswered, LinkHead, ImageSent, SendPackage, infoVars, bootVars, transferVars, protocolVars, upgradeVars, wires, espVars
  <2>4. PackageLabel'
    BY <2>1, <1>5, <1>t, <2>a, <2>b, McuBootAssumption DEF PackageLabel, Details, RecvPackageAnswer, PackageAnswered, LinkHead, ImageSent, SendPackage, infoVars, bootVars, transferVars, protocolVars, upgradeVars, wires, espVars
  <2>5. Details'
    BY <2>1, <1>5, <1>t, <2>a, <2>b, InfoTypes, McuBootAssumption
       DEF Details, PhaseRecorded, Requests, TypeOK, RecvPackageAnswer, PackageAnswered, LinkHead, ImageSent, SendPackage, infoVars, bootVars, transferVars, protocolVars, upgradeVars, wires, espVars
  <2> QED BY <2>2, <2>3, <2>4, <2>5
<1>6. CASE RecvLastAnswer
  <2>1. WiresOK'
    BY <1>6, <1>t, <1>s, ReadKeeps DEF RecvLastAnswer, PackageAnswered, LinkHead, ImageSent, SetBootInfo, infoVars, bootVars, transferVars, protocolVars, upgradeVars, wires, espVars
  <2>a. Advance \in {0, 1}
    BY DEF Advance
  <2>2. TypeOK'
    BY <2>1, <1>6, <1>t, <2>a, InfoTypes, McuBootAssumption
       DEF TypeOK, Details, Requests, AppCmds, RecvLastAnswer, PackageAnswered, LinkHead, ImageSent, SetBootInfo, infoVars, bootVars, transferVars, protocolVars, upgradeVars, wires, espVars
  <2>3. PhaseRecorded'
    BY <1>6, <1>t, InfoTypes DEF PhaseRecorded, Details, RecvLastAnswer, PackageAnswered, LinkHead, ImageSent, SetBootInfo, infoVars, bootVars, transferVars, protocolVars, upgradeVars, wires, espVars
  <2>4. PackageLabel'
    BY <2>1, <1>6, <1>t, <2>a, McuBootAssumption DEF PackageLabel, Details, RecvLastAnswer, PackageAnswered, LinkHead, ImageSent, SetBootInfo, infoVars, bootVars, transferVars, protocolVars, upgradeVars, wires, espVars
  <2>5. Details'
    BY <2>1, <1>6, <1>t, <2>a, InfoTypes, McuBootAssumption
       DEF Details, PhaseRecorded, Requests, TypeOK, RecvLastAnswer, PackageAnswered, LinkHead, ImageSent, SetBootInfo, infoVars, bootVars, transferVars, protocolVars, upgradeVars, wires, espVars
  <2> QED BY <2>2, <2>3, <2>4, <2>5
<1>7. CASE IgnoreLink
  <2>1. WiresOK'
    BY <1>7, <1>t, ReadKeeps DEF IgnoreLink, infoVars, bootVars, transferVars, protocolVars, upgradeVars, wires, espVars
  <2>2. TypeOK'
    BY <2>1, <1>7, <1>t, InfoTypes, McuBootAssumption
       DEF TypeOK, Details, Requests, AppCmds, IgnoreLink, infoVars, bootVars, transferVars, protocolVars, upgradeVars, wires, espVars
  <2>3. PhaseRecorded'
    BY <1>7, <1>t, InfoTypes DEF PhaseRecorded, Details, IgnoreLink, infoVars, bootVars, transferVars, protocolVars, upgradeVars, wires, espVars
  <2>4. PackageLabel'
    BY <2>1, <1>7, <1>t, McuBootAssumption DEF PackageLabel, Details, IgnoreLink, infoVars, bootVars, transferVars, protocolVars, upgradeVars, wires, espVars
  <2>5. Details'
    BY <2>1, <1>7, <1>t, InfoTypes, McuBootAssumption
       DEF Details, PhaseRecorded, Requests, TypeOK, IgnoreLink, infoVars, bootVars, transferVars, protocolVars, upgradeVars, wires, espVars
  <2> QED BY <2>2, <2>3, <2>4, <2>5
<1>8. CASE RecvUpgrade
  <2>1. WiresOK'
    BY <1>8, <1>t, <1>s, ReadKeeps DEF RecvUpgrade, ProtocolHead, SetBootInfo, SetInBoot, infoVars, bootVars, transferVars, protocolVars, upgradeVars, wires, espVars
  <2>2. TypeOK'
    BY <2>1, <1>8, <1>t, InfoTypes, McuBootAssumption
       DEF TypeOK, Details, Requests, AppCmds, RecvUpgrade, ProtocolHead, SetBootInfo, SetInBoot, infoVars, bootVars, transferVars, protocolVars, upgradeVars, wires, espVars
  <2>3. PhaseRecorded'
    BY <1>8, <1>t, InfoTypes DEF PhaseRecorded, Details, RecvUpgrade, ProtocolHead, SetBootInfo, SetInBoot, infoVars, bootVars, transferVars, protocolVars, upgradeVars, wires, espVars
  <2>4. PackageLabel'
    BY <2>1, <1>8, <1>t, McuBootAssumption DEF PackageLabel, Details, RecvUpgrade, ProtocolHead, SetBootInfo, SetInBoot, infoVars, bootVars, transferVars, protocolVars, upgradeVars, wires, espVars
  <2>5. Details'
    BY <2>1, <1>8, <1>t, InfoTypes, McuBootAssumption
       DEF Details, PhaseRecorded, Requests, TypeOK, RecvUpgrade, ProtocolHead, SetBootInfo, SetInBoot, infoVars, bootVars, transferVars, protocolVars, upgradeVars, wires, espVars
  <2> QED BY <2>2, <2>3, <2>4, <2>5
<1>9. CASE RecvStatus
  <2>1. WiresOK'
    BY <1>9, <1>t, ReadKeeps DEF RecvStatus, ProtocolHead, SetBootInfo, infoVars, bootVars, transferVars, protocolVars, upgradeVars, wires, espVars
  <2>2. TypeOK'
    BY <2>1, <1>9, <1>t, InfoTypes, McuBootAssumption
       DEF TypeOK, Details, Requests, AppCmds, RecvStatus, ProtocolHead, SetBootInfo, infoVars, bootVars, transferVars, protocolVars, upgradeVars, wires, espVars
  <2>3. PhaseRecorded'
    BY <1>9, <1>t, InfoTypes DEF PhaseRecorded, Details, RecvStatus, ProtocolHead, SetBootInfo, infoVars, bootVars, transferVars, protocolVars, upgradeVars, wires, espVars
  <2>4. PackageLabel'
    BY <2>1, <1>9, <1>t, McuBootAssumption DEF PackageLabel, Details, RecvStatus, ProtocolHead, SetBootInfo, infoVars, bootVars, transferVars, protocolVars, upgradeVars, wires, espVars
  <2>5. Details'
    BY <2>1, <1>9, <1>t, InfoTypes, McuBootAssumption
       DEF Details, PhaseRecorded, Requests, TypeOK, RecvStatus, ProtocolHead, SetBootInfo, infoVars, bootVars, transferVars, protocolVars, upgradeVars, wires, espVars
  <2> QED BY <2>2, <2>3, <2>4, <2>5
<1>10. CASE IgnoreProtocol
  <2>1. WiresOK'
    BY <1>10, <1>t, ReadKeeps DEF IgnoreProtocol, infoVars, bootVars, transferVars, protocolVars, upgradeVars, wires, espVars
  <2>2. TypeOK'
    BY <2>1, <1>10, <1>t, InfoTypes, McuBootAssumption
       DEF TypeOK, Details, Requests, AppCmds, IgnoreProtocol, infoVars, bootVars, transferVars, protocolVars, upgradeVars, wires, espVars
  <2>3. PhaseRecorded'
    BY <1>10, <1>t, InfoTypes DEF PhaseRecorded, Details, IgnoreProtocol, infoVars, bootVars, transferVars, protocolVars, upgradeVars, wires, espVars
  <2>4. PackageLabel'
    BY <2>1, <1>10, <1>t, McuBootAssumption DEF PackageLabel, Details, IgnoreProtocol, infoVars, bootVars, transferVars, protocolVars, upgradeVars, wires, espVars
  <2>5. Details'
    BY <2>1, <1>10, <1>t, InfoTypes, McuBootAssumption
       DEF Details, PhaseRecorded, Requests, TypeOK, IgnoreProtocol, infoVars, bootVars, transferVars, protocolVars, upgradeVars, wires, espVars
  <2> QED BY <2>2, <2>3, <2>4, <2>5
<1>11. CASE ConnectRetry
  <2>1. WiresOK'
    BY <1>11, <1>t, <1>s DEF ConnectRetry, ConnectExpires, LastConnect, infoVars, bootVars, transferVars, protocolVars, upgradeVars, wires, espVars
  <2>2. TypeOK'
    BY <2>1, <1>11, <1>t, InfoTypes, McuBootAssumption
       DEF TypeOK, Details, Requests, AppCmds, ConnectRetry, ConnectExpires, LastConnect, infoVars, bootVars, transferVars, protocolVars, upgradeVars, wires, espVars
  <2>3. PhaseRecorded'
    BY <1>11, <1>t, InfoTypes DEF PhaseRecorded, Details, ConnectRetry, ConnectExpires, LastConnect, infoVars, bootVars, transferVars, protocolVars, upgradeVars, wires, espVars
  <2>4. PackageLabel'
    BY <2>1, <1>11, <1>t, McuBootAssumption DEF PackageLabel, Details, ConnectRetry, ConnectExpires, LastConnect, infoVars, bootVars, transferVars, protocolVars, upgradeVars, wires, espVars
  <2>5. Details'
    BY <2>1, <1>11, <1>t, InfoTypes, McuBootAssumption
       DEF Details, PhaseRecorded, Requests, TypeOK, ConnectRetry, ConnectExpires, LastConnect, infoVars, bootVars, transferVars, protocolVars, upgradeVars, wires, espVars
  <2> QED BY <2>2, <2>3, <2>4, <2>5
<1>12. CASE ConnectTimeout
  <2>1. WiresOK'
    BY <1>12, <1>t, <1>s DEF ConnectTimeout, ConnectExpires, LastConnect, SetBootInfo, infoVars, bootVars, transferVars, protocolVars, upgradeVars, wires, espVars
  <2>e. boot_connect_cnt' \in 0 .. BOOT_CONNECT_CNT + 1
    BY <1>12, McuBootAssumption DEF ConnectTimeout, ConnectExpires, Details, TypeOK
  <2>f. upgrade_state' \in {"idle", "update_mcu", "update_wifi"}
    BY <1>12 DEF ConnectTimeout, TypeOK
  <2>2. TypeOK'
    BY <2>1, <1>12, <1>t, <2>f, <2>e, InfoTypes, McuBootAssumption
       DEF TypeOK, Details, Requests, AppCmds, ConnectTimeout, ConnectExpires, LastConnect, SetBootInfo, infoVars, bootVars, transferVars, protocolVars, upgradeVars, wires, espVars
  <2>3. PhaseRecorded'
    BY <1>12, <1>t, InfoTypes DEF PhaseRecorded, Details, ConnectTimeout, ConnectExpires, LastConnect, SetBootInfo, infoVars, bootVars, transferVars, protocolVars, upgradeVars, wires, espVars
  <2>4. PackageLabel'
    BY <2>1, <1>12, <1>t, <2>f, <2>e, McuBootAssumption DEF PackageLabel, Details, ConnectTimeout, ConnectExpires, LastConnect, SetBootInfo, infoVars, bootVars, transferVars, protocolVars, upgradeVars, wires, espVars
  <2>5. Details'
    BY <2>1, <1>12, <1>t, <2>f, <2>e, InfoTypes, McuBootAssumption
       DEF Details, PhaseRecorded, Requests, TypeOK, ConnectTimeout, ConnectExpires, LastConnect, SetBootInfo, infoVars, bootVars, transferVars, protocolVars, upgradeVars, wires, espVars
  <2> QED BY <2>2, <2>3, <2>4, <2>5
<1>13. CASE ResendPackage
  <2>b. firmware_offset \in Nat /\ firmware_package_index = firmware_offset + 1
    BY <1>13, <1>t DEF ResendPackage, PackageLabel
  <2>1. WiresOK'
    BY <1>13, <1>t, <1>s, <2>b DEF ResendPackage, infoVars, bootVars, transferVars, protocolVars, upgradeVars, wires, espVars
  <2>2. TypeOK'
    BY <2>1, <1>13, <1>t, <2>b, InfoTypes, McuBootAssumption
       DEF TypeOK, Details, Requests, AppCmds, ResendPackage, infoVars, bootVars, transferVars, protocolVars, upgradeVars, wires, espVars
  <2>3. PhaseRecorded'
    BY <1>13, <1>t, InfoTypes DEF PhaseRecorded, Details, ResendPackage, infoVars, bootVars, transferVars, protocolVars, upgradeVars, wires, espVars
  <2>4. PackageLabel'
    BY <2>1, <1>13, <1>t, <2>b, McuBootAssumption DEF PackageLabel, Details, ResendPackage, infoVars, bootVars, transferVars, protocolVars, upgradeVars, wires, espVars
  <2>5. Details'
    BY <2>1, <1>13, <1>t, <2>b, InfoTypes, McuBootAssumption
       DEF Details, PhaseRecorded, Requests, TypeOK, ResendPackage, infoVars, bootVars, transferVars, protocolVars, upgradeVars, wires, espVars
  <2> QED BY <2>2, <2>3, <2>4, <2>5
<1>14. CASE ProtocolResend
  <2>1. WiresOK'
    BY <1>14, <1>t, <1>s DEF ProtocolResend, AckExpires, infoVars, bootVars, transferVars, protocolVars, upgradeVars, wires, espVars, Details, Requests
  <2>2. TypeOK'
    BY <2>1, <1>14, <1>t, InfoTypes, McuBootAssumption
       DEF TypeOK, Details, Requests, AppCmds, ProtocolResend, AckExpires, infoVars, bootVars, transferVars, protocolVars, upgradeVars, wires, espVars
  <2>3. PhaseRecorded'
    BY <1>14, <1>t, InfoTypes DEF PhaseRecorded, Details, ProtocolResend, AckExpires, infoVars, bootVars, transferVars, protocolVars, upgradeVars, wires, espVars
  <2>4. PackageLabel'
    BY <2>1, <1>14, <1>t, McuBootAssumption DEF PackageLabel, Details, ProtocolResend, AckExpires, infoVars, bootVars, transferVars, protocolVars, upgradeVars, wires, espVars
  <2>5. Details'
    BY <2>1, <1>14, <1>t, InfoTypes, McuBootAssumption
       DEF Details, PhaseRecorded, Requests, TypeOK, ProtocolResend, AckExpires, infoVars, bootVars, transferVars, protocolVars, upgradeVars, wires, espVars
  <2> QED BY <2>2, <2>3, <2>4, <2>5
<1>15. CASE ProtocolTimeout
  <2>1. WiresOK'
    BY <1>15, <1>t DEF ProtocolTimeout, AckExpires, infoVars, bootVars, transferVars, protocolVars, upgradeVars, wires, espVars
  <2>2. TypeOK'
    BY <2>1, <1>15, <1>t, InfoTypes, McuBootAssumption
       DEF TypeOK, Details, Requests, AppCmds, ProtocolTimeout, AckExpires, infoVars, bootVars, transferVars, protocolVars, upgradeVars, wires, espVars
  <2>3. PhaseRecorded'
    BY <1>15, <1>t, InfoTypes DEF PhaseRecorded, Details, ProtocolTimeout, AckExpires, infoVars, bootVars, transferVars, protocolVars, upgradeVars, wires, espVars
  <2>4. PackageLabel'
    BY <2>1, <1>15, <1>t, McuBootAssumption DEF PackageLabel, Details, ProtocolTimeout, AckExpires, infoVars, bootVars, transferVars, protocolVars, upgradeVars, wires, espVars
  <2>5. Details'
    BY <2>1, <1>15, <1>t, InfoTypes, McuBootAssumption
       DEF Details, PhaseRecorded, Requests, TypeOK, ProtocolTimeout, AckExpires, infoVars, bootVars, transferVars, protocolVars, upgradeVars, wires, espVars
  <2> QED BY <2>2, <2>3, <2>4, <2>5
<1>16. CASE UpgradeRequest
  <2>1. WiresOK'
    BY <1>16, <1>t, <1>s DEF UpgradeRequest, Request, SetBootInfo, ProtocolSend, infoVars, bootVars, transferVars, protocolVars, upgradeVars, wires, espVars
  <2>c. left.request - 1 \in Nat
    BY <1>16, <1>t DEF UpgradeRequest, Request, BudgetType
  <2>d. left' \in BudgetType
    BY <1>16, <1>t, <2>c DEF UpgradeRequest, Request, BudgetType
  <2>2. TypeOK'
    BY <2>1, <1>16, <1>t, <2>d, InfoTypes, McuBootAssumption
       DEF TypeOK, Details, Requests, AppCmds, UpgradeRequest, Request, SetBootInfo, ProtocolSend, infoVars, bootVars, transferVars, protocolVars, upgradeVars, wires, espVars
  <2>3. PhaseRecorded'
    BY <1>16, <1>t, InfoTypes DEF PhaseRecorded, Details, UpgradeRequest, Request, SetBootInfo, ProtocolSend, infoVars, bootVars, transferVars, protocolVars, upgradeVars, wires, espVars
  <2>4. PackageLabel'
    BY <2>1, <1>16, <1>t, <2>d, McuBootAssumption DEF PackageLabel, Details, UpgradeRequest, Request, SetBootInfo, ProtocolSend, infoVars, bootVars, transferVars, protocolVars, upgradeVars, wires, espVars
  <2>5. Details'
    BY <2>1, <1>16, <1>t, <2>d, InfoTypes, McuBootAssumption
       DEF Details, PhaseRecorded, Requests, TypeOK, UpgradeRequest, Request, SetBootInfo, ProtocolSend, infoVars, bootVars, transferVars, protocolVars, upgradeVars, wires, espVars
  <2> QED BY <2>2, <2>3, <2>4, <2>5
<1>17. CASE UpgradeForce
  <2>1. WiresOK'
    BY <1>17, <1>t DEF UpgradeForce, Request, SetBootInfo, SetInBoot, infoVars, bootVars, transferVars, protocolVars, upgradeVars, wires, espVars
  <2>e. boot_connect_cnt' \in 0 .. BOOT_CONNECT_CNT + 1
    BY <1>17, McuBootAssumption DEF UpgradeForce, SetInBoot
  <2>c. left.request - 1 \in Nat
    BY <1>17, <1>t DEF UpgradeForce, Request, BudgetType
  <2>d. left' \in BudgetType
    BY <1>17, <1>t, <2>c DEF UpgradeForce, Request, BudgetType
  <2>2. TypeOK'
    BY <2>1, <1>17, <1>t, <2>e, <2>d, InfoTypes, McuBootAssumption
       DEF TypeOK, Details, Requests, AppCmds, UpgradeForce, Request, SetBootInfo, SetInBoot, infoVars, bootVars, transferVars, protocolVars, upgradeVars, wires, espVars
  <2>3. PhaseRecorded'
    BY <1>17, <1>t, InfoTypes DEF PhaseRecorded, Details, UpgradeForce, Request, SetBootInfo, SetInBoot, infoVars, bootVars, transferVars, protocolVars, upgradeVars, wires, espVars
  <2>4. PackageLabel'
    BY <2>1, <1>17, <1>t, <2>e, <2>d, McuBootAssumption DEF PackageLabel, Details, UpgradeForce, Request, SetBootInfo, SetInBoot, infoVars, bootVars, transferVars, protocolVars, upgradeVars, wires, espVars
  <2>5. Details'
    BY <2>1, <1>17, <1>t, <2>e, <2>d, InfoTypes, McuBootAssumption
       DEF Details, PhaseRecorded, Requests, TypeOK, UpgradeForce, Request, SetBootInfo, SetInBoot, infoVars, bootVars, transferVars, protocolVars, upgradeVars, wires, espVars
  <2> QED BY <2>2, <2>3, <2>4, <2>5
<1>18. CASE McuAnswersCommand
  <2>a. toMcu # <<>> /\ Head(toMcu).type \in ToEspTypes /\ Answer(Msg(Head(toMcu).type))
    BY <1>18 DEF McuAnswersCommand, McuHead, ToEspTypes, Requests
  <2>1. WiresOK'
    BY <1>t, <2>a, AnswerKeeps
  <2>2. TypeOK'
    BY <2>1, <1>18, <1>t, InfoTypes, McuBootAssumption
       DEF TypeOK, Details, Requests, AppCmds, McuAnswersCommand, McuHead, infoVars, bootVars, transferVars, protocolVars, upgradeVars, wires, espVars
  <2>3. PhaseRecorded'
    BY <1>18, <1>t, InfoTypes DEF PhaseRecorded, Details, McuAnswersCommand, McuHead, infoVars, bootVars, transferVars, protocolVars, upgradeVars, wires, espVars
  <2>4. PackageLabel'
    BY <2>1, <1>18, <1>t, McuBootAssumption DEF PackageLabel, Details, McuAnswersCommand, McuHead, infoVars, bootVars, transferVars, protocolVars, upgradeVars, wires, espVars
  <2>5. Details'
    BY <2>1, <1>18, <1>t, InfoTypes, McuBootAssumption
       DEF Details, PhaseRecorded, Requests, TypeOK, McuAnswersCommand, McuHead, infoVars, bootVars, transferVars, protocolVars, upgradeVars, wires, espVars
  <2> QED BY <2>2, <2>3, <2>4, <2>5
<1>19. CASE McuEntersBoot
  <2>1. WiresOK'
    BY <1>19, <1>t, WireTypes, WireLabels DEF McuEntersBoot, McuHead, Consume, infoVars, bootVars, transferVars, protocolVars, upgradeVars, wires, espVars
  <2>d. mcu' \in [mode : {"app", "boot"}, erased : BOOLEAN, got : SUBSET Nat]
    BY <1>19, <1>t DEF McuEntersBoot
  <2>2. TypeOK'
    BY <2>1, <1>19, <1>t, <2>d, InfoTypes, McuBootAssumption
       DEF TypeOK, Details, Requests, AppCmds, McuEntersBoot, McuHead, Consume, infoVars, bootVars, transferVars, protocolVars, upgradeVars, wires, espVars
  <2>3. PhaseRecorded'
    BY <1>19, <1>t, InfoTypes DEF PhaseRecorded, Details, McuEntersBoot, McuHead, Consume, infoVars, bootVars, transferVars, protocolVars, upgradeVars, wires, espVars
  <2>4. PackageLabel'
    BY <2>1, <1>19, <1>t, <2>d, McuBootAssumption DEF PackageLabel, Details, McuEntersBoot, McuHead, Consume, infoVars, bootVars, transferVars, protocolVars, upgradeVars, wires, espVars
  <2>5. Details'
    BY <2>1, <1>19, <1>t, <2>d, InfoTypes, McuBootAssumption
       DEF Details, PhaseRecorded, Requests, TypeOK, McuEntersBoot, McuHead, Consume, infoVars, bootVars, transferVars, protocolVars, upgradeVars, wires, espVars
  <2> QED BY <2>2, <2>3, <2>4, <2>5
<1>20. CASE McuAcceptsConnect
  <2>a. toMcu # <<>> /\ "connect" \in ToEspTypes /\ Answer(Msg("connect"))
    BY <1>20 DEF McuAcceptsConnect, McuHead, ToEspTypes, Requests
  <2>1. WiresOK'
    BY <1>t, <2>a, AnswerKeeps
  <2>d. mcu' \in [mode : {"app", "boot"}, erased : BOOLEAN, got : SUBSET Nat]
    BY <1>20, <1>t DEF McuAcceptsConnect
  <2>2. TypeOK'
    BY <2>1, <1>20, <1>t, <2>d, InfoTypes, McuBootAssumption
       DEF TypeOK, Details, Requests, AppCmds, McuAcceptsConnect, McuHead, infoVars, bootVars, transferVars, protocolVars, upgradeVars, wires, espVars
  <2>3. PhaseRecorded'
    BY <1>20, <1>t, InfoTypes DEF PhaseRecorded, Details, McuAcceptsConnect, McuHead, infoVars, bootVars, transferVars, protocolVars, upgradeVars, wires, espVars
  <2>4. PackageLabel'
    BY <2>1, <1>20, <1>t, <2>d, McuBootAssumption DEF PackageLabel, Details, McuAcceptsConnect, McuHead, infoVars, bootVars, transferVars, protocolVars, upgradeVars, wires, espVars
  <2>5. Details'
    BY <2>1, <1>20, <1>t, <2>d, InfoTypes, McuBootAssumption
       DEF Details, PhaseRecorded, Requests, TypeOK, McuAcceptsConnect, McuHead, infoVars, bootVars, transferVars, protocolVars, upgradeVars, wires, espVars
  <2> QED BY <2>2, <2>3, <2>4, <2>5
<1>21. CASE McuProgramsPackage
  <2>a. toMcu # <<>> /\ "update_aprom" \in ToEspTypes /\ Answer(Msg("update_aprom"))
    BY <1>21 DEF McuProgramsPackage, McuHead, ToEspTypes, Requests
  <2>1. WiresOK'
    BY <1>t, <2>a, AnswerKeeps
  <2>c. Head(toMcu).off \in Nat
    <3>1. Head(toMcu) \in Messages(ToMcuTypes)
      BY <1>t, <2>a, WireTypes
    <3> QED BY <3>1 DEF Messages
  <2>d. mcu' \in [mode : {"app", "boot"}, erased : BOOLEAN, got : SUBSET Nat]
    BY <1>21, <1>t, <2>c DEF McuProgramsPackage
  <2>2. TypeOK'
    BY <2>1, <1>21, <1>t, <2>d, InfoTypes, McuBootAssumption
       DEF TypeOK, Details, Requests, AppCmds, McuProgramsPackage, McuHead, infoVars, bootVars, transferVars, protocolVars, upgradeVars, wires, espVars
  <2>3. PhaseRecorded'
    BY <1>21, <1>t, InfoTypes DEF PhaseRecorded, Details, McuProgramsPackage, McuHead, infoVars, bootVars, transferVars, protocolVars, upgradeVars, wires, espVars
  <2>4. PackageLabel'
    BY <2>1, <1>21, <1>t, <2>d, McuBootAssumption DEF PackageLabel, Details, McuProgramsPackage, McuHead, infoVars, bootVars, transferVars, protocolVars, upgradeVars, wires, espVars
  <2>5. Details'
    BY <2>1, <1>21, <1>t, <2>d, InfoTypes, McuBootAssumption
       DEF Details, PhaseRecorded, Requests, TypeOK, McuProgramsPackage, McuHead, infoVars, bootVars, transferVars, protocolVars, upgradeVars, wires, espVars
  <2> QED BY <2>2, <2>3, <2>4, <2>5
<1>22. CASE McuRefuses
  <2>a. toMcu # <<>> /\ Head(toMcu).type \in ToEspTypes /\ Answer(Reply(Head(toMcu).type, FALSE))
    BY <1>22 DEF McuRefuses, McuHead, ToEspTypes, Requests
  <2>1. WiresOK'
    BY <1>t, <2>a, AnswerKeeps
  <2>c. left.nack - 1 \in Nat
    BY <1>22, <1>t DEF McuRefuses, BudgetType
  <2>d. left' \in BudgetType
    BY <1>22, <1>t, <2>c DEF McuRefuses, BudgetType
  <2>2. TypeOK'
    BY <2>1, <1>22, <1>t, <2>d, InfoTypes, McuBootAssumption
       DEF TypeOK, Details, Requests, AppCmds, McuRefuses, McuHead, infoVars, bootVars, transferVars, protocolVars, upgradeVars, wires, espVars
  <2>3. PhaseRecorded'
    BY <1>22, <1>t, InfoTypes DEF PhaseRecorded, Details, McuRefuses, McuHead, infoVars, bootVars, transferVars, protocolVars, upgradeVars, wires, espVars
  <2>4. PackageLabel'
    BY <2>1, <1>22, <1>t, <2>d, McuBootAssumption DEF PackageLabel, Details, McuRefuses, McuHead, infoVars, bootVars, transferVars, protocolVars, upgradeVars, wires, espVars
  <2>5. Details'
    BY <2>1, <1>22, <1>t, <2>d, InfoTypes, McuBootAssumption
       DEF Details, PhaseRecorded, Requests, TypeOK, McuRefuses, McuHead, infoVars, bootVars, transferVars, protocolVars, upgradeVars, wires, espVars
  <2> QED BY <2>2, <2>3, <2>4, <2>5
<1>23. CASE McuRuns
  <2>a. toMcu # <<>> /\ "run_aprom" \in ToEspTypes /\ Answer(Msg("run_aprom"))
    BY <1>23 DEF McuRuns, McuHead, ToEspTypes, Requests
  <2>1. WiresOK'
    BY <1>t, <2>a, AnswerKeeps
  <2>d. mcu' \in [mode : {"app", "boot"}, erased : BOOLEAN, got : SUBSET Nat]
    BY <1>23, <1>t DEF McuRuns
  <2>2. TypeOK'
    BY <2>1, <1>23, <1>t, <2>d, InfoTypes, McuBootAssumption
       DEF TypeOK, Details, Requests, AppCmds, McuRuns, McuHead, infoVars, bootVars, transferVars, protocolVars, upgradeVars, wires, espVars
  <2>3. PhaseRecorded'
    BY <1>23, <1>t, InfoTypes DEF PhaseRecorded, Details, McuRuns, McuHead, infoVars, bootVars, transferVars, protocolVars, upgradeVars, wires, espVars
  <2>4. PackageLabel'
    BY <2>1, <1>23, <1>t, <2>d, McuBootAssumption DEF PackageLabel, Details, McuRuns, McuHead, infoVars, bootVars, transferVars, protocolVars, upgradeVars, wires, espVars
  <2>5. Details'
    BY <2>1, <1>23, <1>t, <2>d, InfoTypes, McuBootAssumption
       DEF Details, PhaseRecorded, Requests, TypeOK, McuRuns, McuHead, infoVars, bootVars, transferVars, protocolVars, upgradeVars, wires, espVars
  <2> QED BY <2>2, <2>3, <2>4, <2>5
<1>24. CASE McuIgnores
  <2>1. WiresOK'
    BY <1>24, <1>t, WireTypes, WireLabels DEF McuIgnores, McuHead, Consume, infoVars, bootVars, transferVars, protocolVars, upgradeVars, wires, espVars
  <2>2. TypeOK'
    BY <2>1, <1>24, <1>t, InfoTypes, McuBootAssumption
       DEF TypeOK, Details, Requests, AppCmds, McuIgnores, McuHead, Consume, infoVars, bootVars, transferVars, protocolVars, upgradeVars, wires, espVars
  <2>3. PhaseRecorded'
    BY <1>24, <1>t, InfoTypes DEF PhaseRecorded, Details, McuIgnores, McuHead, Consume, infoVars, bootVars, transferVars, protocolVars, upgradeVars, wires, espVars
  <2>4. PackageLabel'
    BY <2>1, <1>24, <1>t, McuBootAssumption DEF PackageLabel, Details, McuIgnores, McuHead, Consume, infoVars, bootVars, transferVars, protocolVars, upgradeVars, wires, espVars
  <2>5. Details'
    BY <2>1, <1>24, <1>t, InfoTypes, McuBootAssumption
       DEF Details, PhaseRecorded, Requests, TypeOK, McuIgnores, McuHead, Consume, infoVars, bootVars, transferVars, protocolVars, upgradeVars, wires, espVars
  <2> QED BY <2>2, <2>3, <2>4, <2>5
<1>25. CASE LoseMessage
  <2>1. WiresOK'
    BY <1>25, <1>t, WireTypes, WireLabels DEF LoseMessage, infoVars, bootVars, transferVars, protocolVars, upgradeVars, wires, espVars
  <2>c. left.loss - 1 \in Nat
    BY <1>25, <1>t DEF LoseMessage, BudgetType
  <2>d. left' \in BudgetType
    BY <1>25, <1>t, <2>c DEF LoseMessage, BudgetType
  <2>2. TypeOK'
    BY <2>1, <1>25, <1>t, <2>d, InfoTypes, McuBootAssumption
       DEF TypeOK, Details, Requests, AppCmds, LoseMessage, infoVars, bootVars, transferVars, protocolVars, upgradeVars, wires, espVars
  <2>3. PhaseRecorded'
    BY <1>25, <1>t, InfoTypes DEF PhaseRecorded, Details, LoseMessage, infoVars, bootVars, transferVars, protocolVars, upgradeVars, wires, espVars
  <2>4. PackageLabel'
    BY <2>1, <1>25, <1>t, <2>d, McuBootAssumption DEF PackageLabel, Details, LoseMessage, infoVars, bootVars, transferVars, protocolVars, upgradeVars, wires, espVars
  <2>5. Details'
    BY <2>1, <1>25, <1>t, <2>d, InfoTypes, McuBootAssumption
       DEF Details, PhaseRecorded, Requests, TypeOK, LoseMessage, infoVars, bootVars, transferVars, protocolVars, upgradeVars, wires, espVars
  <2> QED BY <2>2, <2>3, <2>4, <2>5
<1>26. CASE Crash
  BY <1>26, <1>t, RestartInv DEF Crash, Details
<1>27. CASE PowerLossInSave
  BY <1>27, <1>t, RestartInv, InfoTypes
     DEF PowerLossInSave, CutSave, Details, PhaseRecorded, LinkHead,
         ConnectAccepted, PackageAnswered, ProtocolHead, ConnectExpires, CanRequest
<1>28. CASE UNCHANGED vars
  BY <1>28 DEF TypeOK, PhaseRecorded, PackageLabel, Details, vars, infoVars, bootVars, transferVars, protocolVars, upgradeVars, wires, espVars
<1> QED
  BY <1>1, <1>2, <1>3, <1>4, <1>5, <1>6, <1>7, <1>8, <1>9, <1>10, <1>11, <1>12, <1>13, <1>14,
     <1>15, <1>16, <1>17, <1>18, <1>19, <1>20, <1>21, <1>22, <1>23, <1>24, <1>25, <1>26, <1>27, <1>28
     DEF Next, Boot, RecvLink, RecvProtocol, BootTimer, AckTimer, Upgrade, McuWorks, Fault

LEMMA Invariance == Spec => []IInv
<1>1. Init => IInv
  BY InitInv
<1>2. IInv /\ [Next]_vars => IInv'
  BY NextInv
<1> QED BY <1>1, <1>2, PTL DEF Spec

-----------------------------------------------------------------------------
\* Every variable keeps its type: counters within their limits, nothing but
\* messages of the two protocols on the UART.
THEOREM TypeCorrect == Spec => []TypeOK
<1>1. IInv => TypeOK
  BY DEF IInv
<1> QED BY <1>1, Invariance, PTL

\* The flash tells the phase of the session at every point where the ESP can
\* lose its RAM (mcu_boot.c: every handler saves before it acts on the save).
THEOREM PhaseCorrect == Spec => []PhaseRecorded
<1>1. IInv => PhaseRecorded
  BY DEF IInv
<1> QED BY <1>1, Invariance, PTL

\* Index and offset stay in step, on the ESP and on the wire, and the resend
\* limit of mcu_boot_run is never reached.
THEOREM LabelCorrect == Spec => []PackageLabel
<1>1. IInv => PackageLabel
  BY DEF IInv
<1> QED BY <1>1, Invariance, PTL

-----------------------------------------------------------------------------
(* Delivery, with prompt answers.  When the MCU answers before a retry     *)
(* timer of the ESP expires, at most one message of the boot loader's      *)
(* protocol is on the UART, so an answer is to what was sent last.         *)

LinkTypes == {"connect", "update_aprom", "run_aprom"}
On(wire) == {wire[i] : i \in DOMAIN wire}
Links(wire) == {m \in On(wire) : m.type \in LinkTypes}
Alone(wire) == \A i, j \in DOMAIN wire :
                 wire[i].type \in LinkTypes /\ wire[j].type \in LinkTypes => i = j

OneLink == Alone(toMcu) /\ Alone(toEsp) /\ (Links(toMcu) = {} \/ Links(toEsp) = {})

Below(k) == 0 .. k - 1

\* A package on its way follows everything before it into an erased memory,
\* and the command to run follows the whole image.
Ordered ==
  /\ \A m \in On(toMcu) : m.type = "update_aprom" =>
       /\ mcu.erased /\ Below(m.off) \subseteq mcu.got
       /\ boot_status = "send" => m.off = firmware_offset
  /\ \A m \in On(toMcu) : m.type = "run_aprom" => Image \subseteq mcu.got

\* An answer on its way tells what the MCU did.
Truthful ==
  /\ \A m \in On(toEsp) : m.type = "connect" /\ m.ok => mcu.erased
  /\ \A m \in On(toEsp) : m.type = "update_aprom" /\ m.ok /\ boot_status = "send" =>
       firmware_offset \in mcu.got

\* While packages are sent, the offset counts what the MCU has, and nothing is
\* on its way that would erase or restart it.
Counted == boot_status = "send" =>
  /\ mcu.erased /\ Below(firmware_offset) \subseteq mcu.got
  /\ \A m \in On(toMcu) \union On(toEsp) : m.type # "connect"

\* "done" in the flash: the MCU has the image, and nothing will erase it.
Whole == Image \subseteq mcu.got /\ \A m \in On(toMcu) : m.type # "connect"
Kept == flash.upgrade_status = "done" => Whole

Sized == flash.firmware_size >= Packages

Delivery == OneLink /\ Ordered /\ Truthful /\ Counted /\ Kept /\ Sized
DInv == IInv /\ ~left.late /\ Delivery

\* What sending, reading and losing messages leave on a wire.
LEMMA WireContents ==
  ASSUME NEW M, NEW s \in Seq(M)
  PROVE  /\ \A m : On(Append(s, m)) = On(s) \union {m}
         /\ s # <<>> => Head(s) \in On(s) /\ On(Tail(s)) \subseteq On(s)
         /\ \A n \in 1 .. Len(s) : On(SubSeq(s, n + 1, Len(s))) \subseteq On(s)
         /\ \A i \in DOMAIN s : On(Without(s, i)) \subseteq On(s)
<1>0. Len(s) \in Nat /\ DOMAIN s = 1 .. Len(s)
  BY LenProperties
<1>1. ASSUME NEW m
      PROVE  On(Append(s, m)) = On(s) \union {m}
  <2>1. Append(s, m) \in Seq(M \union {m}) /\ Len(Append(s, m)) = Len(s) + 1
        /\ Append(s, m)[Len(s) + 1] = m /\ \A i \in 1 .. Len(s) : Append(s, m)[i] = s[i]
    BY LenProperties, SeqMonotonic, AppendProperties
  <2>2. DOMAIN Append(s, m) = 1 .. Len(s) + 1
    BY <2>1, LenProperties
  <2> QED BY <1>0, <2>1, <2>2 DEF On
<1>2. ASSUME s # <<>>
      PROVE  Head(s) \in On(s) /\ On(Tail(s)) \subseteq On(s)
  <2>1. /\ Len(Tail(s)) = Len(s) - 1 /\ DOMAIN Tail(s) = 1 .. Len(s) - 1
        /\ \A i \in 1 .. Len(s) - 1 : Tail(s)[i] = s[i + 1]
    BY <1>0, <1>2, HeadTailProperties, LenProperties
  <2>2. Len(s) > 0 /\ Head(s) = s[1]
    BY <1>0, <1>2, EmptySeq
  <2> QED BY <1>0, <2>1, <2>2 DEF On
<1>3. ASSUME NEW n \in 1 .. Len(s)
      PROVE  On(SubSeq(s, n + 1, Len(s))) \subseteq On(s)
  <2> SUFFICES ASSUME NEW b, b = SubSeq(s, n + 1, Len(s))
               PROVE  On(b) \subseteq On(s)
    OBVIOUS
  <2>1. Len(b) = Len(s) - n /\ DOMAIN b = 1 .. Len(s) - n /\ \A j \in 1 .. Len(s) - n : b[j] = s[n + j]
    BY SuffixIndex
  <2>2. \A j \in 1 .. Len(s) - n : n + j \in 1 .. Len(s)
    BY <1>0
  <2> QED BY <1>0, <2>1, <2>2 DEF On
<1>4. ASSUME NEW i \in DOMAIN s
      PROVE  On(Without(s, i)) \subseteq On(s)
  <2>1. /\ DOMAIN Without(s, i) = 1 .. Len(s) - 1
        /\ \A j \in 1 .. Len(s) - 1 : Without(s, i)[j] = IF j < i THEN s[j] ELSE s[j + 1]
    BY WithoutIndex
  <2>2. \A j \in 1 .. Len(s) - 1 : j \in DOMAIN s /\ j + 1 \in DOMAIN s
    BY <1>0
  <2> QED BY <2>1, <2>2 DEF On
<1> QED BY <1>1, <1>2, <1>3, <1>4

\* They leave at most one message of the boot loader where there was one.
LEMMA WireAlone ==
  ASSUME NEW M, NEW s \in Seq(M), Alone(s)
  PROVE  /\ \A m : m.type \notin LinkTypes \/ Links(s) = {} => Alone(Append(s, m))
         /\ s # <<>> => /\ Alone(Tail(s))
                        /\ Head(s).type \in LinkTypes => Links(Tail(s)) = {}
         /\ \A n \in 1 .. Len(s) : Alone(SubSeq(s, n + 1, Len(s)))
         /\ \A i \in DOMAIN s : Alone(Without(s, i))
<1>0. Len(s) \in Nat /\ DOMAIN s = 1 .. Len(s)
  BY LenProperties
<1>1. ASSUME NEW m, m.type \notin LinkTypes \/ Links(s) = {}
      PROVE  Alone(Append(s, m))
  <2>1. Append(s, m) \in Seq(M \union {m}) /\ Len(Append(s, m)) = Len(s) + 1
        /\ Append(s, m)[Len(s) + 1] = m /\ \A i \in 1 .. Len(s) : Append(s, m)[i] = s[i]
    BY LenProperties, SeqMonotonic, AppendProperties
  <2>2. DOMAIN Append(s, m) = 1 .. Len(s) + 1
    BY <2>1, LenProperties
  <2>3. Links(s) = {} => \A i \in 1 .. Len(s) : s[i].type \notin LinkTypes
    BY <1>0 DEF Links, On
  <2> QED BY <1>0, <1>1, <2>1, <2>2, <2>3 DEF Alone
<1>2. ASSUME s # <<>>
      PROVE  Alone(Tail(s)) /\ (Head(s).type \in LinkTypes => Links(Tail(s)) = {})
  <2>1. /\ Len(Tail(s)) = Len(s) - 1 /\ DOMAIN Tail(s) = 1 .. Len(s) - 1
        /\ \A i \in 1 .. Len(s) - 1 : Tail(s)[i] = s[i + 1]
    BY <1>0, <1>2, HeadTailProperties, LenProperties
  <2>2. Len(s) > 0 /\ Head(s) = s[1]
    BY <1>0, <1>2, EmptySeq
  <2>3. Alone(Tail(s))
    BY <1>0, <2>1 DEF Alone
  <2>4. \A i \in 1 .. Len(s) - 1 : i + 1 \in DOMAIN s /\ 1 \in DOMAIN s /\ i + 1 # 1
    BY <1>0, <2>2
  <2>5. s[1].type \in LinkTypes => \A i \in 1 .. Len(s) - 1 : s[i + 1].type \notin LinkTypes
    BY <2>4 DEF Alone
  <2> QED BY <2>1, <2>2, <2>3, <2>5 DEF Links, On
<1>3. ASSUME NEW n \in 1 .. Len(s)
      PROVE  Alone(SubSeq(s, n + 1, Len(s)))
  <2> SUFFICES ASSUME NEW b, b = SubSeq(s, n + 1, Len(s))
               PROVE  Alone(b)
    OBVIOUS
  <2>1. Len(b) = Len(s) - n /\ DOMAIN b = 1 .. Len(s) - n /\ \A j \in 1 .. Len(s) - n : b[j] = s[n + j]
    BY SuffixIndex
  <2>2. \A j \in 1 .. Len(s) - n : n + j \in 1 .. Len(s)
    BY <1>0
  <2>3. \A i, j \in 1 .. Len(s) - n : n + i = n + j => i = j
    BY <1>0
  <2>4. ASSUME NEW i \in 1 .. Len(s) - n, NEW j \in 1 .. Len(s) - n,
               b[i].type \in LinkTypes, b[j].type \in LinkTypes
        PROVE  i = j
    <3>1. n + i \in DOMAIN s /\ n + j \in DOMAIN s
      BY <1>0, <2>2
    <3>2. s[n + i].type \in LinkTypes /\ s[n + j].type \in LinkTypes
      BY <2>1, <2>4
    <3>3. n + i = n + j
      BY <3>1, <3>2 DEF Alone
    <3> QED BY <2>3, <3>3
  <2> QED BY <2>1, <2>4 DEF Alone
<1>4. ASSUME NEW i \in DOMAIN s
      PROVE  Alone(Without(s, i))
  <2> DEFINE at(j) == IF j < i THEN j ELSE j + 1
  <2>1. /\ DOMAIN Without(s, i) = 1 .. Len(s) - 1
        /\ \A j \in 1 .. Len(s) - 1 : Without(s, i)[j] = s[at(j)]
    BY WithoutIndex
  <2>2. \A j, k \in 1 .. Len(s) - 1 : at(j) \in DOMAIN s /\ (at(j) = at(k) => j = k)
    BY <1>0
  <2> HIDE DEF at
  <2> QED BY <2>1, <2>2 DEF Alone
<1> QED BY <1>1, <1>2, <1>3, <1>4

\* The set of boot loader messages on a wire follows what is on it.
LEMMA LinkSets ==
  ASSUME NEW s, NEW t
  PROVE  /\ On(t) \subseteq On(s) /\ Links(s) = {} => Links(t) = {}
         /\ \A m : On(t) = On(s) \union {m} /\ m.type \notin LinkTypes /\ Links(s) = {}
                     => Links(t) = {}
         /\ Links(s) = {} <=> \A m \in On(s) : m.type \notin LinkTypes
  BY DEF Links
\* An empty wire.
LEMMA NothingOn == On(<<>>) = {} /\ Links(<<>>) = {} /\ Alone(<<>>)
  BY DEF On, Links, Alone

\* A message sent on an empty wire is alone on it.
LEMMA FirstMessage ==
  ASSUME NEW m
  PROVE  /\ Alone(Append(<<>>, m)) /\ Alone(<<>>) /\ Links(<<>>) = {} /\ On(<<>>) = {}
         /\ On(Append(<<>>, m)) = {m}
<1>1. <<>> \in Seq({})
  BY EmptySeq
<1>2. On(Append(<<>>, m)) = On(<<>>) \union {m}
  BY <1>1, WireContents
<1>3. Alone(Append(<<>>, m))
  BY <1>1, NothingOn, WireAlone
<1> QED BY <1>2, <1>3, NothingOn

\* What a message says.
LEMMA MessageFields ==
  /\ \A t, ok : Msg(t).type = t /\ Msg(t).ok /\ Reply(t, ok).type = t /\ Reply(t, ok).ok = ok
  /\ \A i, k : PackageMsg(i, k).type = "update_aprom" /\ PackageMsg(i, k).off = k
  BY DEF Msg, Reply, PackageMsg

-----------------------------------------------------------------------------
(* Steps that leave the messages of the boot loader alone.                 *)

\* Nothing but a command of the application protocol is new on the wire.
Quieter(s, t) == Alone(t) /\ \A m \in On(t) : m \in On(s) \/ m.type \in AppCmds

LEMMA QuieterWires ==
  ASSUME NEW M, NEW s \in Seq(M), Alone(s)
  PROVE  /\ Quieter(s, s) /\ Quieter(s, <<>>)
         /\ \A cmd \in AppCmds : Quieter(s, Append(s, Msg(cmd)))
         /\ s # <<>> => Quieter(s, Tail(s))
         /\ \A n \in 1 .. Len(s) : Quieter(s, SubSeq(s, n + 1, Len(s)))
         /\ \A i \in DOMAIN s : Quieter(s, Without(s, i))
<1>1. \A cmd \in AppCmds : Msg(cmd).type = cmd /\ cmd \notin LinkTypes
  BY DEF Msg, AppCmds, Requests, LinkTypes
<1>2. Quieter(s, s) /\ Quieter(s, <<>>)
  BY NothingOn DEF Quieter
<1>3. \A cmd \in AppCmds : Quieter(s, Append(s, Msg(cmd)))
  BY <1>1, WireContents, WireAlone DEF Quieter
<1>4. /\ s # <<>> => Quieter(s, Tail(s))
      /\ \A n \in 1 .. Len(s) : Quieter(s, SubSeq(s, n + 1, Len(s)))
      /\ \A i \in DOMAIN s : Quieter(s, Without(s, i))
  BY WireContents, WireAlone DEF Quieter
<1> QED BY <1>2, <1>3, <1>4

\* Such a step, when it neither changes what the MCU programmed nor starts
\* sending or saves "done", keeps the invariant.
LEMMA QuietStep ==
  ASSUME Delivery, Quieter(toMcu, toMcu'), Quieter(toEsp, toEsp'),
         mcu'.got = mcu.got, mcu'.erased = mcu.erased,
         boot_status' = "send" => boot_status = "send" /\ firmware_offset' = firmware_offset,
         flash'.upgrade_status = "done" => flash.upgrade_status = "done" \/ Whole,
         flash'.firmware_size >= Packages
  PROVE  Delivery'
<1> USE DEF Delivery
<1>1. \A m : m.type \in AppCmds => m.type \notin LinkTypes
  BY DEF AppCmds, Requests, LinkTypes
<1>2. OneLink'
  <2>1. /\ Links(toMcu) = {} => Links(toMcu') = {}
        /\ Links(toEsp) = {} => Links(toEsp') = {}
    BY <1>1 DEF Quieter, Links
  <2> QED BY <2>1 DEF OneLink, Quieter
<1>3. \A m : m.type \in LinkTypes =>
        (m \in On(toMcu') => m \in On(toMcu)) /\ (m \in On(toEsp') => m \in On(toEsp))
  BY <1>1 DEF Quieter
<1>4. "connect" \in LinkTypes /\ "update_aprom" \in LinkTypes /\ "run_aprom" \in LinkTypes
  BY DEF LinkTypes
<1>5. Ordered'
  BY <1>3, <1>4 DEF Ordered
<1>6. Truthful'
  BY <1>3, <1>4 DEF Truthful
<1>7. Counted'
  BY <1>3, <1>4 DEF Counted
<1>8. Kept'
  BY <1>3, <1>4 DEF Kept, Whole
<1> QED BY <1>2, <1>5, <1>6, <1>7, <1>8 DEF Sized

\* One message answers the other: it is the only one of the boot loader.
LEMMA Exchange ==
  ASSUME NEW M, NEW N, NEW s \in Seq(M), NEW t \in Seq(N), NEW m,
         Alone(s), Alone(t), Links(s) = {} \/ Links(t) = {},
         s # <<>>, Head(s).type \in LinkTypes
  PROVE  /\ Alone(Tail(s)) /\ Alone(Append(t, m)) /\ Links(Tail(s)) = {}
         /\ \A x \in On(Tail(s)) : x.type \notin LinkTypes
         /\ \A x \in On(Append(t, m)) : x = m \/ x.type \notin LinkTypes
<1>1. Links(s) # {}
  BY WireContents DEF Links
<1>2. Links(t) = {}
  BY <1>1
<1>3. Alone(Tail(s)) /\ Links(Tail(s)) = {} /\ Alone(Append(t, m))
  BY <1>2, WireAlone
<1>4. \A x \in On(t) : x.type \notin LinkTypes
  BY <1>2 DEF Links
<1> QED BY <1>3, <1>4, WireContents DEF Links

\* What is saved keeps the size of an image that was offered.
LEMMA SavedSizes ==
  ASSUME mcu_boot_info \in InfoType, flash \in InfoType
  PROVE  /\ mcu_boot_info.firmware_size >= Packages =>
              \A info \in {NeedInfo, SuccessInfo, ConnectedInfo, DoneInfo, TimeoutInfo} :
                info.firmware_size >= Packages
         /\ flash.firmware_size >= Packages => ClearedInfo.firmware_size >= Packages
         /\ SizedInfo.firmware_size >= Packages /\ ForcedInfo.firmware_size >= Packages
         /\ ErasedInfo.firmware_size >= Packages
         /\ \A info \in {NeedInfo, SuccessInfo, ConnectedInfo, TimeoutInfo,
                         ClearedInfo, ForcedInfo, ErasedInfo} :
              info.upgrade_status # "done"
<1>1. \A need \in BOOLEAN, status \in {"none", "process", "done"} :
        /\ WithFlags(need, status).firmware_size = mcu_boot_info.firmware_size
        /\ WithFlags(need, status).upgrade_status = status
  BY DEF InfoType, WithFlags
<1>2. \A info \in {NeedInfo, SuccessInfo, ConnectedInfo, DoneInfo, TimeoutInfo} :
        info.firmware_size = mcu_boot_info.firmware_size
  BY <1>1 DEF NeedInfo, SuccessInfo, ConnectedInfo, DoneInfo, TimeoutInfo
<1>3. /\ ClearedInfo.firmware_size = flash.firmware_size
      /\ SizedInfo.firmware_size = Packages /\ ErasedInfo.firmware_size = ErasedSize
  BY DEF InfoType, ClearedInfo, SizedInfo, ErasedInfo
<1>4. ForcedInfo.firmware_size = Packages
  BY <1>1 DEF ForcedInfo, NeedInfo, WithFlags, InfoType
<1>5. \A info \in {NeedInfo, SuccessInfo, ConnectedInfo, TimeoutInfo} : info.upgrade_status # "done"
  BY <1>1 DEF NeedInfo, SuccessInfo, ConnectedInfo, TimeoutInfo
<1>6. ClearedInfo.upgrade_status # "done" /\ ErasedInfo.upgrade_status # "done"
  BY DEF InfoType, ClearedInfo, ErasedInfo
<1>7. ForcedInfo.upgrade_status # "done"
  BY InfoTypes
<1> QED BY <1>2, <1>3, <1>4, <1>5, <1>6, <1>7, McuBootAssumption

\* An answer that counts follows the package at the offset: the MCU has
\* everything below the offset it advances to.
LEMMA AnswerCounts ==
  ASSUME DInv, PackageAnswered
  PROVE  /\ Below(firmware_offset + Advance) \subseteq mcu.got
         /\ ImageSent => Whole
<1> USE DEF DInv, Delivery
<1>t. /\ firmware_offset \in Nat /\ mcu_boot_info \in InfoType
      /\ toEsp \in Seq(Messages(ToEspTypes))
  BY DEF IInv, TypeOK
<1>1. /\ up /\ boot_status = "send" /\ Head(toEsp) \in On(toEsp)
      /\ Head(toEsp).type = "update_aprom"
  BY <1>t, WireContents DEF PackageAnswered, LinkHead
<1>2. Head(toEsp).ok => firmware_offset \in mcu.got
  BY <1>1 DEF Truthful
<1>3. Below(firmware_offset) \subseteq mcu.got
  BY <1>1 DEF Counted
<1>4. Below(firmware_offset + Advance) \subseteq mcu.got
  <2>1. CASE Head(toEsp).ok
    <3>1. Below(firmware_offset + Advance) \subseteq Below(firmware_offset) \union {firmware_offset}
      BY <1>t, <2>1 DEF Below, Advance
    <3> QED BY <1>2, <1>3, <2>1, <3>1
  <2>2. CASE ~Head(toEsp).ok
    <3>1. firmware_offset + Advance = firmware_offset
      BY <1>t, <2>2 DEF Advance
    <3> QED BY <1>3, <3>1
  <2> QED BY <2>1, <2>2
<1>5. ASSUME ImageSent
      PROVE  Whole
  <2>1. mcu_boot_info = flash
    BY <1>1 DEF IInv, PhaseRecorded
  <2>2. firmware_offset + Advance >= Packages /\ firmware_offset + Advance \in Nat
    BY <1>t, <1>5, <2>1, McuBootAssumption DEF ImageSent, Sized, InfoType, Advance
  <2>3. Image \subseteq Below(firmware_offset + Advance)
    BY <2>2, McuBootAssumption DEF Image, Below
  <2> QED BY <1>1, <1>4, <2>3 DEF Whole, Counted
<1> QED BY <1>4, <1>5

\* No step makes the MCU late.
LEMMA StaysPrompt ==
  ASSUME left \in BudgetType, ~left.late, [Next]_vars
  PROVE  ~left'.late
<1>1. \A n : /\ ~[left EXCEPT !.request = n].late /\ ~[left EXCEPT !.nack = n].late
             /\ ~[left EXCEPT !.loss = n].late /\ ~[left EXCEPT !.crash = n].late
  BY DEF BudgetType
<1> QED BY <1>1
       DEF Next, vars, Boot, BootCorrupt, BootKeyPressed, BootResume, ClearInfo,
           RecvLink, RecvConnect, RecvPackageAnswer, RecvLastAnswer, IgnoreLink,
           RecvProtocol, RecvUpgrade, RecvStatus, IgnoreProtocol,
           BootTimer, ConnectRetry, ConnectTimeout, ResendPackage,
           AckTimer, ProtocolResend, ProtocolTimeout,
           Upgrade, UpgradeRequest, UpgradeForce, Request,
           McuWorks, McuAnswersCommand, McuEntersBoot, McuAcceptsConnect,
           McuProgramsPackage, McuRuns, McuIgnores, McuRefuses,
           Fault, Crash, PowerLossInSave, CutSave, SpendCrash, LoseMessage

\* A restart leaves the wire to the MCU as it is.
LEMMA RestartDelivers ==
  ASSUME DInv, Restart, UNCHANGED <<toMcu, mcu>>,
         flash'.firmware_size >= Packages,
         flash'.upgrade_status = "done" => flash.upgrade_status = "done" \/ Whole
  PROVE  Delivery'
<1>1. Quieter(toMcu, toMcu') /\ Quieter(toEsp, toEsp')
  BY QuieterWires DEF DInv, IInv, TypeOK, Delivery, OneLink, Restart
<1> QED BY <1>1, QuietStep DEF DInv, Restart

\* Every step keeps the invariant: most leave the messages of the boot loader
\* alone; each of the others answers the only one on the wires, or is a timer
\* that finds them empty.
LEMMA DeliveryStep ==
  ASSUME DInv, [Next]_vars
  PROVE  Delivery'
<1> USE DEF DInv, Delivery
<1>t. /\ mcu_boot_info \in InfoType /\ flash \in InfoType
      /\ toMcu \in Seq(Messages(ToMcuTypes)) /\ toEsp \in Seq(Messages(ToEspTypes))
      /\ firmware_offset \in Nat
      /\ mcu \in [mode : {"app", "boot"}, erased : BOOLEAN, got : SUBSET Nat]
      /\ Alone(toMcu) /\ Alone(toEsp) /\ (Links(toMcu) = {} \/ Links(toEsp) = {})
      /\ flash.firmware_size >= Packages
      /\ up => mcu_boot_info = flash /\ mcu_boot_info.firmware_size >= Packages
      /\ ~up => boot_status = "idle"
  BY DEF IInv, TypeOK, OneLink, Sized, PhaseRecorded, Details
<1>q. /\ Quieter(toMcu, toMcu) /\ Quieter(toEsp, toEsp)
      /\ Quieter(toEsp, <<>>)
      /\ \A cmd \in AppCmds : /\ Quieter(toMcu, Append(toMcu, Msg(cmd)))
                              /\ Quieter(toEsp, Append(toEsp, Msg(cmd)))
      /\ toMcu # <<>> => Quieter(toMcu, Tail(toMcu))
      /\ toEsp # <<>> => Quieter(toEsp, Tail(toEsp))
      /\ \A n \in 1 .. Len(toEsp) : Quieter(toEsp, SubSeq(toEsp, n + 1, Len(toEsp)))
      /\ \A i \in DOMAIN toMcu : Quieter(toMcu, Without(toMcu, i))
      /\ \A i \in DOMAIN toEsp : Quieter(toEsp, Without(toEsp, i))
  BY <1>t, QuieterWires
<1>c. Requests \subseteq AppCmds /\ "ready" \in AppCmds /\ "upgrade" \in AppCmds /\ "status" \in AppCmds
  BY DEF AppCmds, Requests
<1>w. /\ toMcu \in Seq(Messages(ToMcuTypes)) /\ toEsp \in Seq(Messages(ToEspTypes))
      /\ Alone(toMcu) /\ Alone(toEsp) /\ (Links(toMcu) = {} \/ Links(toEsp) = {})
  BY <1>t
<1>l. "connect" \in LinkTypes /\ "update_aprom" \in LinkTypes /\ "run_aprom" \in LinkTypes
  BY DEF LinkTypes
<1>v. /\ \A info \in {NeedInfo, SuccessInfo, ConnectedInfo, DoneInfo, TimeoutInfo} :
           up => info.firmware_size >= Packages
      /\ ClearedInfo.firmware_size >= Packages
      /\ SizedInfo.firmware_size >= Packages /\ ForcedInfo.firmware_size >= Packages
      /\ ErasedInfo.firmware_size >= Packages
      /\ \A info \in {NeedInfo, SuccessInfo, ConnectedInfo, TimeoutInfo,
                      ClearedInfo, ForcedInfo, ErasedInfo} : info.upgrade_status # "done"
      /\ up => SizedInfo.upgrade_status = flash.upgrade_status
  BY <1>t, SavedSizes, InfoTypes
<1>1. CASE BootCorrupt
  <2>1. Quieter(toMcu, toMcu') /\ Quieter(toEsp, toEsp')
    BY <1>1, <1>q, <1>c DEF BootCorrupt, Booting, ClearInfo, SetBootInfo, infoVars, bootVars, transferVars, protocolVars, upgradeVars, wires, espVars
  <2>2. /\ mcu'.got = mcu.got /\ mcu'.erased = mcu.erased
        /\ boot_status' = "send" => boot_status = "send" /\ firmware_offset' = firmware_offset
        /\ flash'.upgrade_status = "done" => flash.upgrade_status = "done" \/ Whole
        /\ flash'.firmware_size >= Packages
    BY <1>1, <1>t, <1>v DEF BootCorrupt, Booting, ClearInfo, SetBootInfo, infoVars, bootVars, transferVars, protocolVars, upgradeVars, wires, espVars
  <2> QED BY <2>1, <2>2, QuietStep
<1>2. CASE BootKeyPressed
  <2>1. Quieter(toMcu, toMcu') /\ Quieter(toEsp, toEsp')
    BY <1>2, <1>q, <1>c DEF BootKeyPressed, Booting, ClearInfo, SetBootInfo, infoVars, bootVars, transferVars, protocolVars, upgradeVars, wires, espVars
  <2>2. /\ mcu'.got = mcu.got /\ mcu'.erased = mcu.erased
        /\ boot_status' = "send" => boot_status = "send" /\ firmware_offset' = firmware_offset
        /\ flash'.upgrade_status = "done" => flash.upgrade_status = "done" \/ Whole
        /\ flash'.firmware_size >= Packages
    BY <1>2, <1>t, <1>v DEF BootKeyPressed, Booting, ClearInfo, SetBootInfo, infoVars, bootVars, transferVars, protocolVars, upgradeVars, wires, espVars
  <2> QED BY <2>1, <2>2, QuietStep
<1>3. CASE BootResume
  <2>1. Quieter(toMcu, toMcu') /\ Quieter(toEsp, toEsp')
    BY <1>3, <1>q, <1>c DEF BootResume, Booting, SetInBoot, ProtocolSend, infoVars, bootVars, transferVars, protocolVars, upgradeVars, wires, espVars
  <2>2. /\ mcu'.got = mcu.got /\ mcu'.erased = mcu.erased
        /\ boot_status' = "send" => boot_status = "send" /\ firmware_offset' = firmware_offset
        /\ flash'.upgrade_status = "done" => flash.upgrade_status = "done" \/ Whole
        /\ flash'.firmware_size >= Packages
    BY <1>3, <1>t, <1>v DEF BootResume, Booting, SetInBoot, ProtocolSend, infoVars, bootVars, transferVars, protocolVars, upgradeVars, wires, espVars
  <2> QED BY <2>1, <2>2, QuietStep
<1>4. CASE IgnoreLink
  <2>1. Quieter(toMcu, toMcu') /\ Quieter(toEsp, toEsp')
    BY <1>4, <1>q, <1>c DEF IgnoreLink, infoVars, bootVars, transferVars, protocolVars, upgradeVars, wires, espVars
  <2>2. /\ mcu'.got = mcu.got /\ mcu'.erased = mcu.erased
        /\ boot_status' = "send" => boot_status = "send" /\ firmware_offset' = firmware_offset
        /\ flash'.upgrade_status = "done" => flash.upgrade_status = "done" \/ Whole
        /\ flash'.firmware_size >= Packages
    BY <1>4, <1>t, <1>v DEF IgnoreLink, infoVars, bootVars, transferVars, protocolVars, upgradeVars, wires, espVars
  <2> QED BY <2>1, <2>2, QuietStep
<1>5. CASE RecvUpgrade
  <2>1. Quieter(toMcu, toMcu') /\ Quieter(toEsp, toEsp')
    BY <1>5, <1>q, <1>c DEF RecvUpgrade, ProtocolHead, ReadChunk, SetBootInfo, SetInBoot, infoVars, bootVars, transferVars, protocolVars, upgradeVars, wires, espVars
  <2>2. /\ mcu'.got = mcu.got /\ mcu'.erased = mcu.erased
        /\ boot_status' = "send" => boot_status = "send" /\ firmware_offset' = firmware_offset
        /\ flash'.upgrade_status = "done" => flash.upgrade_status = "done" \/ Whole
        /\ flash'.firmware_size >= Packages
    BY <1>5, <1>t, <1>v DEF RecvUpgrade, ProtocolHead, ReadChunk, SetBootInfo, SetInBoot, infoVars, bootVars, transferVars, protocolVars, upgradeVars, wires, espVars
  <2> QED BY <2>1, <2>2, QuietStep
<1>6. CASE RecvStatus
  <2>1. Quieter(toMcu, toMcu') /\ Quieter(toEsp, toEsp')
    BY <1>6, <1>q, <1>c DEF RecvStatus, ProtocolHead, ReadChunk, SetBootInfo, infoVars, bootVars, transferVars, protocolVars, upgradeVars, wires, espVars
  <2>2. /\ mcu'.got = mcu.got /\ mcu'.erased = mcu.erased
        /\ boot_status' = "send" => boot_status = "send" /\ firmware_offset' = firmware_offset
        /\ flash'.upgrade_status = "done" => flash.upgrade_status = "done" \/ Whole
        /\ flash'.firmware_size >= Packages
    BY <1>6, <1>t, <1>v DEF RecvStatus, ProtocolHead, ReadChunk, SetBootInfo, infoVars, bootVars, transferVars, protocolVars, upgradeVars, wires, espVars
  <2> QED BY <2>1, <2>2, QuietStep
<1>7. CASE IgnoreProtocol
  <2>1. Quieter(toMcu, toMcu') /\ Quieter(toEsp, toEsp')
    BY <1>7, <1>q, <1>c DEF IgnoreProtocol, infoVars, bootVars, transferVars, protocolVars, upgradeVars, wires, espVars
  <2>2. /\ mcu'.got = mcu.got /\ mcu'.erased = mcu.erased
        /\ boot_status' = "send" => boot_status = "send" /\ firmware_offset' = firmware_offset
        /\ flash'.upgrade_status = "done" => flash.upgrade_status = "done" \/ Whole
        /\ flash'.firmware_size >= Packages
    BY <1>7, <1>t, <1>v DEF IgnoreProtocol, infoVars, bootVars, transferVars, protocolVars, upgradeVars, wires, espVars
  <2> QED BY <2>1, <2>2, QuietStep
<1>8. CASE ProtocolResend
  <2>a. send_cmd \in AppCmds
    BY <1>8, <1>c DEF ProtocolResend, AckExpires, IInv, Details
  <2>1. Quieter(toMcu, toMcu') /\ Quieter(toEsp, toEsp')
    BY <1>8, <1>q, <1>c, <2>a DEF ProtocolResend, AckExpires, infoVars, bootVars, transferVars, protocolVars, upgradeVars, wires, espVars
  <2>2. /\ mcu'.got = mcu.got /\ mcu'.erased = mcu.erased
        /\ boot_status' = "send" => boot_status = "send" /\ firmware_offset' = firmware_offset
        /\ flash'.upgrade_status = "done" => flash.upgrade_status = "done" \/ Whole
        /\ flash'.firmware_size >= Packages
    BY <1>8, <1>t, <1>v, <2>a DEF ProtocolResend, AckExpires, infoVars, bootVars, transferVars, protocolVars, upgradeVars, wires, espVars
  <2> QED BY <2>1, <2>2, QuietStep
<1>9. CASE ProtocolTimeout
  <2>1. Quieter(toMcu, toMcu') /\ Quieter(toEsp, toEsp')
    BY <1>9, <1>q, <1>c DEF ProtocolTimeout, AckExpires, infoVars, bootVars, transferVars, protocolVars, upgradeVars, wires, espVars
  <2>2. /\ mcu'.got = mcu.got /\ mcu'.erased = mcu.erased
        /\ boot_status' = "send" => boot_status = "send" /\ firmware_offset' = firmware_offset
        /\ flash'.upgrade_status = "done" => flash.upgrade_status = "done" \/ Whole
        /\ flash'.firmware_size >= Packages
    BY <1>9, <1>t, <1>v DEF ProtocolTimeout, AckExpires, infoVars, bootVars, transferVars, protocolVars, upgradeVars, wires, espVars
  <2> QED BY <2>1, <2>2, QuietStep
<1>10. CASE UpgradeRequest
  <2>1. Quieter(toMcu, toMcu') /\ Quieter(toEsp, toEsp')
    BY <1>10, <1>q, <1>c DEF UpgradeRequest, Request, SetBootInfo, ProtocolSend, infoVars, bootVars, transferVars, protocolVars, upgradeVars, wires, espVars
  <2>2. /\ mcu'.got = mcu.got /\ mcu'.erased = mcu.erased
        /\ boot_status' = "send" => boot_status = "send" /\ firmware_offset' = firmware_offset
        /\ flash'.upgrade_status = "done" => flash.upgrade_status = "done" \/ Whole
        /\ flash'.firmware_size >= Packages
    BY <1>10, <1>t, <1>v DEF UpgradeRequest, Request, SetBootInfo, ProtocolSend, infoVars, bootVars, transferVars, protocolVars, upgradeVars, wires, espVars
  <2> QED BY <2>1, <2>2, QuietStep
<1>11. CASE UpgradeForce
  <2>1. Quieter(toMcu, toMcu') /\ Quieter(toEsp, toEsp')
    BY <1>11, <1>q, <1>c DEF UpgradeForce, Request, SetBootInfo, SetInBoot, infoVars, bootVars, transferVars, protocolVars, upgradeVars, wires, espVars
  <2>2. /\ mcu'.got = mcu.got /\ mcu'.erased = mcu.erased
        /\ boot_status' = "send" => boot_status = "send" /\ firmware_offset' = firmware_offset
        /\ flash'.upgrade_status = "done" => flash.upgrade_status = "done" \/ Whole
        /\ flash'.firmware_size >= Packages
    BY <1>11, <1>t, <1>v DEF UpgradeForce, Request, SetBootInfo, SetInBoot, infoVars, bootVars, transferVars, protocolVars, upgradeVars, wires, espVars
  <2> QED BY <2>1, <2>2, QuietStep
<1>12. CASE McuAnswersCommand
  <2>1. Quieter(toMcu, toMcu') /\ Quieter(toEsp, toEsp')
    BY <1>12, <1>q, <1>c DEF McuAnswersCommand, McuHead, Answer, infoVars, bootVars, transferVars, protocolVars, upgradeVars, wires, espVars
  <2>2. /\ mcu'.got = mcu.got /\ mcu'.erased = mcu.erased
        /\ boot_status' = "send" => boot_status = "send" /\ firmware_offset' = firmware_offset
        /\ flash'.upgrade_status = "done" => flash.upgrade_status = "done" \/ Whole
        /\ flash'.firmware_size >= Packages
    BY <1>12, <1>t, <1>v DEF McuAnswersCommand, McuHead, Answer, infoVars, bootVars, transferVars, protocolVars, upgradeVars, wires, espVars
  <2> QED BY <2>1, <2>2, QuietStep
<1>13. CASE McuEntersBoot
  <2>1. Quieter(toMcu, toMcu') /\ Quieter(toEsp, toEsp')
    BY <1>13, <1>q, <1>c DEF McuEntersBoot, McuHead, Consume, infoVars, bootVars, transferVars, protocolVars, upgradeVars, wires, espVars
  <2>2. /\ mcu'.got = mcu.got /\ mcu'.erased = mcu.erased
        /\ boot_status' = "send" => boot_status = "send" /\ firmware_offset' = firmware_offset
        /\ flash'.upgrade_status = "done" => flash.upgrade_status = "done" \/ Whole
        /\ flash'.firmware_size >= Packages
    BY <1>13, <1>t, <1>v DEF McuEntersBoot, McuHead, Consume, infoVars, bootVars, transferVars, protocolVars, upgradeVars, wires, espVars
  <2> QED BY <2>1, <2>2, QuietStep
<1>14. CASE McuIgnores
  <2>1. Quieter(toMcu, toMcu') /\ Quieter(toEsp, toEsp')
    BY <1>14, <1>q, <1>c DEF McuIgnores, McuHead, Consume, infoVars, bootVars, transferVars, protocolVars, upgradeVars, wires, espVars
  <2>2. /\ mcu'.got = mcu.got /\ mcu'.erased = mcu.erased
        /\ boot_status' = "send" => boot_status = "send" /\ firmware_offset' = firmware_offset
        /\ flash'.upgrade_status = "done" => flash.upgrade_status = "done" \/ Whole
        /\ flash'.firmware_size >= Packages
    BY <1>14, <1>t, <1>v DEF McuIgnores, McuHead, Consume, infoVars, bootVars, transferVars, protocolVars, upgradeVars, wires, espVars
  <2> QED BY <2>1, <2>2, QuietStep
<1>15. CASE LoseMessage
  <2>1. Quieter(toMcu, toMcu') /\ Quieter(toEsp, toEsp')
    BY <1>15, <1>q, <1>c DEF LoseMessage, infoVars, bootVars, transferVars, protocolVars, upgradeVars, wires, espVars
  <2>2. /\ mcu'.got = mcu.got /\ mcu'.erased = mcu.erased
        /\ boot_status' = "send" => boot_status = "send" /\ firmware_offset' = firmware_offset
        /\ flash'.upgrade_status = "done" => flash.upgrade_status = "done" \/ Whole
        /\ flash'.firmware_size >= Packages
    BY <1>15, <1>t, <1>v DEF LoseMessage, infoVars, bootVars, transferVars, protocolVars, upgradeVars, wires, espVars
  <2> QED BY <2>1, <2>2, QuietStep
<1>16. CASE Crash
  BY <1>16, <1>t, RestartDelivers DEF Crash
<1>17. CASE PowerLossInSave
  <2>1. Restart /\ UNCHANGED <<toMcu, mcu>>
    BY <1>17 DEF PowerLossInSave, CutSave
  <2>2. /\ flash'.firmware_size >= Packages
        /\ flash'.upgrade_status = "done" => flash.upgrade_status = "done" \/ Whole
    <3>1. CASE CutSave(PackageAnswered /\ ImageSent, DoneInfo)
      BY <1>v, <3>1, AnswerCounts DEF CutSave, PackageAnswered, LinkHead
    <3>2. CASE CutSave(CanRequest, SizedInfo)
      BY <1>v, <3>2 DEF CutSave, CanRequest
    <3>3. CASE CutSave(ConnectAccepted, ConnectedInfo)
      BY <1>v, <3>3 DEF CutSave, ConnectAccepted, LinkHead
    <3>4. CASE CutSave(ProtocolHead("upgrade"), NeedInfo) \/ CutSave(ProtocolHead("status"), SuccessInfo)
      BY <1>v, <3>4 DEF CutSave, ProtocolHead
    <3>5. CASE CutSave(ConnectExpires /\ LastConnect, TimeoutInfo)
      BY <1>v, <3>5 DEF CutSave, ConnectExpires
    <3>6. CASE CutSave(CanRequest, ForcedInfo) \/ CutSave(~up, ClearedInfo)
      BY <1>v, <3>6 DEF CutSave
    <3> QED BY <1>17, <3>1, <3>2, <3>3, <3>4, <3>5, <3>6 DEF PowerLossInSave
  <2> QED BY <2>1, <2>2, RestartDelivers
<1>18. CASE RecvConnect
  <2>p. PICK m : m = PackageMsg(1 % IndexMod, 0)
    OBVIOUS
  <2>a. /\ toEsp # <<>> /\ toEsp' = Tail(toEsp) /\ toMcu' = Append(toMcu, m)
        /\ Head(toEsp).type = "connect" /\ Head(toEsp).ok
    BY <1>18, <2>p DEF RecvConnect, ConnectAccepted, LinkHead, SendPackage
  <2>b. Head(toEsp).type \in LinkTypes /\ Head(toEsp) \in On(toEsp)
    BY <1>t, <2>a, WireContents DEF LinkTypes
  <2>x. /\ Alone(toEsp') /\ Alone(toMcu') /\ Links(toEsp') = {}
        /\ \A x \in On(toEsp') : x.type \notin LinkTypes
        /\ \A x \in On(toMcu') : x = m \/ x.type \notin LinkTypes
    <3>1. /\ Alone(Tail(toEsp)) /\ Alone(Append(toMcu, m)) /\ Links(Tail(toEsp)) = {}
          /\ \A x \in On(Tail(toEsp)) : x.type \notin LinkTypes
          /\ \A x \in On(Append(toMcu, m)) : x = m \/ x.type \notin LinkTypes
      BY <1>w, <2>a, <2>b, Exchange
    <3> QED BY <2>a, <3>1
  <2>d. /\ mcu.erased /\ mcu' = mcu /\ firmware_offset' = 0 /\ Below(0) = {} /\ up
        /\ flash' = ConnectedInfo /\ ConnectedInfo.upgrade_status # "done"
        /\ ConnectedInfo.firmware_size >= Packages
    <3>1. mcu.erased
      BY <2>a, <2>b DEF Truthful
    <3>2. Below(0) = {}
      BY DEF Below
    <3>3. up
      BY <1>18 DEF RecvConnect, ConnectAccepted, LinkHead
    <3> QED BY <1>18, <1>v, <3>1, <3>2, <3>3 DEF RecvConnect, SetBootInfo
  <2>m. m.type = "update_aprom" /\ m.off = 0
    BY <2>p, MessageFields
  <2>1. OneLink'
    BY <2>x DEF OneLink
  <2>2. Ordered'
    BY <1>t, <1>l, <2>x, <2>m, <2>d DEF Ordered, Whole
  <2>3. Truthful'
    BY <1>t, <1>l, <2>x, <2>m, <2>d DEF Truthful
  <2>4. Counted'
    BY <1>t, <1>l, <2>x, <2>m, <2>d DEF Counted
  <2>5. Kept'
    BY <1>t, <1>l, <2>x, <2>m, <2>d DEF Kept, Whole
  <2>6. Sized'
    BY <1>t, <1>v, <2>d DEF Sized
  <2> QED BY <2>1, <2>2, <2>3, <2>4, <2>5, <2>6
<1>19. CASE RecvPackageAnswer
  <2>p. PICK m : m = PackageMsg(firmware_package_index' % IndexMod, firmware_offset')
    OBVIOUS
  <2>a. /\ toEsp # <<>> /\ toEsp' = Tail(toEsp) /\ toMcu' = Append(toMcu, m)
        /\ Head(toEsp).type = "update_aprom"
    BY <1>19, <2>p DEF RecvPackageAnswer, PackageAnswered, LinkHead, SendPackage
  <2>b. Head(toEsp).type \in LinkTypes /\ Head(toEsp) \in On(toEsp)
    BY <1>t, <2>a, WireContents DEF LinkTypes
  <2>x. /\ Alone(toEsp') /\ Alone(toMcu') /\ Links(toEsp') = {}
        /\ \A x \in On(toEsp') : x.type \notin LinkTypes
        /\ \A x \in On(toMcu') : x = m \/ x.type \notin LinkTypes
    <3>1. /\ Alone(Tail(toEsp)) /\ Alone(Append(toMcu, m)) /\ Links(Tail(toEsp)) = {}
          /\ \A x \in On(Tail(toEsp)) : x.type \notin LinkTypes
          /\ \A x \in On(Append(toMcu, m)) : x = m \/ x.type \notin LinkTypes
      BY <1>w, <2>a, <2>b, Exchange
    <3> QED BY <2>a, <3>1
  <2>d. /\ mcu.erased /\ mcu' = mcu /\ UNCHANGED <<flash, boot_status>>
        /\ Below(firmware_offset') \subseteq mcu.got
    <3>1. mcu.erased
      BY <1>19 DEF RecvPackageAnswer, PackageAnswered, Counted
    <3>2. Below(firmware_offset + Advance) \subseteq mcu.got
      BY <1>19, AnswerCounts DEF RecvPackageAnswer
    <3> QED BY <1>19, <3>1, <3>2 DEF RecvPackageAnswer, infoVars, bootVars
  <2>m. /\ m.type = "update_aprom"
        /\ m.off = firmware_offset'
    BY <2>p, MessageFields
  <2>1. OneLink'
    BY <2>x DEF OneLink
  <2>2. Ordered'
    BY <1>t, <1>l, <2>x, <2>m, <2>d DEF Ordered, Whole
  <2>3. Truthful'
    BY <1>t, <1>l, <2>x, <2>m, <2>d DEF Truthful
  <2>4. Counted'
    BY <1>t, <1>l, <2>x, <2>m, <2>d DEF Counted
  <2>5. Kept'
    BY <1>t, <1>l, <2>x, <2>m, <2>d DEF Kept, Whole
  <2>6. Sized'
    BY <1>t, <1>v, <2>d DEF Sized
  <2> QED BY <2>1, <2>2, <2>3, <2>4, <2>5, <2>6
<1>20. CASE RecvLastAnswer
  <2>p. PICK m : m = Msg("run_aprom")
    OBVIOUS
  <2>a. /\ toEsp # <<>> /\ toEsp' = Tail(toEsp) /\ toMcu' = Append(toMcu, m)
        /\ Head(toEsp).type = "update_aprom"
    BY <1>20, <2>p DEF RecvLastAnswer, PackageAnswered, LinkHead
  <2>b. Head(toEsp).type \in LinkTypes /\ Head(toEsp) \in On(toEsp)
    BY <1>t, <2>a, WireContents DEF LinkTypes
  <2>x. /\ Alone(toEsp') /\ Alone(toMcu') /\ Links(toEsp') = {}
        /\ \A x \in On(toEsp') : x.type \notin LinkTypes
        /\ \A x \in On(toMcu') : x = m \/ x.type \notin LinkTypes
    <3>1. /\ Alone(Tail(toEsp)) /\ Alone(Append(toMcu, m)) /\ Links(Tail(toEsp)) = {}
          /\ \A x \in On(Tail(toEsp)) : x.type \notin LinkTypes
          /\ \A x \in On(Append(toMcu, m)) : x = m \/ x.type \notin LinkTypes
      BY <1>w, <2>a, <2>b, Exchange
    <3> QED BY <2>a, <3>1
  <2>d. /\ mcu.erased /\ mcu' = mcu /\ UNCHANGED boot_status /\ boot_status = "send" /\ Whole
        /\ Below(firmware_offset') \subseteq mcu.got
        /\ flash'.firmware_size >= Packages
    <3>1. mcu.erased /\ boot_status = "send" /\ up
      BY <1>20 DEF RecvLastAnswer, PackageAnswered, LinkHead, Counted
    <3>2. Below(firmware_offset + Advance) \subseteq mcu.got /\ Whole
      BY <1>20, AnswerCounts DEF RecvLastAnswer
    <3> QED BY <1>20, <1>v, <3>1, <3>2 DEF RecvLastAnswer, SetBootInfo, bootVars
  <2>m. m.type = "run_aprom"
    BY <2>p, MessageFields
  <2>1. OneLink'
    BY <2>x DEF OneLink
  <2>2. Ordered'
    BY <1>t, <1>l, <2>x, <2>m, <2>d DEF Ordered, Whole
  <2>3. Truthful'
    BY <1>t, <1>l, <2>x, <2>m, <2>d DEF Truthful
  <2>4. Counted'
    BY <1>t, <1>l, <2>x, <2>m, <2>d DEF Counted
  <2>5. Kept'
    BY <1>t, <1>l, <2>x, <2>m, <2>d DEF Kept, Whole
  <2>6. Sized'
    BY <1>t, <1>v, <2>d DEF Sized
  <2> QED BY <2>1, <2>2, <2>3, <2>4, <2>5, <2>6
<1>21. CASE ConnectRetry
  <2>p. PICK m : m = Msg("connect")
    OBVIOUS
  <2>a. toMcu = <<>> /\ toEsp = <<>> /\ toMcu' = Append(<<>>, m) /\ toEsp' = <<>>
    BY <1>21, <2>p DEF ConnectRetry, ConnectExpires, TimerExpires, Quiet
  <2>x. /\ Alone(toMcu') /\ Alone(toEsp') /\ Links(toEsp') = {}
        /\ \A x \in On(toEsp') : x.type \notin LinkTypes
        /\ \A x \in On(toMcu') : x = m \/ x.type \notin LinkTypes
    BY <2>a, FirstMessage
  <2>c. flash.upgrade_status # "done" /\ boot_status = "connect" /\ up
    BY <1>21 DEF ConnectRetry, ConnectExpires, IInv, PhaseRecorded
  <2>d. /\ mcu' = mcu /\ flash'.firmware_size >= Packages
        /\ flash'.upgrade_status # "done" /\ boot_status' # "send"
    BY <1>21, <1>t, <2>c DEF ConnectRetry, infoVars
  <2>m. m.type = "connect"
    BY <2>p, MessageFields
  <2>1. OneLink'
    BY <2>x DEF OneLink
  <2>2. Ordered'
    BY <1>t, <1>l, <2>x, <2>m, <2>d DEF Ordered, Whole
  <2>3. Truthful'
    BY <1>t, <1>l, <2>x, <2>m, <2>d DEF Truthful
  <2>4. Counted'
    BY <1>t, <1>l, <2>x, <2>m, <2>d DEF Counted
  <2>5. Kept'
    BY <1>t, <1>l, <2>x, <2>m, <2>d DEF Kept, Whole
  <2>6. Sized'
    BY <1>t, <1>v, <2>d DEF Sized
  <2> QED BY <2>1, <2>2, <2>3, <2>4, <2>5, <2>6
<1>22. CASE ConnectTimeout
  <2>p. PICK m : m = Msg("connect")
    OBVIOUS
  <2>a. toMcu = <<>> /\ toEsp = <<>> /\ toMcu' = Append(<<>>, m) /\ toEsp' = <<>>
    BY <1>22, <2>p DEF ConnectTimeout, ConnectExpires, TimerExpires, Quiet
  <2>x. /\ Alone(toMcu') /\ Alone(toEsp') /\ Links(toEsp') = {}
        /\ \A x \in On(toEsp') : x.type \notin LinkTypes
        /\ \A x \in On(toMcu') : x = m \/ x.type \notin LinkTypes
    BY <2>a, FirstMessage
  <2>c. flash.upgrade_status # "done" /\ boot_status = "connect" /\ up
    BY <1>22 DEF ConnectTimeout, ConnectExpires, IInv, PhaseRecorded
  <2>d. /\ mcu' = mcu /\ flash'.firmware_size >= Packages
        /\ flash'.upgrade_status # "done" /\ boot_status' # "send"
    BY <1>22, <1>v, <2>c DEF ConnectTimeout, SetBootInfo
  <2>m. m.type = "connect"
    BY <2>p, MessageFields
  <2>1. OneLink'
    BY <2>x DEF OneLink
  <2>2. Ordered'
    BY <1>t, <1>l, <2>x, <2>m, <2>d DEF Ordered, Whole
  <2>3. Truthful'
    BY <1>t, <1>l, <2>x, <2>m, <2>d DEF Truthful
  <2>4. Counted'
    BY <1>t, <1>l, <2>x, <2>m, <2>d DEF Counted
  <2>5. Kept'
    BY <1>t, <1>l, <2>x, <2>m, <2>d DEF Kept, Whole
  <2>6. Sized'
    BY <1>t, <1>v, <2>d DEF Sized
  <2> QED BY <2>1, <2>2, <2>3, <2>4, <2>5, <2>6
<1>23. CASE ResendPackage
  <2>p. PICK m : m = PackageMsg(firmware_package_index % IndexMod, firmware_offset)
    OBVIOUS
  <2>a. toMcu = <<>> /\ toEsp = <<>> /\ toMcu' = Append(<<>>, m) /\ toEsp' = <<>>
    BY <1>23, <2>p DEF ResendPackage, TimerExpires, Quiet
  <2>x. /\ Alone(toMcu') /\ Alone(toEsp') /\ Links(toEsp') = {}
        /\ \A x \in On(toEsp') : x.type \notin LinkTypes
        /\ \A x \in On(toMcu') : x = m \/ x.type \notin LinkTypes
    BY <2>a, FirstMessage
  <2>d. /\ mcu' = mcu /\ UNCHANGED <<flash, firmware_offset, boot_status>>
        /\ mcu.erased /\ Below(firmware_offset) \subseteq mcu.got
    BY <1>23 DEF ResendPackage, infoVars, bootVars, Counted
  <2>m. /\ m.type = "update_aprom"
        /\ m.off = firmware_offset
    BY <2>p, MessageFields
  <2>1. OneLink'
    BY <2>x DEF OneLink
  <2>2. Ordered'
    BY <1>t, <1>l, <2>x, <2>m, <2>d DEF Ordered, Whole
  <2>3. Truthful'
    BY <1>t, <1>l, <2>x, <2>m, <2>d DEF Truthful
  <2>4. Counted'
    BY <1>t, <1>l, <2>x, <2>m, <2>d DEF Counted
  <2>5. Kept'
    BY <1>t, <1>l, <2>x, <2>m, <2>d DEF Kept, Whole
  <2>6. Sized'
    BY <1>t, <1>v, <2>d DEF Sized
  <2> QED BY <2>1, <2>2, <2>3, <2>4, <2>5, <2>6
<1>24. CASE McuAcceptsConnect
  <2>p. PICK m : m = Msg("connect")
    OBVIOUS
  <2>a. /\ toMcu # <<>> /\ toMcu' = Tail(toMcu) /\ toEsp' = Append(toEsp, m)
        /\ Head(toMcu).type = "connect"
    BY <1>24, <2>p DEF McuAcceptsConnect, McuHead, Answer
  <2>b. Head(toMcu).type \in LinkTypes /\ Head(toMcu) \in On(toMcu)
    BY <1>t, <2>a, WireContents DEF LinkTypes
  <2>x. /\ Alone(toMcu') /\ Alone(toEsp') /\ Links(toMcu') = {}
        /\ \A x \in On(toMcu') : x.type \notin LinkTypes
        /\ \A x \in On(toEsp') : x = m \/ x.type \notin LinkTypes
    <3>1. /\ Alone(Tail(toMcu)) /\ Alone(Append(toEsp, m)) /\ Links(Tail(toMcu)) = {}
          /\ \A x \in On(Tail(toMcu)) : x.type \notin LinkTypes
          /\ \A x \in On(Append(toEsp, m)) : x = m \/ x.type \notin LinkTypes
      BY <1>w, <2>a, <2>b, Exchange
    <3> QED BY <2>a, <3>1
  <2>d. /\ boot_status' # "send" /\ flash'.upgrade_status # "done" /\ mcu'.erased
        /\ UNCHANGED flash
    BY <1>24, <1>t, <2>a, <2>b DEF McuAcceptsConnect, Counted, Kept, Whole, espVars, bootVars, infoVars
  <2>m. m.type = "connect"
    BY <2>p, MessageFields
  <2>1. OneLink'
    BY <2>x DEF OneLink
  <2>2. Ordered'
    BY <1>t, <1>l, <2>x, <2>m, <2>d DEF Ordered, Whole
  <2>3. Truthful'
    BY <1>t, <1>l, <2>x, <2>m, <2>d DEF Truthful
  <2>4. Counted'
    BY <1>t, <1>l, <2>x, <2>m, <2>d DEF Counted
  <2>5. Kept'
    BY <1>t, <1>l, <2>x, <2>m, <2>d DEF Kept, Whole
  <2>6. Sized'
    BY <1>t, <1>v, <2>d DEF Sized
  <2> QED BY <2>1, <2>2, <2>3, <2>4, <2>5, <2>6
<1>25. CASE McuProgramsPackage
  <2>p. PICK m : m = Msg("update_aprom")
    OBVIOUS
  <2>a. /\ toMcu # <<>> /\ toMcu' = Tail(toMcu) /\ toEsp' = Append(toEsp, m)
        /\ Head(toMcu).type = "update_aprom"
    BY <1>25, <2>p DEF McuProgramsPackage, McuHead, Answer
  <2>b. Head(toMcu).type \in LinkTypes /\ Head(toMcu) \in On(toMcu)
    BY <1>t, <2>a, WireContents DEF LinkTypes
  <2>x. /\ Alone(toMcu') /\ Alone(toEsp') /\ Links(toMcu') = {}
        /\ \A x \in On(toMcu') : x.type \notin LinkTypes
        /\ \A x \in On(toEsp') : x = m \/ x.type \notin LinkTypes
    <3>1. /\ Alone(Tail(toMcu)) /\ Alone(Append(toEsp, m)) /\ Links(Tail(toMcu)) = {}
          /\ \A x \in On(Tail(toMcu)) : x.type \notin LinkTypes
          /\ \A x \in On(Append(toEsp, m)) : x = m \/ x.type \notin LinkTypes
      BY <1>w, <2>a, <2>b, Exchange
    <3> QED BY <2>a, <3>1
  <2>d. /\ UNCHANGED <<flash, boot_status, firmware_offset>>
        /\ mcu'.erased = mcu.erased /\ mcu.got \subseteq mcu'.got
        /\ boot_status = "send" => firmware_offset \in mcu'.got
    <3>1. boot_status = "send" => Head(toMcu).off = firmware_offset
      BY <2>a, <2>b DEF Ordered
    <3> QED BY <1>25, <1>t, <3>1 DEF McuProgramsPackage, espVars, bootVars, infoVars, transferVars
  <2>m. m.type = "update_aprom"
    BY <2>p, MessageFields
  <2>1. OneLink'
    BY <2>x DEF OneLink
  <2>2. Ordered'
    BY <1>t, <1>l, <2>x, <2>m, <2>d DEF Ordered, Whole
  <2>3. Truthful'
    BY <1>t, <1>l, <2>x, <2>m, <2>d DEF Truthful
  <2>4. Counted'
    BY <1>t, <1>l, <2>x, <2>m, <2>d DEF Counted
  <2>5. Kept'
    BY <1>t, <1>l, <2>x, <2>m, <2>d DEF Kept, Whole
  <2>6. Sized'
    BY <1>t, <1>v, <2>d DEF Sized
  <2> QED BY <2>1, <2>2, <2>3, <2>4, <2>5, <2>6
<1>26. CASE McuRefuses
  <2>p. PICK m : m = Reply(Head(toMcu).type, FALSE)
    OBVIOUS
  <2>a. /\ toMcu # <<>> /\ toMcu' = Tail(toMcu) /\ toEsp' = Append(toEsp, m)
        /\ Head(toMcu).type \in {"connect", "update_aprom"}
    BY <1>26, <2>p DEF McuRefuses, McuHead, Answer
  <2>b. Head(toMcu).type \in LinkTypes /\ Head(toMcu) \in On(toMcu)
    BY <1>t, <2>a, WireContents DEF LinkTypes
  <2>x. /\ Alone(toMcu') /\ Alone(toEsp') /\ Links(toMcu') = {}
        /\ \A x \in On(toMcu') : x.type \notin LinkTypes
        /\ \A x \in On(toEsp') : x = m \/ x.type \notin LinkTypes
    <3>1. /\ Alone(Tail(toMcu)) /\ Alone(Append(toEsp, m)) /\ Links(Tail(toMcu)) = {}
          /\ \A x \in On(Tail(toMcu)) : x.type \notin LinkTypes
          /\ \A x \in On(Append(toEsp, m)) : x = m \/ x.type \notin LinkTypes
      BY <1>w, <2>a, <2>b, Exchange
    <3> QED BY <2>a, <3>1
  <2>d. /\ UNCHANGED <<flash, boot_status, firmware_offset, mcu>>
        /\ boot_status = "send" => Head(toMcu).type # "connect"
    BY <1>26, <2>b DEF McuRefuses, Counted, espVars, bootVars, infoVars, transferVars
  <2>m. /\ m.type = Head(toMcu).type
        /\ m.ok = FALSE
    BY <2>p, MessageFields
  <2>1. OneLink'
    BY <2>x DEF OneLink
  <2>2. Ordered'
    BY <1>t, <1>l, <2>x, <2>m, <2>d DEF Ordered, Whole
  <2>3. Truthful'
    BY <1>t, <1>l, <2>x, <2>m, <2>d DEF Truthful
  <2>4. Counted'
    BY <1>t, <1>l, <2>x, <2>m, <2>d DEF Counted
  <2>5. Kept'
    BY <1>t, <1>l, <2>x, <2>m, <2>d DEF Kept, Whole
  <2>6. Sized'
    BY <1>t, <1>v, <2>d DEF Sized
  <2> QED BY <2>1, <2>2, <2>3, <2>4, <2>5, <2>6
<1>27. CASE McuRuns
  <2>p. PICK m : m = Msg("run_aprom")
    OBVIOUS
  <2>a. /\ toMcu # <<>> /\ toMcu' = Tail(toMcu) /\ toEsp' = Append(toEsp, m)
        /\ Head(toMcu).type = "run_aprom"
    BY <1>27, <2>p DEF McuRuns, McuHead, Answer
  <2>b. Head(toMcu).type \in LinkTypes /\ Head(toMcu) \in On(toMcu)
    BY <1>t, <2>a, WireContents DEF LinkTypes
  <2>x. /\ Alone(toMcu') /\ Alone(toEsp') /\ Links(toMcu') = {}
        /\ \A x \in On(toMcu') : x.type \notin LinkTypes
        /\ \A x \in On(toEsp') : x = m \/ x.type \notin LinkTypes
    <3>1. /\ Alone(Tail(toMcu)) /\ Alone(Append(toEsp, m)) /\ Links(Tail(toMcu)) = {}
          /\ \A x \in On(Tail(toMcu)) : x.type \notin LinkTypes
          /\ \A x \in On(Append(toEsp, m)) : x = m \/ x.type \notin LinkTypes
      BY <1>w, <2>a, <2>b, Exchange
    <3> QED BY <2>a, <3>1
  <2>d. /\ UNCHANGED <<flash, boot_status, firmware_offset>>
        /\ mcu'.erased = mcu.erased /\ mcu.got = mcu'.got
    BY <1>27, <1>t DEF McuRuns, espVars, bootVars, infoVars, transferVars
  <2>m. m.type = "run_aprom"
    BY <2>p, MessageFields
  <2>1. OneLink'
    BY <2>x DEF OneLink
  <2>2. Ordered'
    BY <1>t, <1>l, <2>x, <2>m, <2>d DEF Ordered, Whole
  <2>3. Truthful'
    BY <1>t, <1>l, <2>x, <2>m, <2>d DEF Truthful
  <2>4. Counted'
    BY <1>t, <1>l, <2>x, <2>m, <2>d DEF Counted
  <2>5. Kept'
    BY <1>t, <1>l, <2>x, <2>m, <2>d DEF Kept, Whole
  <2>6. Sized'
    BY <1>t, <1>v, <2>d DEF Sized
  <2> QED BY <2>1, <2>2, <2>3, <2>4, <2>5, <2>6
<1>28. CASE UNCHANGED vars
  <2>1. UNCHANGED <<toMcu, toEsp, mcu, flash, boot_status, firmware_offset>>
    BY <1>28 DEF vars, infoVars, bootVars, transferVars, wires
  <2> QED BY <1>t, <1>q, <2>1, QuietStep
<1> QED
  BY <1>1, <1>2, <1>3, <1>4, <1>5, <1>6, <1>7, <1>8, <1>9, <1>10, <1>11, <1>12, <1>13, <1>14, <1>15, <1>16, <1>17, <1>18, <1>19, <1>20, <1>21, <1>22, <1>23, <1>24, <1>25, <1>26, <1>27, <1>28
     DEF Next, Boot, RecvLink, RecvProtocol, BootTimer, AckTimer, Upgrade, McuWorks, Fault

\* The wires start empty and the sector erased.
LEMMA DeliveryInit == Init /\ ~left.late => DInv
<1> SUFFICES ASSUME Init, ~left.late PROVE DInv
  OBVIOUS
<1>1. IInv
  BY InitInv
<1>2. On(toMcu) = {} /\ On(toEsp) = {} /\ OneLink
  BY NothingOn DEF Init, OneLink
<1>3. Ordered /\ Truthful /\ Counted
  BY <1>2 DEF Init, Ordered, Truthful, Counted
<1>4. Kept /\ Sized
  BY McuBootAssumption DEF Init, Kept, Sized, ErasedInfo
<1> QED BY <1>1, <1>2, <1>3, <1>4 DEF DInv, Delivery

-----------------------------------------------------------------------------
(* Delivery without losses.  When nothing is lost or refused, answers may  *)
(* be late and name no package: that they count all the same rests on the  *)
(* order of the wire.  A package sent since the last CONNECT is at the MCU *)
(* when what was sent after it arrives.                                    *)

\* Package k is at the MCU when message i of the wire arrives there.
Reached(wire, got, k, i) ==
  \/ \E n \in 1 .. i - 1 : /\ wire[n].type = "update_aprom" /\ wire[n].off = k
                           /\ \A l \in n + 1 .. i - 1 : wire[l].type # "connect"
  \/ k \in got /\ \A l \in 1 .. i - 1 : wire[l].type # "connect"

\* Packages follow those before them, and the command to run all of them.
Needs(m, k) == m.type = "run_aprom" \/ (m.type = "update_aprom" /\ k < m.off)
Follows(wire, got) == \A i \in 1 .. Len(wire) : \A k \in Image :
  Needs(wire[i], k) => Reached(wire, got, k, i)

\* The packages below n have been sent since the last CONNECT.
SentBelow(wire, got, n) == \A k \in Image : k < n => Reached(wire, got, k, Len(wire) + 1)

Order ==
  /\ mcu.mode = "app" => Intact(mcu)
  /\ Follows(toMcu, mcu.got)
  /\ boot_status = "send" => mcu.erased /\ SentBelow(toMcu, mcu.got, firmware_offset + 1)
  /\ flash.upgrade_status = "done" => SentBelow(toMcu, mcu.got, Packages)
  /\ \A m \in On(toMcu) : m.type = "update_aprom" => mcu.erased
  /\ \A m \in On(toEsp) : m.type = "connect" => mcu.erased
  /\ Sized

Lossless == left.loss = 0 /\ left.nack = 0
OInv == IInv /\ Lossless /\ Order

\* The indices of a wire something was sent on.
LEMMA AppendIndex ==
  ASSUME NEW M, NEW w \in Seq(M), NEW m
  PROVE  /\ Len(w) \in Nat /\ Len(Append(w, m)) = Len(w) + 1
         /\ Append(w, m)[Len(w) + 1] = m
         /\ \A i \in 1 .. Len(w) : Append(w, m)[i] = w[i]
BY LenProperties, SeqMonotonic, AppendProperties

\* What is sent later does not matter to what arrives before it.
LEMMA ReachedAppend ==
  ASSUME NEW M, NEW w \in Seq(M), NEW m, NEW got, NEW k
  PROVE  /\ \A i \in 1 .. Len(w) + 1 :
              Reached(w, got, k, i) => Reached(Append(w, m), got, k, i)
         /\ m.type # "connect" /\ Reached(w, got, k, Len(w) + 1)
              => Reached(Append(w, m), got, k, Len(w) + 2)
         /\ m.type = "update_aprom" /\ m.off = k
              => Reached(Append(w, m), got, k, Len(w) + 2)
<1> DEFINE a == Append(w, m)
<1>0. /\ Len(w) \in Nat /\ a[Len(w) + 1] = m
      /\ \A i \in 1 .. Len(w) : a[i] = w[i]
  BY AppendIndex
<1> HIDE DEF a
<1>1. ASSUME NEW i \in 1 .. Len(w) + 1, Reached(w, got, k, i)
      PROVE  Reached(a, got, k, i)
  <2>1. \A n \in 1 .. i - 1 : n \in 1 .. Len(w) /\ a[n] = w[n]
    BY <1>0
  <2>2. \A n \in 1 .. i - 1 : \A l \in n + 1 .. i - 1 : l \in 1 .. i - 1
    BY <1>0
  <2> QED BY <1>1, <2>1, <2>2 DEF Reached
<1>2. ASSUME m.type # "connect", Reached(w, got, k, Len(w) + 1)
      PROVE  Reached(a, got, k, Len(w) + 2)
  <2>1. \A l \in 1 .. Len(w) + 1 : l \in 1 .. Len(w) \/ l = Len(w) + 1
    BY <1>0
  <2>2. CASE \E n \in 1 .. Len(w) : /\ w[n].type = "update_aprom" /\ w[n].off = k
                                    /\ \A l \in n + 1 .. Len(w) : w[l].type # "connect"
    <3>1. PICK n \in 1 .. Len(w) : /\ w[n].type = "update_aprom" /\ w[n].off = k
                                   /\ \A l \in n + 1 .. Len(w) : w[l].type # "connect"
      BY <2>2
    <3>2. \A l \in n + 1 .. Len(w) + 1 : l \in n + 1 .. Len(w) \/ l = Len(w) + 1
      BY <1>0
    <3>3. \A l \in n + 1 .. Len(w) : l \in 1 .. Len(w)
      BY <1>0
    <3>4. \A l \in n + 1 .. Len(w) + 1 : a[l].type # "connect"
      BY <1>0, <1>2, <3>1, <3>2, <3>3
    <3>5. n \in 1 .. Len(w) + 1 /\ Len(w) + 2 - 1 = Len(w) + 1
      BY <1>0
    <3> QED BY <1>0, <3>1, <3>4, <3>5 DEF Reached
  <2>3. CASE k \in got /\ \A l \in 1 .. Len(w) : w[l].type # "connect"
    <3>1. \A l \in 1 .. Len(w) + 1 : a[l].type # "connect"
      BY <1>0, <1>2, <2>1, <2>3
    <3>2. Len(w) + 2 - 1 = Len(w) + 1
      BY <1>0
    <3> QED BY <2>3, <3>1, <3>2 DEF Reached
  <2>4. Len(w) + 1 - 1 = Len(w)
    BY <1>0
  <2> QED BY <1>2, <2>2, <2>3, <2>4 DEF Reached
<1>3. ASSUME m.type = "update_aprom", m.off = k
      PROVE  Reached(a, got, k, Len(w) + 2)
  <2>1. Len(w) + 1 \in 1 .. Len(w) + 2 - 1
    BY <1>0
  <2>2. \A l \in Len(w) + 1 + 1 .. Len(w) + 2 - 1 : FALSE
    BY <1>0
  <2> QED BY <1>0, <1>3, <2>1, <2>2 DEF Reached
<1> QED BY <1>1, <1>2, <1>3 DEF a

\* Sending in order keeps the order, and what was sent.
LEMMA OrderAppend ==
  ASSUME NEW M, NEW w \in Seq(M), NEW m, NEW got, Follows(w, got),
         \A k \in Image : Needs(m, k) => Reached(w, got, k, Len(w) + 1)
  PROVE  Follows(Append(w, m), got)
<1>0. /\ Len(w) \in Nat /\ Len(Append(w, m)) = Len(w) + 1
      /\ Append(w, m)[Len(w) + 1] = m
      /\ \A i \in 1 .. Len(w) : Append(w, m)[i] = w[i]
  BY AppendIndex
<1>1. ASSUME NEW i \in 1 .. Len(w) + 1, NEW k \in Image, Needs(Append(w, m)[i], k)
      PROVE  Reached(Append(w, m), got, k, i)
  <2>1. i \in 1 .. Len(w) \/ i = Len(w) + 1
    BY <1>0
  <2>2. Reached(w, got, k, i)
    BY <1>0, <1>1, <2>1 DEF Follows
  <2> QED BY <2>2, ReachedAppend
<1> QED BY <1>0, <1>1 DEF Follows
LEMMA SentAppend ==
  ASSUME NEW M, NEW w \in Seq(M), NEW m, NEW got, NEW n \in Nat,
         SentBelow(w, got, n)
  PROVE  /\ m.type # "connect" => SentBelow(Append(w, m), got, n)
         /\ m.type = "update_aprom" /\ m.off = n => SentBelow(Append(w, m), got, n + 1)
<1>0. Len(w) \in Nat /\ Len(Append(w, m)) + 1 = Len(w) + 2
  BY AppendIndex
<1>1. ASSUME m.type # "connect"
      PROVE  SentBelow(Append(w, m), got, n)
  BY <1>0, <1>1, ReachedAppend DEF SentBelow
<1>2. ASSUME m.type = "update_aprom", m.off = n
      PROVE  SentBelow(Append(w, m), got, n + 1)
  <2>1. \A k \in Image : k < n + 1 => k < n \/ k = n
    BY McuBootAssumption DEF Image
  <2>2. m.type # "connect"
    BY <1>2
  <2>3. SentBelow(Append(w, m), got, n)
    BY <1>1, <2>2
  <2>4. Reached(Append(w, m), got, n, Len(w) + 2)
    BY <1>2, ReachedAppend
  <2> QED BY <1>0, <2>1, <2>3, <2>4 DEF SentBelow
<1> QED BY <1>1, <1>2

\* The MCU takes the first message: a package it programs, or ignores when it
\* runs and has the image, stays reached.
Takes(m, got, gotThen) ==
  \/ m.type = "connect"
  \/ /\ got \subseteq gotThen
     /\ m.type = "update_aprom" => m.off \in gotThen \/ Image \subseteq gotThen
LEMMA ReachedTail ==
  ASSUME NEW M, NEW w \in Seq(M), w # <<>>, NEW got, NEW gotThen,
         Takes(Head(w), got, gotThen), NEW k \in Image, NEW i \in 1 .. Len(w),
         Reached(w, got, k, i + 1)
  PROVE  Reached(Tail(w), gotThen, k, i)
<1>0. /\ Len(w) \in Nat /\ Len(w) > 0 /\ Head(w) = w[1]
      /\ \A j \in 1 .. Len(w) - 1 : Tail(w)[j] = w[j + 1]
  BY HeadTailProperties, LenProperties, EmptySeq
<1>i. i \in Nat /\ i + 1 - 1 = i
  BY <1>0
<1>s. \A n \in Nat : (\A l \in n + 1 .. i : w[l].type # "connect")
        => \A l \in n .. i - 1 : l >= 1 => Tail(w)[l].type # "connect"
  <2>1. \A n \in Nat : \A l \in n .. i - 1 : l >= 1 =>
          l + 1 \in n + 1 .. i /\ l \in 1 .. Len(w) - 1
    BY <1>0, <1>i
  <2> QED BY <1>0, <2>1
<1>1. CASE \E n \in 1 .. i : /\ w[n].type = "update_aprom" /\ w[n].off = k
                             /\ \A l \in n + 1 .. i : w[l].type # "connect"
  <2>1. PICK n \in 1 .. i : /\ w[n].type = "update_aprom" /\ w[n].off = k
                            /\ \A l \in n + 1 .. i : w[l].type # "connect"
    BY <1>1
  <2>2. n \in Nat /\ \A l \in n .. i - 1 : l >= 1
    BY <1>i
  <2>3. \A l \in n .. i - 1 : Tail(w)[l].type # "connect"
    BY <1>s, <2>1, <2>2
  <2>4. CASE n = 1
    <3>1. k \in gotThen
      BY <1>0, <2>1, <2>4 DEF Takes
    <3> QED BY <2>3, <2>4, <3>1 DEF Reached
  <2>5. CASE n # 1
    <3>1. n - 1 \in 1 .. i - 1 /\ n - 1 \in 1 .. Len(w) - 1 /\ n - 1 + 1 = n
      BY <1>0, <1>i, <2>5
    <3>2. Tail(w)[n - 1] = w[n]
      BY <1>0, <3>1
    <3> QED BY <2>1, <2>3, <3>1, <3>2 DEF Reached
  <2> QED BY <2>4, <2>5
<1>2. CASE k \in got /\ \A l \in 1 .. i : w[l].type # "connect"
  <2>1. 1 \in 1 .. i
    BY <1>i
  <2>2. k \in gotThen
    BY <1>0, <1>2, <2>1 DEF Takes
  <2>3. \A l \in 0 + 1 .. i : w[l].type # "connect"
    BY <1>2
  <2>4. \A l \in 0 .. i - 1 : l >= 1 => Tail(w)[l].type # "connect"
    BY <1>s, <2>3
  <2>5. \A l \in 1 .. i - 1 : l \in 0 .. i - 1 /\ l >= 1
    BY <1>i
  <2> QED BY <2>2, <2>4, <2>5 DEF Reached
<1> QED BY <1>i, <1>1, <1>2 DEF Reached
LEMMA OrderTail ==
  ASSUME NEW M, NEW w \in Seq(M), w # <<>>, NEW got, NEW gotThen,
         Takes(Head(w), got, gotThen)
  PROVE  /\ Follows(w, got) => Follows(Tail(w), gotThen)
         /\ \A n : SentBelow(w, got, n) => SentBelow(Tail(w), gotThen, n)
<1>0. /\ Len(w) \in Nat /\ Len(w) > 0 /\ Len(Tail(w)) = Len(w) - 1
      /\ \A j \in 1 .. Len(w) - 1 : Tail(w)[j] = w[j + 1]
  BY HeadTailProperties, LenProperties, EmptySeq
<1>1. ASSUME Follows(w, got), NEW i \in 1 .. Len(w) - 1, NEW k \in Image, Needs(Tail(w)[i], k)
      PROVE  Reached(Tail(w), gotThen, k, i)
  <2>1. i + 1 \in 1 .. Len(w) /\ i \in 1 .. Len(w)
    BY <1>0
  <2>2. Reached(w, got, k, i + 1)
    BY <1>0, <1>1, <2>1 DEF Follows
  <2> QED BY <2>1, <2>2, ReachedTail
<1>2. ASSUME NEW k \in Image, Reached(w, got, k, Len(w) + 1)
      PROVE  Reached(Tail(w), gotThen, k, Len(w))
  <2>1. Len(w) \in 1 .. Len(w)
    BY <1>0
  <2> QED BY <1>2, <2>1, ReachedTail
<1>3. Len(Tail(w)) + 1 = Len(w)
  BY <1>0
<1> QED BY <1>0, <1>1, <1>2, <1>3 DEF Follows, SentBelow

\* What is needed by the first message is at the MCU.
LEMMA FirstReached ==
  ASSUME NEW M, NEW w \in Seq(M), w # <<>>, NEW got, Follows(w, got)
  PROVE  \A k \in Image : Needs(Head(w), k) => k \in got
<1>1. Len(w) \in Nat /\ Len(w) > 0 /\ Head(w) = w[1]
  BY HeadTailProperties, LenProperties, EmptySeq
<1>2. 1 \in 1 .. Len(w)
  BY <1>1
<1> QED BY <1>1, <1>2 DEF Follows, Reached

\* A step that sends at most a command of the application, programs nothing,
\* and neither starts sending packages nor saves "done", keeps the order.
LEMMA QuietOrder ==
  ASSUME IInv, Order,
         UNCHANGED toMcu \/ \E cmd \in AppCmds : toMcu' = Append(toMcu, Msg(cmd)),
         On(toEsp') \subseteq On(toEsp), UNCHANGED mcu,
         boot_status' = "send" => boot_status = "send" /\ firmware_offset' = firmware_offset,
         flash'.upgrade_status = "done" =>
           flash.upgrade_status = "done" \/ SentBelow(toMcu, mcu.got, Packages),
         flash'.firmware_size >= Packages
  PROVE  Order'
<1> USE DEF Order
<1>t. toMcu \in Seq(Messages(ToMcuTypes)) /\ firmware_offset \in Nat
  BY DEF IInv, TypeOK
<1>s. Packages \in Nat /\ firmware_offset + 1 \in Nat
  BY <1>t, McuBootAssumption
<1>1. CASE UNCHANGED toMcu
  BY <1>1 DEF Intact, Sized
<1>2. CASE \E cmd \in AppCmds : toMcu' = Append(toMcu, Msg(cmd))
  <2>1. PICK m : /\ toMcu' = Append(toMcu, m)
                 /\ m.type # "connect" /\ m.type # "update_aprom" /\ m.type # "run_aprom"
    BY <1>2 DEF Msg, AppCmds, Requests
  <2>2. Follows(toMcu', mcu.got)
    BY <1>t, <2>1, OrderAppend DEF Needs
  <2>3. \A n \in Nat : SentBelow(toMcu, mcu.got, n) => SentBelow(toMcu', mcu.got, n)
    BY <1>t, <2>1, SentAppend
  <2>4. On(toMcu') = On(toMcu) \union {m}
    BY <1>t, <2>1, WireContents
  <2> QED BY <1>s, <2>1, <2>2, <2>3, <2>4 DEF Intact, Sized
<1> QED BY <1>1, <1>2

\* Nor does a step of the MCU: it takes a message and may answer it.
LEMMA McuOrder ==
  ASSUME IInv, Order, toMcu # <<>>, toMcu' = Tail(toMcu),
         Takes(Head(toMcu), mcu.got, mcu'.got),
         mcu'.mode = "app" => Intact(mcu)',
         mcu.erased => mcu'.erased,
         \A m \in On(toEsp') : m \in On(toEsp) \/ (m.type = "connect" => mcu'.erased),
         UNCHANGED <<boot_status, firmware_offset, flash>>
  PROVE  Order'
<1> USE DEF Order
<1>t. toMcu \in Seq(Messages(ToMcuTypes))
  BY DEF IInv, TypeOK
<1>1. Follows(toMcu', mcu'.got)
  BY <1>t, OrderTail
<1>2. \A n : SentBelow(toMcu, mcu.got, n) => SentBelow(toMcu', mcu'.got, n)
  BY <1>t, OrderTail
<1>3. On(toMcu') \subseteq On(toMcu)
  BY <1>t, WireContents
<1> QED BY <1>1, <1>2, <1>3 DEF Sized

\* Nothing is lost or refused later either.
LEMMA StaysLossless ==
  ASSUME left \in BudgetType, Lossless, [Next]_vars
  PROVE  Lossless'
<1>1. \A n : /\ Lossless => [left EXCEPT !.request = n].loss = 0 /\ [left EXCEPT !.request = n].nack = 0
             /\ Lossless => [left EXCEPT !.crash = n].loss = 0 /\ [left EXCEPT !.crash = n].nack = 0
  BY DEF BudgetType, Lossless
<1>2. ~(left.loss > 0) /\ ~(left.nack > 0)
  BY DEF Lossless
<1> QED BY <1>1, <1>2
       DEF Lossless, Next, vars, Boot, BootCorrupt, BootKeyPressed, BootResume, ClearInfo,
           RecvLink, RecvConnect, RecvPackageAnswer, RecvLastAnswer, IgnoreLink,
           RecvProtocol, RecvUpgrade, RecvStatus, IgnoreProtocol,
           BootTimer, ConnectRetry, ConnectTimeout, ResendPackage,
           AckTimer, ProtocolResend, ProtocolTimeout,
           Upgrade, UpgradeRequest, UpgradeForce, Request,
           McuWorks, McuAnswersCommand, McuEntersBoot, McuAcceptsConnect,
           McuProgramsPackage, McuRuns, McuIgnores, McuRefuses,
           Fault, Crash, PowerLossInSave, CutSave, SpendCrash, LoseMessage

\* An answer that completes the image: all of it was sent before.
LEMMA AnswerCompletes ==
  ASSUME OInv, PackageAnswered
  PROVE  /\ mcu.erased /\ SentBelow(toMcu, mcu.got, firmware_offset + Advance)
         /\ ImageSent => SentBelow(toMcu, mcu.got, Packages)
<1> USE DEF OInv, Order
<1>t. firmware_offset \in Nat /\ mcu_boot_info \in InfoType /\ Packages \in Nat
  BY McuBootAssumption DEF IInv, TypeOK
<1>1. /\ mcu.erased /\ SentBelow(toMcu, mcu.got, firmware_offset + 1)
      /\ up /\ mcu_boot_info = flash
  BY DEF PackageAnswered, LinkHead, IInv, PhaseRecorded
<1>2. Advance \in {0, 1}
  BY DEF Advance
<1>3. \A k \in Image : k \in Nat /\ k < Packages
  BY <1>t DEF Image
<1>4. SentBelow(toMcu, mcu.got, firmware_offset + Advance)
  BY <1>t, <1>1, <1>2, <1>3 DEF SentBelow
<1>5. ASSUME ImageSent
      PROVE  SentBelow(toMcu, mcu.got, Packages)
  <2>1. firmware_offset + 1 >= Packages
    BY <1>t, <1>1, <1>2, <1>5 DEF ImageSent, Sized, InfoType
  <2> QED BY <1>t, <1>1, <1>3, <2>1 DEF SentBelow
<1> QED BY <1>1, <1>4, <1>5

\* A package is sent after those below its offset.
LEMMA PackageOrder ==
  ASSUME IInv, Order, NEW m, NEW off \in Nat, m.type = "update_aprom", m.off = off,
         toMcu' = Append(toMcu, m), UNCHANGED mcu, mcu.erased,
         SentBelow(toMcu, mcu.got, off), firmware_offset' = off,
         On(toEsp') \subseteq On(toEsp), flash'.firmware_size >= Packages,
         flash'.upgrade_status = "done" => flash.upgrade_status = "done"
  PROVE  Order'
<1> USE DEF Order
<1>t. toMcu \in Seq(Messages(ToMcuTypes)) /\ Packages \in Nat
  BY McuBootAssumption DEF IInv, TypeOK
<1>1. Follows(toMcu', mcu.got)
  BY <1>t, OrderAppend DEF Needs, SentBelow
<1>2. SentBelow(toMcu', mcu.got, off + 1)
  BY <1>t, SentAppend
<1>3. SentBelow(toMcu, mcu.got, Packages) => SentBelow(toMcu', mcu.got, Packages)
  BY <1>t, SentAppend
<1>4. On(toMcu') = On(toMcu) \union {m}
  BY <1>t, WireContents
<1> QED BY <1>1, <1>2, <1>3, <1>4 DEF Intact, Sized

\* A restart leaves the wire to the MCU as it is.
LEMMA RestartOrder ==
  ASSUME OInv, Restart, UNCHANGED <<toMcu, mcu>>,
         flash'.firmware_size >= Packages,
         flash'.upgrade_status = "done" =>
           flash.upgrade_status = "done" \/ SentBelow(toMcu, mcu.got, Packages)
  PROVE  Order'
<1>1. On(toEsp') \subseteq On(toEsp) /\ boot_status' # "send"
  BY NothingOn DEF Restart
<1> QED BY <1>1, QuietOrder DEF OInv

\* Every step keeps the order.
LEMMA OrderStep ==
  ASSUME OInv, [Next]_vars
  PROVE  Order'
<1> USE DEF OInv
<1>t. /\ mcu_boot_info \in InfoType /\ flash \in InfoType
      /\ toMcu \in Seq(Messages(ToMcuTypes)) /\ toEsp \in Seq(Messages(ToEspTypes))
      /\ firmware_offset \in Nat
      /\ mcu \in [mode : {"app", "boot"}, erased : BOOLEAN, got : SUBSET Nat]
      /\ flash.firmware_size >= Packages
      /\ up => mcu_boot_info = flash /\ mcu_boot_info.firmware_size >= Packages
      /\ ~up => boot_status = "idle"
  BY DEF IInv, TypeOK, Order, Sized, PhaseRecorded, Details
<1>q. /\ On(<<>>) \subseteq On(toEsp)
      /\ toEsp # <<>> => On(Tail(toEsp)) \subseteq On(toEsp) /\ Head(toEsp) \in On(toEsp)
      /\ \A n \in 1 .. Len(toEsp) : On(SubSeq(toEsp, n + 1, Len(toEsp))) \subseteq On(toEsp)
      /\ \A m : On(Append(toEsp, m)) = On(toEsp) \union {m}
      /\ toMcu # <<>> => Head(toMcu) \in On(toMcu)
  BY <1>t, WireContents, NothingOn
<1>c. /\ Requests \subseteq AppCmds /\ "ready" \in AppCmds
      /\ "upgrade" \in AppCmds /\ "status" \in AppCmds
  BY DEF AppCmds, Requests
<1>v. /\ \A info \in {NeedInfo, SuccessInfo, ConnectedInfo, DoneInfo, TimeoutInfo} :
           up => info.firmware_size >= Packages
      /\ ClearedInfo.firmware_size >= Packages
      /\ SizedInfo.firmware_size >= Packages /\ ForcedInfo.firmware_size >= Packages
      /\ ErasedInfo.firmware_size >= Packages
      /\ \A info \in {NeedInfo, SuccessInfo, ConnectedInfo, TimeoutInfo,
                      ClearedInfo, ForcedInfo, ErasedInfo} : info.upgrade_status # "done"
      /\ up => SizedInfo.upgrade_status = flash.upgrade_status
  BY <1>t, SavedSizes, InfoTypes
<1>1. CASE BootCorrupt
  <2>1. /\ UNCHANGED toMcu \/ \E cmd \in AppCmds : toMcu' = Append(toMcu, Msg(cmd))
        /\ On(toEsp') \subseteq On(toEsp) /\ UNCHANGED mcu
    BY <1>1, <1>q, <1>c DEF BootCorrupt, Booting, ClearInfo, SetBootInfo, infoVars, bootVars, transferVars, protocolVars, upgradeVars, wires, espVars
  <2>2. /\ boot_status' = "send" => boot_status = "send" /\ firmware_offset' = firmware_offset
        /\ flash'.upgrade_status = "done" => flash.upgrade_status = "done"
        /\ flash'.firmware_size >= Packages
    BY <1>1, <1>t, <1>v DEF BootCorrupt, Booting, ClearInfo, SetBootInfo, infoVars, bootVars, transferVars, protocolVars, upgradeVars, wires, espVars
  <2> QED BY <2>1, <2>2, QuietOrder
<1>2. CASE BootKeyPressed
  <2>1. /\ UNCHANGED toMcu \/ \E cmd \in AppCmds : toMcu' = Append(toMcu, Msg(cmd))
        /\ On(toEsp') \subseteq On(toEsp) /\ UNCHANGED mcu
    BY <1>2, <1>q, <1>c DEF BootKeyPressed, Booting, ClearInfo, SetBootInfo, infoVars, bootVars, transferVars, protocolVars, upgradeVars, wires, espVars
  <2>2. /\ boot_status' = "send" => boot_status = "send" /\ firmware_offset' = firmware_offset
        /\ flash'.upgrade_status = "done" => flash.upgrade_status = "done"
        /\ flash'.firmware_size >= Packages
    BY <1>2, <1>t, <1>v DEF BootKeyPressed, Booting, ClearInfo, SetBootInfo, infoVars, bootVars, transferVars, protocolVars, upgradeVars, wires, espVars
  <2> QED BY <2>1, <2>2, QuietOrder
<1>3. CASE BootResume
  <2>1. /\ UNCHANGED toMcu \/ \E cmd \in AppCmds : toMcu' = Append(toMcu, Msg(cmd))
        /\ On(toEsp') \subseteq On(toEsp) /\ UNCHANGED mcu
    BY <1>3, <1>q, <1>c DEF BootResume, Booting, SetInBoot, ProtocolSend, infoVars, bootVars, transferVars, protocolVars, upgradeVars, wires, espVars
  <2>2. /\ boot_status' = "send" => boot_status = "send" /\ firmware_offset' = firmware_offset
        /\ flash'.upgrade_status = "done" => flash.upgrade_status = "done"
        /\ flash'.firmware_size >= Packages
    BY <1>3, <1>t, <1>v DEF BootResume, Booting, SetInBoot, ProtocolSend, infoVars, bootVars, transferVars, protocolVars, upgradeVars, wires, espVars
  <2> QED BY <2>1, <2>2, QuietOrder
<1>4. CASE IgnoreLink
  <2>1. /\ UNCHANGED toMcu \/ \E cmd \in AppCmds : toMcu' = Append(toMcu, Msg(cmd))
        /\ On(toEsp') \subseteq On(toEsp) /\ UNCHANGED mcu
    BY <1>4, <1>q, <1>c DEF IgnoreLink, infoVars, bootVars, transferVars, protocolVars, upgradeVars, wires, espVars
  <2>2. /\ boot_status' = "send" => boot_status = "send" /\ firmware_offset' = firmware_offset
        /\ flash'.upgrade_status = "done" => flash.upgrade_status = "done"
        /\ flash'.firmware_size >= Packages
    BY <1>4, <1>t, <1>v DEF IgnoreLink, infoVars, bootVars, transferVars, protocolVars, upgradeVars, wires, espVars
  <2> QED BY <2>1, <2>2, QuietOrder
<1>5. CASE RecvUpgrade
  <2>1. /\ UNCHANGED toMcu \/ \E cmd \in AppCmds : toMcu' = Append(toMcu, Msg(cmd))
        /\ On(toEsp') \subseteq On(toEsp) /\ UNCHANGED mcu
    BY <1>5, <1>q, <1>c DEF RecvUpgrade, ProtocolHead, ReadChunk, SetBootInfo, SetInBoot, infoVars, bootVars, transferVars, protocolVars, upgradeVars, wires, espVars
  <2>2. /\ boot_status' = "send" => boot_status = "send" /\ firmware_offset' = firmware_offset
        /\ flash'.upgrade_status = "done" => flash.upgrade_status = "done"
        /\ flash'.firmware_size >= Packages
    BY <1>5, <1>t, <1>v DEF RecvUpgrade, ProtocolHead, ReadChunk, SetBootInfo, SetInBoot, infoVars, bootVars, transferVars, protocolVars, upgradeVars, wires, espVars
  <2> QED BY <2>1, <2>2, QuietOrder
<1>6. CASE RecvStatus
  <2>1. /\ UNCHANGED toMcu \/ \E cmd \in AppCmds : toMcu' = Append(toMcu, Msg(cmd))
        /\ On(toEsp') \subseteq On(toEsp) /\ UNCHANGED mcu
    BY <1>6, <1>q, <1>c DEF RecvStatus, ProtocolHead, ReadChunk, SetBootInfo, infoVars, bootVars, transferVars, protocolVars, upgradeVars, wires, espVars
  <2>2. /\ boot_status' = "send" => boot_status = "send" /\ firmware_offset' = firmware_offset
        /\ flash'.upgrade_status = "done" => flash.upgrade_status = "done"
        /\ flash'.firmware_size >= Packages
    BY <1>6, <1>t, <1>v DEF RecvStatus, ProtocolHead, ReadChunk, SetBootInfo, infoVars, bootVars, transferVars, protocolVars, upgradeVars, wires, espVars
  <2> QED BY <2>1, <2>2, QuietOrder
<1>7. CASE IgnoreProtocol
  <2>1. /\ UNCHANGED toMcu \/ \E cmd \in AppCmds : toMcu' = Append(toMcu, Msg(cmd))
        /\ On(toEsp') \subseteq On(toEsp) /\ UNCHANGED mcu
    BY <1>7, <1>q, <1>c DEF IgnoreProtocol, infoVars, bootVars, transferVars, protocolVars, upgradeVars, wires, espVars
  <2>2. /\ boot_status' = "send" => boot_status = "send" /\ firmware_offset' = firmware_offset
        /\ flash'.upgrade_status = "done" => flash.upgrade_status = "done"
        /\ flash'.firmware_size >= Packages
    BY <1>7, <1>t, <1>v DEF IgnoreProtocol, infoVars, bootVars, transferVars, protocolVars, upgradeVars, wires, espVars
  <2> QED BY <2>1, <2>2, QuietOrder
<1>8. CASE ProtocolResend
  <2>a. send_cmd \in AppCmds
    BY <1>8, <1>c DEF ProtocolResend, AckExpires, IInv, Details
  <2>1. /\ UNCHANGED toMcu \/ \E cmd \in AppCmds : toMcu' = Append(toMcu, Msg(cmd))
        /\ On(toEsp') \subseteq On(toEsp) /\ UNCHANGED mcu
    BY <1>8, <1>q, <1>c, <2>a DEF ProtocolResend, AckExpires, infoVars, bootVars, transferVars, protocolVars, upgradeVars, wires, espVars
  <2>2. /\ boot_status' = "send" => boot_status = "send" /\ firmware_offset' = firmware_offset
        /\ flash'.upgrade_status = "done" => flash.upgrade_status = "done"
        /\ flash'.firmware_size >= Packages
    BY <1>8, <1>t, <1>v, <2>a DEF ProtocolResend, AckExpires, infoVars, bootVars, transferVars, protocolVars, upgradeVars, wires, espVars
  <2> QED BY <2>1, <2>2, QuietOrder
<1>9. CASE ProtocolTimeout
  <2>1. /\ UNCHANGED toMcu \/ \E cmd \in AppCmds : toMcu' = Append(toMcu, Msg(cmd))
        /\ On(toEsp') \subseteq On(toEsp) /\ UNCHANGED mcu
    BY <1>9, <1>q, <1>c DEF ProtocolTimeout, AckExpires, infoVars, bootVars, transferVars, protocolVars, upgradeVars, wires, espVars
  <2>2. /\ boot_status' = "send" => boot_status = "send" /\ firmware_offset' = firmware_offset
        /\ flash'.upgrade_status = "done" => flash.upgrade_status = "done"
        /\ flash'.firmware_size >= Packages
    BY <1>9, <1>t, <1>v DEF ProtocolTimeout, AckExpires, infoVars, bootVars, transferVars, protocolVars, upgradeVars, wires, espVars
  <2> QED BY <2>1, <2>2, QuietOrder
<1>10. CASE UpgradeRequest
  <2>1. /\ UNCHANGED toMcu \/ \E cmd \in AppCmds : toMcu' = Append(toMcu, Msg(cmd))
        /\ On(toEsp') \subseteq On(toEsp) /\ UNCHANGED mcu
    BY <1>10, <1>q, <1>c DEF UpgradeRequest, Request, SetBootInfo, ProtocolSend, infoVars, bootVars, transferVars, protocolVars, upgradeVars, wires, espVars
  <2>2. /\ boot_status' = "send" => boot_status = "send" /\ firmware_offset' = firmware_offset
        /\ flash'.upgrade_status = "done" => flash.upgrade_status = "done"
        /\ flash'.firmware_size >= Packages
    BY <1>10, <1>t, <1>v DEF UpgradeRequest, Request, SetBootInfo, ProtocolSend, infoVars, bootVars, transferVars, protocolVars, upgradeVars, wires, espVars
  <2> QED BY <2>1, <2>2, QuietOrder
<1>11. CASE UpgradeForce
  <2>1. /\ UNCHANGED toMcu \/ \E cmd \in AppCmds : toMcu' = Append(toMcu, Msg(cmd))
        /\ On(toEsp') \subseteq On(toEsp) /\ UNCHANGED mcu
    BY <1>11, <1>q, <1>c DEF UpgradeForce, Request, SetBootInfo, SetInBoot, infoVars, bootVars, transferVars, protocolVars, upgradeVars, wires, espVars
  <2>2. /\ boot_status' = "send" => boot_status = "send" /\ firmware_offset' = firmware_offset
        /\ flash'.upgrade_status = "done" => flash.upgrade_status = "done"
        /\ flash'.firmware_size >= Packages
    BY <1>11, <1>t, <1>v DEF UpgradeForce, Request, SetBootInfo, SetInBoot, infoVars, bootVars, transferVars, protocolVars, upgradeVars, wires, espVars
  <2> QED BY <2>1, <2>2, QuietOrder
<1>12. CASE Crash
  BY <1>12, <1>t, RestartOrder DEF Crash
<1>13. CASE PowerLossInSave
  <2>1. Restart /\ UNCHANGED <<toMcu, mcu>>
    BY <1>13 DEF PowerLossInSave, CutSave
  <2>2. /\ flash'.firmware_size >= Packages
        /\ flash'.upgrade_status = "done" =>
             flash.upgrade_status = "done" \/ SentBelow(toMcu, mcu.got, Packages)
    <3>1. CASE CutSave(PackageAnswered /\ ImageSent, DoneInfo)
      BY <1>v, <3>1, AnswerCompletes DEF CutSave, PackageAnswered, LinkHead
    <3>2. CASE CutSave(CanRequest, SizedInfo)
      BY <1>v, <3>2 DEF CutSave, CanRequest
    <3>3. CASE CutSave(ConnectAccepted, ConnectedInfo)
      BY <1>v, <3>3 DEF CutSave, ConnectAccepted, LinkHead
    <3>4. CASE CutSave(ProtocolHead("upgrade"), NeedInfo) \/ CutSave(ProtocolHead("status"), SuccessInfo)
      BY <1>v, <3>4 DEF CutSave, ProtocolHead
    <3>5. CASE CutSave(ConnectExpires /\ LastConnect, TimeoutInfo)
      BY <1>v, <3>5 DEF CutSave, ConnectExpires
    <3>6. CASE CutSave(CanRequest, ForcedInfo) \/ CutSave(~up, ClearedInfo)
      BY <1>v, <3>6 DEF CutSave
    <3> QED BY <1>13, <3>1, <3>2, <3>3, <3>4, <3>5, <3>6 DEF PowerLossInSave
  <2> QED BY <2>1, <2>2, RestartOrder
<1>14. CASE RecvConnect
  <2>1. PICK m : m = PackageMsg(1 % IndexMod, 0)
    OBVIOUS
  <2>2. toEsp # <<>> /\ Head(toEsp).type = "connect" /\ up
    BY <1>14 DEF RecvConnect, ConnectAccepted, LinkHead
  <2>3. mcu.erased
    BY <1>q, <2>2 DEF Order
  <2>4. SentBelow(toMcu, mcu.got, 0) /\ 0 \in Nat
    BY McuBootAssumption DEF SentBelow, Image
  <2>5. m.type = "update_aprom" /\ m.off = 0
    BY <2>1, MessageFields
  <2>6. /\ toMcu' = Append(toMcu, m) /\ UNCHANGED mcu /\ firmware_offset' = 0
        /\ On(toEsp') \subseteq On(toEsp) /\ flash' = ConnectedInfo
    BY <1>14, <1>q, <2>1, <2>2 DEF RecvConnect, SendPackage, SetBootInfo
  <2> QED BY <1>v, <2>2, <2>3, <2>4, <2>5, <2>6, PackageOrder
<1>15. CASE RecvPackageAnswer
  <2> DEFINE off == firmware_offset + Advance
  <2>1. PICK m : m = PackageMsg(firmware_package_index' % IndexMod, off)
    OBVIOUS
  <2>2. PackageAnswered /\ toEsp # <<>>
    BY <1>15 DEF RecvPackageAnswer, PackageAnswered, LinkHead
  <2>3. mcu.erased /\ SentBelow(toMcu, mcu.got, off)
    BY <2>2, AnswerCompletes
  <2>4. off \in Nat
    BY <1>t DEF Advance
  <2>5. m.type = "update_aprom" /\ m.off = off
    BY <2>1, MessageFields
  <2>6. /\ toMcu' = Append(toMcu, m) /\ UNCHANGED <<mcu, flash>> /\ firmware_offset' = off
        /\ On(toEsp') \subseteq On(toEsp)
    BY <1>15, <1>q, <2>1, <2>2 DEF RecvPackageAnswer, SendPackage, infoVars
  <2> HIDE DEF off
  <2> QED BY <1>t, <2>3, <2>4, <2>5, <2>6, PackageOrder
<1>16. CASE ResendPackage
  <2>1. PICK m : m = PackageMsg(firmware_package_index % IndexMod, firmware_offset)
    OBVIOUS
  <2>2. mcu.erased /\ SentBelow(toMcu, mcu.got, firmware_offset + 1)
    BY <1>16 DEF ResendPackage, Order
  <2>3. SentBelow(toMcu, mcu.got, firmware_offset)
    <3>1. \A k \in Image : k < firmware_offset => k < firmware_offset + 1
      BY <1>t, McuBootAssumption DEF Image
    <3> QED BY <2>2, <3>1 DEF SentBelow
  <2>4. m.type = "update_aprom" /\ m.off = firmware_offset
    BY <2>1, MessageFields
  <2>5. /\ toMcu' = Append(toMcu, m) /\ UNCHANGED <<mcu, flash, firmware_offset>>
        /\ On(toEsp') \subseteq On(toEsp)
    BY <1>16, <2>1 DEF ResendPackage, infoVars
  <2> QED BY <1>t, <2>2, <2>3, <2>4, <2>5, PackageOrder
<1>17. CASE RecvLastAnswer
  <2>1. PICK m : m = Msg("run_aprom") /\ m.type = "run_aprom"
    BY MessageFields
  <2>2. PackageAnswered /\ ImageSent /\ toEsp # <<>> /\ up
    BY <1>17 DEF RecvLastAnswer, PackageAnswered, LinkHead
  <2>3. mcu.erased /\ SentBelow(toMcu, mcu.got, Packages)
    BY <2>2, AnswerCompletes
  <2>4. \A k \in Image : k \in Nat /\ k < Packages
    BY McuBootAssumption DEF Image
  <2>5. /\ toMcu' = Append(toMcu, m) /\ UNCHANGED mcu /\ flash' = DoneInfo
        /\ On(toEsp') \subseteq On(toEsp)
    BY <1>17, <1>q, <2>1, <2>2 DEF RecvLastAnswer, SetBootInfo
  <2>6. Follows(toMcu', mcu.got)
    BY <1>t, <2>1, <2>3, <2>4, <2>5, OrderAppend DEF Order, SentBelow
  <2>7. SentBelow(toMcu', mcu.got, Packages)
    BY <1>t, <2>1, <2>3, <2>5, SentAppend, McuBootAssumption
  <2>8. \A j : SentBelow(toMcu', mcu.got, j)
    BY <2>4, <2>7 DEF SentBelow
  <2>9. On(toMcu') = On(toMcu) \union {m}
    BY <1>t, <2>5, WireContents
  <2> QED BY <1>v, <2>1, <2>2, <2>3, <2>5, <2>6, <2>8, <2>9 DEF Order, Sized, Intact
<1>18. CASE ConnectRetry
  <2>1. PICK m : m = Msg("connect") /\ m.type = "connect"
    BY MessageFields
  <2>2. up /\ flash.upgrade_status # "done"
    BY <1>18 DEF ConnectRetry, ConnectExpires, IInv, PhaseRecorded
  <2>3. /\ toMcu' = Append(toMcu, m) /\ UNCHANGED <<mcu, toEsp>> /\ boot_status' # "send"
        /\ flash'.upgrade_status # "done" /\ flash'.firmware_size >= Packages
    BY <1>18, <1>t, <1>v, <2>1, <2>2 DEF ConnectRetry, ConnectExpires, SetBootInfo, infoVars
  <2>4. Follows(toMcu', mcu.got)
    BY <1>t, <2>1, <2>3, OrderAppend DEF Order, Needs
  <2>5. On(toMcu') = On(toMcu) \union {m}
    BY <1>t, <2>3, WireContents
  <2> QED BY <2>1, <2>3, <2>4, <2>5 DEF Order, Sized, Intact
<1>19. CASE ConnectTimeout
  <2>1. PICK m : m = Msg("connect") /\ m.type = "connect"
    BY MessageFields
  <2>2. up /\ flash.upgrade_status # "done"
    BY <1>19 DEF ConnectTimeout, ConnectExpires, IInv, PhaseRecorded
  <2>3. /\ toMcu' = Append(toMcu, m) /\ UNCHANGED <<mcu, toEsp>> /\ boot_status' # "send"
        /\ flash'.upgrade_status # "done" /\ flash'.firmware_size >= Packages
    BY <1>19, <1>t, <1>v, <2>1, <2>2 DEF ConnectTimeout, ConnectExpires, SetBootInfo, infoVars
  <2>4. Follows(toMcu', mcu.got)
    BY <1>t, <2>1, <2>3, OrderAppend DEF Order, Needs
  <2>5. On(toMcu') = On(toMcu) \union {m}
    BY <1>t, <2>3, WireContents
  <2> QED BY <2>1, <2>3, <2>4, <2>5 DEF Order, Sized, Intact
<1>20. CASE McuAnswersCommand
  <2>1. toMcu # <<>> /\ toMcu' = Tail(toMcu) /\ UNCHANGED <<boot_status, firmware_offset, flash>>
    BY <1>20 DEF McuAnswersCommand, Answer, McuHead, infoVars, bootVars, transferVars, protocolVars, upgradeVars, wires, espVars
  <2>2. Takes(Head(toMcu), mcu.got, mcu'.got)
    BY <1>20, <1>t DEF McuAnswersCommand, Answer, McuHead, Takes, Requests
  <2>3. /\ mcu'.mode = "app" => Intact(mcu)'
        /\ mcu.erased => mcu'.erased
    BY <1>20, <1>t DEF McuAnswersCommand, Answer, McuHead, Order, Intact
  <2>4. \A m \in On(toEsp') : m \in On(toEsp) \/ (m.type = "connect" => mcu'.erased)
    BY <1>20, <1>t, <1>q, MessageFields DEF McuAnswersCommand, Answer, McuHead, Requests
  <2> QED BY <2>1, <2>2, <2>3, <2>4, McuOrder
<1>21. CASE McuEntersBoot
  <2>1. toMcu # <<>> /\ toMcu' = Tail(toMcu) /\ UNCHANGED <<boot_status, firmware_offset, flash>>
    BY <1>21 DEF McuEntersBoot, Consume, McuHead, infoVars, bootVars, transferVars, protocolVars, upgradeVars, wires, espVars
  <2>2. Takes(Head(toMcu), mcu.got, mcu'.got)
    BY <1>21, <1>t DEF McuEntersBoot, Consume, McuHead, Takes, Requests
  <2>3. /\ mcu'.mode = "app" => Intact(mcu)'
        /\ mcu.erased => mcu'.erased
    BY <1>21, <1>t DEF McuEntersBoot, Consume, McuHead, Order, Intact
  <2>4. \A m \in On(toEsp') : m \in On(toEsp) \/ (m.type = "connect" => mcu'.erased)
    BY <1>21, <1>t, <1>q, MessageFields DEF McuEntersBoot, Consume, McuHead, Requests
  <2> QED BY <2>1, <2>2, <2>3, <2>4, McuOrder
<1>22. CASE McuAcceptsConnect
  <2>1. toMcu # <<>> /\ toMcu' = Tail(toMcu) /\ UNCHANGED <<boot_status, firmware_offset, flash>>
    BY <1>22 DEF McuAcceptsConnect, Answer, McuHead, infoVars, bootVars, transferVars, protocolVars, upgradeVars, wires, espVars
  <2>2. Takes(Head(toMcu), mcu.got, mcu'.got)
    BY <1>22, <1>t DEF McuAcceptsConnect, Answer, McuHead, Takes, Requests
  <2>3. /\ mcu'.mode = "app" => Intact(mcu)'
        /\ mcu.erased => mcu'.erased
    BY <1>22, <1>t DEF McuAcceptsConnect, Answer, McuHead, Order, Intact
  <2>4. \A m \in On(toEsp') : m \in On(toEsp) \/ (m.type = "connect" => mcu'.erased)
    BY <1>22, <1>t, <1>q, MessageFields DEF McuAcceptsConnect, Answer, McuHead, Requests
  <2> QED BY <2>1, <2>2, <2>3, <2>4, McuOrder
<1>23. CASE McuProgramsPackage
  <2>1. toMcu # <<>> /\ toMcu' = Tail(toMcu) /\ UNCHANGED <<boot_status, firmware_offset, flash>>
    BY <1>23 DEF McuProgramsPackage, Answer, McuHead, infoVars, bootVars, transferVars, protocolVars, upgradeVars, wires, espVars
  <2>2. Takes(Head(toMcu), mcu.got, mcu'.got)
    BY <1>23, <1>t DEF McuProgramsPackage, Answer, McuHead, Takes, Requests
  <2>3. /\ mcu'.mode = "app" => Intact(mcu)'
        /\ mcu.erased => mcu'.erased
    BY <1>23, <1>t DEF McuProgramsPackage, Answer, McuHead, Order, Intact
  <2>4. \A m \in On(toEsp') : m \in On(toEsp) \/ (m.type = "connect" => mcu'.erased)
    BY <1>23, <1>t, <1>q, MessageFields DEF McuProgramsPackage, Answer, McuHead, Requests
  <2> QED BY <2>1, <2>2, <2>3, <2>4, McuOrder
<1>24. CASE McuRuns
  <2>a. Image \subseteq mcu.got
    BY <1>24, <1>t, FirstReached DEF McuRuns, McuHead, Needs, Order
  <2>1. toMcu # <<>> /\ toMcu' = Tail(toMcu) /\ UNCHANGED <<boot_status, firmware_offset, flash>>
    BY <1>24 DEF McuRuns, Answer, McuHead, infoVars, bootVars, transferVars, protocolVars, upgradeVars, wires, espVars
  <2>2. Takes(Head(toMcu), mcu.got, mcu'.got)
    BY <1>24, <1>t, <2>a DEF McuRuns, Answer, McuHead, Takes, Requests
  <2>3. /\ mcu'.mode = "app" => Intact(mcu)'
        /\ mcu.erased => mcu'.erased
    BY <1>24, <1>t, <2>a DEF McuRuns, Answer, McuHead, Order, Intact
  <2>4. \A m \in On(toEsp') : m \in On(toEsp) \/ (m.type = "connect" => mcu'.erased)
    BY <1>24, <1>t, <1>q, MessageFields DEF McuRuns, Answer, McuHead, Requests
  <2> QED BY <2>1, <2>2, <2>3, <2>4, McuOrder
<1>25. CASE McuIgnores
  <2>a. Head(toMcu).type = "update_aprom" => Image \subseteq mcu.got
    <3>1. Head(toMcu).type = "update_aprom" => mcu.erased /\ mcu.mode = "app"
      BY <1>25, <1>q DEF McuIgnores, McuHead, Order, AppCmds, Requests
    <3> QED BY <3>1 DEF Order, Intact
  <2>1. toMcu # <<>> /\ toMcu' = Tail(toMcu) /\ UNCHANGED <<boot_status, firmware_offset, flash>>
    BY <1>25 DEF McuIgnores, Consume, McuHead, infoVars, bootVars, transferVars, protocolVars, upgradeVars, wires, espVars
  <2>2. Takes(Head(toMcu), mcu.got, mcu'.got)
    BY <1>25, <1>t, <2>a DEF McuIgnores, Consume, McuHead, Takes, AppCmds, Requests
  <2>3. /\ mcu'.mode = "app" => Intact(mcu)'
        /\ mcu.erased => mcu'.erased
    BY <1>25, <1>t, <2>a DEF McuIgnores, Consume, McuHead, Order, Intact
  <2>4. \A m \in On(toEsp') : m \in On(toEsp) \/ (m.type = "connect" => mcu'.erased)
    BY <1>25, <1>t, <1>q, MessageFields DEF McuIgnores, Consume, McuHead, Requests
  <2> QED BY <2>1, <2>2, <2>3, <2>4, McuOrder
<1>26. CASE McuRefuses \/ LoseMessage
  BY <1>26 DEF McuRefuses, LoseMessage, Lossless
<1>27. CASE UNCHANGED vars
  <2>1. UNCHANGED <<toMcu, toEsp, mcu, flash, boot_status, firmware_offset>>
    BY <1>27 DEF vars, infoVars, bootVars, transferVars, wires
  <2> QED BY <1>t, <2>1, QuietOrder
<1> QED
  BY <1>1, <1>2, <1>3, <1>4, <1>5, <1>6, <1>7, <1>8, <1>9, <1>10, <1>11, <1>12, <1>13, <1>14, <1>15, <1>16, <1>17, <1>18, <1>19, <1>20, <1>21, <1>22, <1>23, <1>24, <1>25, <1>26, <1>27
     DEF Next, Boot, RecvLink, RecvProtocol, BootTimer, AckTimer, Upgrade, McuWorks, Fault

\* Nothing is on the wire or in the flash at first.
LEMMA OrderInit == Init /\ Lossless => OInv
<1> SUFFICES ASSUME Init, Lossless PROVE OInv
  OBVIOUS
<1>1. IInv
  BY InitInv
<1>2. toMcu = <<>> /\ On(toMcu) = {} /\ On(toEsp) = {} /\ Len(toMcu) = 0
  BY NothingOn DEF Init
<1>3. Follows(toMcu, mcu.got)
  BY <1>2 DEF Follows
<1>4. /\ mcu.erased = FALSE /\ boot_status = "idle"
      /\ flash.upgrade_status = "erased" /\ flash.firmware_size >= Packages
  BY McuBootAssumption DEF Init, ErasedInfo
<1> QED BY <1>1, <1>2, <1>3, <1>4 DEF OInv, Order, Intact, Sized

-----------------------------------------------------------------------------
(* Either way the image is delivered: answers that may be late require     *)
(* that nothing is lost or refused.                                        *)

LateIsLossless == \A budget \in Budgets : budget.late => budget.loss = 0 /\ budget.nack = 0

LEMMA DeliveryInvariance == LateIsLossless => (Spec => [](DInv \/ OInv))
<1>1. Init /\ LateIsLossless => DInv \/ OInv
  <2>1. Init /\ LateIsLossless => ~left.late \/ Lossless
    BY DEF Init, LateIsLossless, Lossless
  <2> QED BY <2>1, DeliveryInit, OrderInit
<1>2. (DInv \/ OInv) /\ [Next]_vars => (DInv \/ OInv)'
  <2>1. DInv /\ [Next]_vars => DInv'
    BY NextInv, DeliveryStep, StaysPrompt DEF DInv, IInv, TypeOK
  <2>2. OInv /\ [Next]_vars => OInv'
    BY NextInv, OrderStep, StaysLossless DEF OInv, IInv, TypeOK
  <2> QED BY <2>1, <2>2
<1> QED BY <1>1, <1>2, PTL DEF Spec

\* What is sent and reached is at the MCU or on its way there.
LEMMA SentDelivered ==
  ASSUME OInv, SentBelow(toMcu, mcu.got, Packages)
  PROVE  Image \subseteq mcu.got \union InFlight
<1> SUFFICES ASSUME NEW k \in Image, k \notin mcu.got
             PROVE  k \in InFlight
  OBVIOUS
<1>1. toMcu \in Seq(Messages(ToMcuTypes)) /\ Packages \in Nat
  BY McuBootAssumption DEF OInv, IInv, TypeOK
<1>2. Len(toMcu) \in Nat /\ DOMAIN toMcu = 1 .. Len(toMcu)
  BY <1>1, LenProperties
<1>3. k < Packages
  BY <1>1 DEF Image
<1>4. Reached(toMcu, mcu.got, k, Len(toMcu) + 1)
  BY <1>3 DEF SentBelow
<1>5. PICK n \in 1 .. Len(toMcu) : toMcu[n].type = "update_aprom" /\ toMcu[n].off = k
  BY <1>2, <1>4 DEF Reached
<1> QED BY <1>2, <1>5 DEF InFlight

\* What the MCU reads next comes in order.
LEMMA InOrder ==
  ASSUME DInv \/ OInv, toMcu # <<>>
  PROVE  /\ Head(toMcu).type = "update_aprom" =>
              mcu.erased /\ \A j \in Image : j < Head(toMcu).off => j \in mcu.got
         /\ Head(toMcu).type = "run_aprom" => Image \subseteq mcu.got
<1>1. /\ toMcu \in Seq(Messages(ToMcuTypes)) /\ Packages \in Nat
      /\ Head(toMcu) \in Messages(ToMcuTypes)
  BY McuBootAssumption, WireTypes DEF DInv, OInv, IInv, TypeOK
<1>2. Head(toMcu) \in On(toMcu) /\ Head(toMcu).off \in Nat
  BY <1>1, WireContents DEF Messages
<1>3. CASE DInv
  BY <1>1, <1>2, <1>3 DEF DInv, Delivery, Ordered, Image, Below
<1>4. CASE OInv
  <2>1. \A k \in Image : Needs(Head(toMcu), k) => k \in mcu.got
    BY <1>1, <1>4, FirstReached DEF OInv, Order
  <2>2. Head(toMcu).type = "update_aprom" => mcu.erased
    BY <1>2, <1>4 DEF OInv, Order
  <2> QED BY <2>1, <2>2 DEF Needs
<1> QED BY <1>3, <1>4

-----------------------------------------------------------------------------
\* When answers are prompt or nothing is lost or refused, "done" in the flash
\* means that every package of the image is in the MCU or on its way to it,
\* whatever is interrupted by a power loss or requested anew (mcu_boot_handle
\* saves it when the last answer arrives).
THEOREM DeliveredCorrect == LateIsLossless => (Spec => []DoneMeansDelivered)
<1>1. DInv => DoneMeansDelivered
  BY DEF DInv, Delivery, Kept, Whole, DoneMeansDelivered
<1>2. OInv => DoneMeansDelivered
  BY SentDelivered DEF OInv, Order, DoneMeansDelivered
<1>3. DInv \/ OInv => DoneMeansDelivered
  BY <1>1, <1>2
<1> QED BY <1>3, DeliveryInvariance, PTL

\* Then, too, "done" is never in the flash while the MCU runs an incomplete
\* image: what TLC refutes for late answers and lost messages together holds
\* for each of them alone.
THEOREM ImageCorrect == LateIsLossless => (Spec => []DoneImageIntact)
<1>1. DInv => DoneImageIntact
  BY DEF DInv, Delivery, Kept, Whole, DoneImageIntact, Intact
<1>2. OInv => DoneImageIntact
  BY DEF OInv, Order, DoneImageIntact
<1>3. DInv \/ OInv => DoneImageIntact
  BY <1>1, <1>2
<1> QED BY <1>3, DeliveryInvariance, PTL

\* The steps of the MCU are steps of Install; all others leave it alone.
LEMMA InstallStep ==
  ASSUME DInv \/ OInv, [Next]_vars
  PROVE  [Installed!Next]_(Installed!vars)
<1> USE DEF Installed!vars
<1>t. mcu \in [mode : {"app", "boot"}, erased : BOOLEAN, got : SUBSET Nat]
  BY DEF DInv, OInv, IInv, TypeOK
<1>1. CASE McuEntersBoot
  <2>1. Installed!EnterBoot
    BY <1>1, <1>t DEF McuEntersBoot, McuHead, Installed!EnterBoot
  <2> QED BY <2>1 DEF Installed!Next
<1>2. CASE McuAcceptsConnect
  <2>1. Installed!Erase
    BY <1>2, <1>t DEF McuAcceptsConnect, McuHead, Installed!Erase
  <2> QED BY <2>1 DEF Installed!Next
<1>3. CASE McuProgramsPackage
  <2>1. mcu.erased /\ \A j \in Image : j < Head(toMcu).off => j \in mcu.got
    BY <1>3, InOrder DEF McuProgramsPackage, McuHead
  <2>2. /\ mcu.mode = "boot" /\ mcu'.mode = mcu.mode /\ mcu'.erased = mcu.erased
        /\ mcu'.got = mcu.got \union {Head(toMcu).off}
    BY <1>3, <1>t DEF McuProgramsPackage, McuHead
  <2>3. Installed!Program
    BY <2>1, <2>2 DEF Installed!Program
  <2> QED BY <2>3 DEF Installed!Next
<1>4. CASE McuRuns
  <2>1. Image \subseteq mcu.got
    BY <1>4, InOrder DEF McuRuns, McuHead
  <2>2. Installed!Run
    BY <1>4, <1>t, <2>1 DEF McuRuns, McuHead, Installed!Run
  <2> QED BY <2>2 DEF Installed!Next
<1>5. CASE UNCHANGED mcu
  BY <1>5
<1> QED
  BY <1>1, <1>2, <1>3, <1>4, <1>5
     DEF Next, vars, Boot, BootCorrupt, BootKeyPressed, BootResume, ClearInfo,
         RecvLink, RecvConnect, RecvPackageAnswer, RecvLastAnswer, IgnoreLink,
         RecvProtocol, RecvUpgrade, RecvStatus, IgnoreProtocol,
         BootTimer, ConnectRetry, ConnectTimeout, ResendPackage,
         AckTimer, ProtocolResend, ProtocolTimeout,
         Upgrade, UpgradeRequest, UpgradeForce,
         McuWorks, McuAnswersCommand, McuIgnores, McuRefuses,
         Fault, Crash, PowerLossInSave, CutSave, LoseMessage

\* The ESP's side of the UART implements Install: packages are programmed in
\* order into an erased memory and no image with packages missing is run
\* (mcu_boot.c), when answers are prompt or nothing is lost or
\* refused.
THEOREM InstallCorrect == LateIsLossless => (Spec => Installs)
<1>1. Init => Installed!Init
  BY DEF Init, Installed!Init
<1>2. (DInv \/ OInv) /\ [Next]_vars => [Installed!Next]_(Installed!vars)
  BY InstallStep
<1> QED BY <1>1, <1>2, DeliveryInvariance, PTL DEF Spec, Installs, Installed!Spec
-----------------------------------------------------------------------------
(* The transfer as the upgrade sees it, with prompt answers.  While the    *)
(* record says "process", the MCU stays in its boot loader, so that no     *)
(* answer of its application can end the transfer.                         *)

Programming ==
  /\ flash.upgrade_status = "process" =>
       /\ mcu.mode = "boot" /\ \A m \in On(toMcu) : m.type # "run_aprom"
       /\ ~is_mcu_in_boot => \A m \in On(toEsp) : m.type # "status"
  /\ \A m \in On(toEsp) : m.type = "connect" /\ m.ok => mcu.mode = "boot"

PInv == DInv /\ Programming

\* Steps that do not begin to program, and have the MCU neither run nor report.
LEMMA ProgrammingKept ==
  ASSUME Programming,
         mcu.mode = "boot" => mcu'.mode = "boot",
         \A m \in On(toEsp') : m \in On(toEsp) \/ (m.type = "connect" /\ m.ok => mcu'.mode = "boot"),
         flash'.upgrade_status = "process" =>
           /\ flash.upgrade_status = "process"
           /\ \A m \in On(toMcu') : m \in On(toMcu) \/ m.type # "run_aprom"
           /\ ~is_mcu_in_boot' =>
                \A m \in On(toEsp') : m.type # "status" \/ (m \in On(toEsp) /\ ~is_mcu_in_boot)
  PROVE  Programming'
  BY DEF Programming

\* Programming begins with an accepted CONNECT, which the MCU answers in its
\* boot loader, and only RUN_APROM, sent when the record says "done", ends it.
LEMMA ProgrammingStep ==
  ASSUME PInv, [Next]_vars
  PROVE  Programming'
<1> USE DEF PInv
<1>t. /\ mcu_boot_info \in InfoType /\ flash \in InfoType
      /\ toMcu \in Seq(Messages(ToMcuTypes)) /\ toEsp \in Seq(Messages(ToEspTypes))
      /\ mcu \in [mode : {"app", "boot"}, erased : BOOLEAN, got : SUBSET Nat]
      /\ up => mcu_boot_info = flash
      /\ Links(toMcu) = {} \/ Links(toEsp) = {}
      /\ flash.upgrade_status = "process" => mcu.mode = "boot"
  BY DEF DInv, IInv, TypeOK, PhaseRecorded, Delivery, OneLink, Programming
<1>q. /\ On(<<>>) = {}
      /\ \A m : On(Append(toMcu, m)) = On(toMcu) \union {m} /\ On(Append(toEsp, m)) = On(toEsp) \union {m}
      /\ toMcu # <<>> => On(Tail(toMcu)) \subseteq On(toMcu) /\ Head(toMcu) \in On(toMcu)
      /\ toEsp # <<>> => On(Tail(toEsp)) \subseteq On(toEsp) /\ Head(toEsp) \in On(toEsp)
      /\ \A n \in 1 .. Len(toEsp) : On(SubSeq(toEsp, n + 1, Len(toEsp))) \subseteq On(toEsp)
      /\ \A i \in DOMAIN toMcu : On(Without(toMcu, i)) \subseteq On(toMcu)
      /\ \A i \in DOMAIN toEsp : On(Without(toEsp, i)) \subseteq On(toEsp)
  BY <1>t, WireContents, NothingOn
<1>m. /\ \A t, ok : Msg(t).type = t /\ Reply(t, ok).type = t /\ Reply(t, ok).ok = ok
      /\ \A i, k : PackageMsg(i, k).type = "update_aprom"
  BY MessageFields
<1>v. /\ \A info \in {NeedInfo, SuccessInfo, DoneInfo, TimeoutInfo, ClearedInfo, ForcedInfo, ErasedInfo} :
           info.upgrade_status # "process"
      /\ up => SizedInfo.upgrade_status = flash.upgrade_status
  <2>1. /\ NeedInfo.upgrade_status = "none" /\ ForcedInfo.upgrade_status = "none"
        /\ DoneInfo.upgrade_status = "done"
        /\ up => SizedInfo.upgrade_status = flash.upgrade_status
    BY <1>t, InfoTypes
  <2>2. /\ SuccessInfo.upgrade_status = "none" /\ TimeoutInfo.upgrade_status = "none"
        /\ ClearedInfo.upgrade_status = "none" /\ ErasedInfo.upgrade_status = "erased"
    BY <1>t DEF InfoType, WithFlags, SuccessInfo, TimeoutInfo, ClearedInfo, ErasedInfo
  <2> QED BY <2>1, <2>2
<1>c. protocol_step = "wait_recv" => send_cmd # "run_aprom"
  BY DEF DInv, IInv, Details, Requests
<1>1. CASE BootCorrupt
  <2>1. /\ mcu.mode = "boot" => mcu'.mode = "boot"
        /\ \A m \in On(toEsp') : m \in On(toEsp) \/ (m.type = "connect" /\ m.ok => mcu'.mode = "boot")
        /\ flash'.upgrade_status = "process" =>
             /\ flash.upgrade_status = "process"
             /\ \A m \in On(toMcu') : m \in On(toMcu) \/ m.type # "run_aprom"
             /\ ~is_mcu_in_boot' =>
                  \A m \in On(toEsp') : m.type # "status" \/ (m \in On(toEsp) /\ ~is_mcu_in_boot)
    BY <1>1, <1>t, <1>q, <1>m, <1>v, <1>c DEF BootCorrupt, Booting, ClearInfo, SetBootInfo, infoVars, bootVars, transferVars, protocolVars, upgradeVars, wires, espVars
  <2> QED BY <2>1, ProgrammingKept
<1>2. CASE BootKeyPressed
  <2>1. /\ mcu.mode = "boot" => mcu'.mode = "boot"
        /\ \A m \in On(toEsp') : m \in On(toEsp) \/ (m.type = "connect" /\ m.ok => mcu'.mode = "boot")
        /\ flash'.upgrade_status = "process" =>
             /\ flash.upgrade_status = "process"
             /\ \A m \in On(toMcu') : m \in On(toMcu) \/ m.type # "run_aprom"
             /\ ~is_mcu_in_boot' =>
                  \A m \in On(toEsp') : m.type # "status" \/ (m \in On(toEsp) /\ ~is_mcu_in_boot)
    BY <1>2, <1>t, <1>q, <1>m, <1>v, <1>c DEF BootKeyPressed, Booting, ClearInfo, SetBootInfo, infoVars, bootVars, transferVars, protocolVars, upgradeVars, wires, espVars
  <2> QED BY <2>1, ProgrammingKept
<1>3. CASE BootResume
  <2>0. /\ On(toEsp') = {} /\ UNCHANGED <<flash, mcu>>
        /\ \A m \in On(toMcu') : m \in On(toMcu) \/ m.type # "run_aprom"
    <3>1. toMcu' = toMcu \/ toMcu' = Append(toMcu, Msg("upgrade")) \/ toMcu' = Append(toMcu, Msg("status"))
      BY <1>3 DEF BootResume, ProtocolSend
    <3>2. toEsp' = <<>> /\ UNCHANGED <<flash, mcu>>
      BY <1>3 DEF BootResume, Booting
    <3>3. \A t : \A m \in On(Append(toMcu, Msg(t))) : m \in On(toMcu) \/ m.type = t
      BY <1>q, MessageFields
    <3> QED BY <1>q, <3>1, <3>2, <3>3
  <2>1. /\ mcu.mode = "boot" => mcu'.mode = "boot"
        /\ \A m \in On(toEsp') : m \in On(toEsp) \/ (m.type = "connect" /\ m.ok => mcu'.mode = "boot")
        /\ flash'.upgrade_status = "process" =>
             /\ flash.upgrade_status = "process"
             /\ \A m \in On(toMcu') : m \in On(toMcu) \/ m.type # "run_aprom"
             /\ ~is_mcu_in_boot' =>
                  \A m \in On(toEsp') : m.type # "status" \/ (m \in On(toEsp) /\ ~is_mcu_in_boot)
    BY <2>0
  <2> QED BY <2>1, ProgrammingKept
<1>4. CASE RecvPackageAnswer
  <2>1. /\ mcu.mode = "boot" => mcu'.mode = "boot"
        /\ \A m \in On(toEsp') : m \in On(toEsp) \/ (m.type = "connect" /\ m.ok => mcu'.mode = "boot")
        /\ flash'.upgrade_status = "process" =>
             /\ flash.upgrade_status = "process"
             /\ \A m \in On(toMcu') : m \in On(toMcu) \/ m.type # "run_aprom"
             /\ ~is_mcu_in_boot' =>
                  \A m \in On(toEsp') : m.type # "status" \/ (m \in On(toEsp) /\ ~is_mcu_in_boot)
    BY <1>4, <1>t, <1>q, <1>m, <1>v, <1>c DEF RecvPackageAnswer, PackageAnswered, LinkHead, SendPackage, infoVars, bootVars, transferVars, protocolVars, upgradeVars, wires, espVars
  <2> QED BY <2>1, ProgrammingKept
<1>5. CASE RecvLastAnswer
  <2>1. /\ mcu.mode = "boot" => mcu'.mode = "boot"
        /\ \A m \in On(toEsp') : m \in On(toEsp) \/ (m.type = "connect" /\ m.ok => mcu'.mode = "boot")
        /\ flash'.upgrade_status = "process" =>
             /\ flash.upgrade_status = "process"
             /\ \A m \in On(toMcu') : m \in On(toMcu) \/ m.type # "run_aprom"
             /\ ~is_mcu_in_boot' =>
                  \A m \in On(toEsp') : m.type # "status" \/ (m \in On(toEsp) /\ ~is_mcu_in_boot)
    BY <1>5, <1>t, <1>q, <1>m, <1>v, <1>c DEF RecvLastAnswer, PackageAnswered, LinkHead, SetBootInfo, infoVars, bootVars, transferVars, protocolVars, upgradeVars, wires, espVars
  <2> QED BY <2>1, ProgrammingKept
<1>6. CASE IgnoreLink
  <2>1. /\ mcu.mode = "boot" => mcu'.mode = "boot"
        /\ \A m \in On(toEsp') : m \in On(toEsp) \/ (m.type = "connect" /\ m.ok => mcu'.mode = "boot")
        /\ flash'.upgrade_status = "process" =>
             /\ flash.upgrade_status = "process"
             /\ \A m \in On(toMcu') : m \in On(toMcu) \/ m.type # "run_aprom"
             /\ ~is_mcu_in_boot' =>
                  \A m \in On(toEsp') : m.type # "status" \/ (m \in On(toEsp) /\ ~is_mcu_in_boot)
    BY <1>6, <1>t, <1>q, <1>m, <1>v, <1>c DEF IgnoreLink, infoVars, bootVars, transferVars, protocolVars, upgradeVars, wires, espVars
  <2> QED BY <2>1, ProgrammingKept
<1>7. CASE RecvUpgrade
  <2>1. /\ mcu.mode = "boot" => mcu'.mode = "boot"
        /\ \A m \in On(toEsp') : m \in On(toEsp) \/ (m.type = "connect" /\ m.ok => mcu'.mode = "boot")
        /\ flash'.upgrade_status = "process" =>
             /\ flash.upgrade_status = "process"
             /\ \A m \in On(toMcu') : m \in On(toMcu) \/ m.type # "run_aprom"
             /\ ~is_mcu_in_boot' =>
                  \A m \in On(toEsp') : m.type # "status" \/ (m \in On(toEsp) /\ ~is_mcu_in_boot)
    BY <1>7, <1>t, <1>q, <1>m, <1>v, <1>c DEF RecvUpgrade, ProtocolHead, ReadChunk, SetBootInfo, SetInBoot, infoVars, bootVars, transferVars, protocolVars, upgradeVars, wires, espVars
  <2> QED BY <2>1, ProgrammingKept
<1>8. CASE RecvStatus
  <2>1. /\ mcu.mode = "boot" => mcu'.mode = "boot"
        /\ \A m \in On(toEsp') : m \in On(toEsp) \/ (m.type = "connect" /\ m.ok => mcu'.mode = "boot")
        /\ flash'.upgrade_status = "process" =>
             /\ flash.upgrade_status = "process"
             /\ \A m \in On(toMcu') : m \in On(toMcu) \/ m.type # "run_aprom"
             /\ ~is_mcu_in_boot' =>
                  \A m \in On(toEsp') : m.type # "status" \/ (m \in On(toEsp) /\ ~is_mcu_in_boot)
    BY <1>8, <1>t, <1>q, <1>m, <1>v, <1>c DEF RecvStatus, ProtocolHead, ReadChunk, SetBootInfo, infoVars, bootVars, transferVars, protocolVars, upgradeVars, wires, espVars
  <2> QED BY <2>1, ProgrammingKept
<1>9. CASE IgnoreProtocol
  <2>1. /\ mcu.mode = "boot" => mcu'.mode = "boot"
        /\ \A m \in On(toEsp') : m \in On(toEsp) \/ (m.type = "connect" /\ m.ok => mcu'.mode = "boot")
        /\ flash'.upgrade_status = "process" =>
             /\ flash.upgrade_status = "process"
             /\ \A m \in On(toMcu') : m \in On(toMcu) \/ m.type # "run_aprom"
             /\ ~is_mcu_in_boot' =>
                  \A m \in On(toEsp') : m.type # "status" \/ (m \in On(toEsp) /\ ~is_mcu_in_boot)
    BY <1>9, <1>t, <1>q, <1>m, <1>v, <1>c DEF IgnoreProtocol, infoVars, bootVars, transferVars, protocolVars, upgradeVars, wires, espVars
  <2> QED BY <2>1, ProgrammingKept
<1>10. CASE ConnectRetry
  <2>1. /\ mcu.mode = "boot" => mcu'.mode = "boot"
        /\ \A m \in On(toEsp') : m \in On(toEsp) \/ (m.type = "connect" /\ m.ok => mcu'.mode = "boot")
        /\ flash'.upgrade_status = "process" =>
             /\ flash.upgrade_status = "process"
             /\ \A m \in On(toMcu') : m \in On(toMcu) \/ m.type # "run_aprom"
             /\ ~is_mcu_in_boot' =>
                  \A m \in On(toEsp') : m.type # "status" \/ (m \in On(toEsp) /\ ~is_mcu_in_boot)
    BY <1>10, <1>t, <1>q, <1>m, <1>v, <1>c DEF ConnectRetry, ConnectExpires, infoVars, bootVars, transferVars, protocolVars, upgradeVars, wires, espVars
  <2> QED BY <2>1, ProgrammingKept
<1>11. CASE ConnectTimeout
  <2>1. /\ mcu.mode = "boot" => mcu'.mode = "boot"
        /\ \A m \in On(toEsp') : m \in On(toEsp) \/ (m.type = "connect" /\ m.ok => mcu'.mode = "boot")
        /\ flash'.upgrade_status = "process" =>
             /\ flash.upgrade_status = "process"
             /\ \A m \in On(toMcu') : m \in On(toMcu) \/ m.type # "run_aprom"
             /\ ~is_mcu_in_boot' =>
                  \A m \in On(toEsp') : m.type # "status" \/ (m \in On(toEsp) /\ ~is_mcu_in_boot)
    BY <1>11, <1>t, <1>q, <1>m, <1>v, <1>c DEF ConnectTimeout, ConnectExpires, SetBootInfo, infoVars, bootVars, transferVars, protocolVars, upgradeVars, wires, espVars
  <2> QED BY <2>1, ProgrammingKept
<1>12. CASE ResendPackage
  <2>1. /\ mcu.mode = "boot" => mcu'.mode = "boot"
        /\ \A m \in On(toEsp') : m \in On(toEsp) \/ (m.type = "connect" /\ m.ok => mcu'.mode = "boot")
        /\ flash'.upgrade_status = "process" =>
             /\ flash.upgrade_status = "process"
             /\ \A m \in On(toMcu') : m \in On(toMcu) \/ m.type # "run_aprom"
             /\ ~is_mcu_in_boot' =>
                  \A m \in On(toEsp') : m.type # "status" \/ (m \in On(toEsp) /\ ~is_mcu_in_boot)
    BY <1>12, <1>t, <1>q, <1>m, <1>v, <1>c DEF ResendPackage, infoVars, bootVars, transferVars, protocolVars, upgradeVars, wires, espVars
  <2> QED BY <2>1, ProgrammingKept
<1>13. CASE ProtocolResend
  <2>1. /\ mcu.mode = "boot" => mcu'.mode = "boot"
        /\ \A m \in On(toEsp') : m \in On(toEsp) \/ (m.type = "connect" /\ m.ok => mcu'.mode = "boot")
        /\ flash'.upgrade_status = "process" =>
             /\ flash.upgrade_status = "process"
             /\ \A m \in On(toMcu') : m \in On(toMcu) \/ m.type # "run_aprom"
             /\ ~is_mcu_in_boot' =>
                  \A m \in On(toEsp') : m.type # "status" \/ (m \in On(toEsp) /\ ~is_mcu_in_boot)
    BY <1>13, <1>t, <1>q, <1>m, <1>v, <1>c DEF ProtocolResend, AckExpires, infoVars, bootVars, transferVars, protocolVars, upgradeVars, wires, espVars
  <2> QED BY <2>1, ProgrammingKept
<1>14. CASE ProtocolTimeout
  <2>1. /\ mcu.mode = "boot" => mcu'.mode = "boot"
        /\ \A m \in On(toEsp') : m \in On(toEsp) \/ (m.type = "connect" /\ m.ok => mcu'.mode = "boot")
        /\ flash'.upgrade_status = "process" =>
             /\ flash.upgrade_status = "process"
             /\ \A m \in On(toMcu') : m \in On(toMcu) \/ m.type # "run_aprom"
             /\ ~is_mcu_in_boot' =>
                  \A m \in On(toEsp') : m.type # "status" \/ (m \in On(toEsp) /\ ~is_mcu_in_boot)
    BY <1>14, <1>t, <1>q, <1>m, <1>v, <1>c DEF ProtocolTimeout, AckExpires, infoVars, bootVars, transferVars, protocolVars, upgradeVars, wires, espVars
  <2> QED BY <2>1, ProgrammingKept
<1>15. CASE UpgradeRequest
  <2>0. /\ UNCHANGED <<toEsp, is_mcu_in_boot, mcu>>
        /\ flash'.upgrade_status = flash.upgrade_status
        /\ \A m \in On(toMcu') : m \in On(toMcu) \/ m.type # "run_aprom"
    <3>1. toMcu' = toMcu \/ toMcu' = Append(toMcu, Msg("upgrade"))
      BY <1>15 DEF UpgradeRequest, ProtocolSend
    <3>2. up /\ flash' = SizedInfo /\ UNCHANGED <<toEsp, is_mcu_in_boot, mcu>>
      BY <1>15 DEF UpgradeRequest, Request, SetBootInfo, bootVars
    <3>3. \A m \in On(Append(toMcu, Msg("upgrade"))) : m \in On(toMcu) \/ m.type = "upgrade"
      BY <1>q, MessageFields
    <3> QED BY <1>v, <3>1, <3>2, <3>3
  <2>1. /\ mcu.mode = "boot" => mcu'.mode = "boot"
        /\ \A m \in On(toEsp') : m \in On(toEsp) \/ (m.type = "connect" /\ m.ok => mcu'.mode = "boot")
        /\ flash'.upgrade_status = "process" =>
             /\ flash.upgrade_status = "process"
             /\ \A m \in On(toMcu') : m \in On(toMcu) \/ m.type # "run_aprom"
             /\ ~is_mcu_in_boot' =>
                  \A m \in On(toEsp') : m.type # "status" \/ (m \in On(toEsp) /\ ~is_mcu_in_boot)
    BY <2>0
  <2> QED BY <2>1, ProgrammingKept
<1>16. CASE UpgradeForce
  <2>1. /\ mcu.mode = "boot" => mcu'.mode = "boot"
        /\ \A m \in On(toEsp') : m \in On(toEsp) \/ (m.type = "connect" /\ m.ok => mcu'.mode = "boot")
        /\ flash'.upgrade_status = "process" =>
             /\ flash.upgrade_status = "process"
             /\ \A m \in On(toMcu') : m \in On(toMcu) \/ m.type # "run_aprom"
             /\ ~is_mcu_in_boot' =>
                  \A m \in On(toEsp') : m.type # "status" \/ (m \in On(toEsp) /\ ~is_mcu_in_boot)
    BY <1>16, <1>t, <1>q, <1>m, <1>v, <1>c DEF UpgradeForce, Request, SetBootInfo, SetInBoot, infoVars, bootVars, transferVars, protocolVars, upgradeVars, wires, espVars
  <2> QED BY <2>1, ProgrammingKept
<1>17. CASE McuAnswersCommand
  <2>0. /\ flash'.upgrade_status # "process" /\ mcu' = mcu
        /\ \A m \in On(toEsp') : m \in On(toEsp) \/ m.type # "connect"
    <3>1. mcu.mode = "app" /\ UNCHANGED <<flash, mcu>> /\ Head(toMcu).type \in Requests
          /\ toEsp' = Append(toEsp, Msg(Head(toMcu).type))
      BY <1>17 DEF McuAnswersCommand, McuHead, Answer, espVars, infoVars
    <3> QED BY <1>t, <1>q, <1>m, <3>1 DEF Requests
  <2>1. /\ mcu.mode = "boot" => mcu'.mode = "boot"
        /\ \A m \in On(toEsp') : m \in On(toEsp) \/ (m.type = "connect" /\ m.ok => mcu'.mode = "boot")
        /\ flash'.upgrade_status = "process" =>
             /\ flash.upgrade_status = "process"
             /\ \A m \in On(toMcu') : m \in On(toMcu) \/ m.type # "run_aprom"
             /\ ~is_mcu_in_boot' =>
                  \A m \in On(toEsp') : m.type # "status" \/ (m \in On(toEsp) /\ ~is_mcu_in_boot)
    BY <2>0
  <2> QED BY <2>1, ProgrammingKept
<1>18. CASE McuEntersBoot
  <2>1. /\ mcu.mode = "boot" => mcu'.mode = "boot"
        /\ \A m \in On(toEsp') : m \in On(toEsp) \/ (m.type = "connect" /\ m.ok => mcu'.mode = "boot")
        /\ flash'.upgrade_status = "process" =>
             /\ flash.upgrade_status = "process"
             /\ \A m \in On(toMcu') : m \in On(toMcu) \/ m.type # "run_aprom"
             /\ ~is_mcu_in_boot' =>
                  \A m \in On(toEsp') : m.type # "status" \/ (m \in On(toEsp) /\ ~is_mcu_in_boot)
    BY <1>18, <1>t, <1>q, <1>m, <1>v, <1>c DEF McuEntersBoot, McuHead, Consume, infoVars, bootVars, transferVars, protocolVars, upgradeVars, wires, espVars
  <2> QED BY <2>1, ProgrammingKept
<1>19. CASE McuAcceptsConnect
  <2>1. /\ mcu.mode = "boot" => mcu'.mode = "boot"
        /\ \A m \in On(toEsp') : m \in On(toEsp) \/ (m.type = "connect" /\ m.ok => mcu'.mode = "boot")
        /\ flash'.upgrade_status = "process" =>
             /\ flash.upgrade_status = "process"
             /\ \A m \in On(toMcu') : m \in On(toMcu) \/ m.type # "run_aprom"
             /\ ~is_mcu_in_boot' =>
                  \A m \in On(toEsp') : m.type # "status" \/ (m \in On(toEsp) /\ ~is_mcu_in_boot)
    BY <1>19, <1>t, <1>q, <1>m, <1>v, <1>c DEF McuAcceptsConnect, McuHead, Answer, infoVars, bootVars, transferVars, protocolVars, upgradeVars, wires, espVars
  <2> QED BY <2>1, ProgrammingKept
<1>20. CASE McuProgramsPackage
  <2>1. /\ mcu.mode = "boot" => mcu'.mode = "boot"
        /\ \A m \in On(toEsp') : m \in On(toEsp) \/ (m.type = "connect" /\ m.ok => mcu'.mode = "boot")
        /\ flash'.upgrade_status = "process" =>
             /\ flash.upgrade_status = "process"
             /\ \A m \in On(toMcu') : m \in On(toMcu) \/ m.type # "run_aprom"
             /\ ~is_mcu_in_boot' =>
                  \A m \in On(toEsp') : m.type # "status" \/ (m \in On(toEsp) /\ ~is_mcu_in_boot)
    BY <1>20, <1>t, <1>q, <1>m, <1>v, <1>c DEF McuProgramsPackage, McuHead, Answer, infoVars, bootVars, transferVars, protocolVars, upgradeVars, wires, espVars
  <2> QED BY <2>1, ProgrammingKept
<1>21. CASE McuRefuses
  <2>0. /\ UNCHANGED <<flash, is_mcu_in_boot, mcu>>
        /\ On(toMcu') \subseteq On(toMcu)
        /\ \A m \in On(toEsp') : m \in On(toEsp) \/ (~m.ok /\ m.type # "status")
    <3>p. PICK m : m = Reply(Head(toMcu).type, FALSE)
      OBVIOUS
    <3>1. /\ UNCHANGED <<flash, is_mcu_in_boot, mcu>> /\ toMcu # <<>> /\ toMcu' = Tail(toMcu)
          /\ Head(toMcu).type \in {"connect", "update_aprom"}
          /\ toEsp' = Append(toEsp, m)
      BY <1>21, <3>p DEF McuRefuses, McuHead, Answer, espVars, infoVars, bootVars
    <3>2. m.type = Head(toMcu).type /\ ~m.ok
      BY <3>p, MessageFields
    <3>3. On(toMcu') \subseteq On(toMcu) /\ On(toEsp') = On(toEsp) \union {m}
      BY <1>q, <3>1
    <3> QED BY <3>1, <3>2, <3>3
  <2>1. /\ mcu.mode = "boot" => mcu'.mode = "boot"
        /\ \A m \in On(toEsp') : m \in On(toEsp) \/ (m.type = "connect" /\ m.ok => mcu'.mode = "boot")
        /\ flash'.upgrade_status = "process" =>
             /\ flash.upgrade_status = "process"
             /\ \A m \in On(toMcu') : m \in On(toMcu) \/ m.type # "run_aprom"
             /\ ~is_mcu_in_boot' =>
                  \A m \in On(toEsp') : m.type # "status" \/ (m \in On(toEsp) /\ ~is_mcu_in_boot)
    BY <2>0
  <2> QED BY <2>1, ProgrammingKept
<1>22. CASE McuIgnores
  <2>1. /\ mcu.mode = "boot" => mcu'.mode = "boot"
        /\ \A m \in On(toEsp') : m \in On(toEsp) \/ (m.type = "connect" /\ m.ok => mcu'.mode = "boot")
        /\ flash'.upgrade_status = "process" =>
             /\ flash.upgrade_status = "process"
             /\ \A m \in On(toMcu') : m \in On(toMcu) \/ m.type # "run_aprom"
             /\ ~is_mcu_in_boot' =>
                  \A m \in On(toEsp') : m.type # "status" \/ (m \in On(toEsp) /\ ~is_mcu_in_boot)
    BY <1>22, <1>t, <1>q, <1>m, <1>v, <1>c DEF McuIgnores, McuHead, Consume, infoVars, bootVars, transferVars, protocolVars, upgradeVars, wires, espVars
  <2> QED BY <2>1, ProgrammingKept
<1>23. CASE LoseMessage
  <2>1. /\ mcu.mode = "boot" => mcu'.mode = "boot"
        /\ \A m \in On(toEsp') : m \in On(toEsp) \/ (m.type = "connect" /\ m.ok => mcu'.mode = "boot")
        /\ flash'.upgrade_status = "process" =>
             /\ flash.upgrade_status = "process"
             /\ \A m \in On(toMcu') : m \in On(toMcu) \/ m.type # "run_aprom"
             /\ ~is_mcu_in_boot' =>
                  \A m \in On(toEsp') : m.type # "status" \/ (m \in On(toEsp) /\ ~is_mcu_in_boot)
    BY <1>23, <1>t, <1>q, <1>m, <1>v, <1>c DEF LoseMessage, infoVars, bootVars, transferVars, protocolVars, upgradeVars, wires, espVars
  <2> QED BY <2>1, ProgrammingKept
<1>24. CASE Crash
  <2>1. /\ mcu.mode = "boot" => mcu'.mode = "boot"
        /\ \A m \in On(toEsp') : m \in On(toEsp) \/ (m.type = "connect" /\ m.ok => mcu'.mode = "boot")
        /\ flash'.upgrade_status = "process" =>
             /\ flash.upgrade_status = "process"
             /\ \A m \in On(toMcu') : m \in On(toMcu) \/ m.type # "run_aprom"
             /\ ~is_mcu_in_boot' =>
                  \A m \in On(toEsp') : m.type # "status" \/ (m \in On(toEsp) /\ ~is_mcu_in_boot)
    BY <1>24, <1>t, <1>q, <1>m, <1>v, <1>c DEF Crash, Restart, infoVars, bootVars, transferVars, protocolVars, upgradeVars, wires, espVars
  <2> QED BY <2>1, ProgrammingKept
<1>25. ASSUME ConnectAccepted, toMcu' = toMcu \/ \E i : toMcu' = Append(toMcu, PackageMsg(i, 0)),
             On(toEsp') \subseteq On(toEsp), mcu' = mcu, is_mcu_in_boot' \/ On(toEsp') = {}
      PROVE  Programming'
  <2>1. toEsp # <<>> /\ Head(toEsp).type = "connect" /\ Head(toEsp).ok
    BY <1>25 DEF ConnectAccepted, LinkHead
  <2>2. Head(toEsp) \in On(toEsp) /\ mcu.mode = "boot"
    BY <1>q, <2>1 DEF Programming
  <2>3. Links(toMcu) = {}
    BY <1>t, <2>1, <2>2 DEF Links, LinkTypes
  <2>4. \A m \in On(toMcu') : m \in On(toMcu) \/ m.type = "update_aprom"
    <3>1. CASE toMcu' = toMcu
      BY <3>1
    <3>2. ASSUME NEW i, toMcu' = Append(toMcu, PackageMsg(i, 0))
          PROVE  \A m \in On(toMcu') : m \in On(toMcu) \/ m.type = "update_aprom"
      BY <1>q, <1>m, <3>2
    <3> QED BY <1>25, <3>1, <3>2
  <2>5. \A m \in On(toMcu') : m.type # "run_aprom"
    BY <2>3, <2>4 DEF Links, LinkTypes
  <2> QED BY <1>25, <2>2, <2>5 DEF Programming
<1>26. CASE RecvConnect
  BY <1>26, <1>25, <1>q DEF RecvConnect, ConnectAccepted, LinkHead, SendPackage
<1>27. CASE PowerLossInSave
  <2>1. /\ toEsp' = <<>> /\ On(toEsp') = {} /\ UNCHANGED <<toMcu, mcu>>
    BY <1>27, <1>q DEF PowerLossInSave, CutSave, Restart
  <2>2. CASE CutSave(ConnectAccepted, ConnectedInfo)
    BY <1>25, <2>1, <2>2 DEF CutSave
  <2>3. CASE CutSave(CanRequest, SizedInfo)
    <3>1. flash'.upgrade_status = "process" => flash.upgrade_status = "process"
      BY <1>v, <2>3 DEF CutSave, CanRequest
    <3> QED BY <2>1, <3>1, ProgrammingKept
  <2>4. CASE \/ CutSave(PackageAnswered /\ ImageSent, DoneInfo)
             \/ CutSave(ProtocolHead("upgrade"), NeedInfo) \/ CutSave(ProtocolHead("status"), SuccessInfo)
             \/ CutSave(ConnectExpires /\ LastConnect, TimeoutInfo)
             \/ CutSave(CanRequest, ForcedInfo) \/ CutSave(~up, ClearedInfo)
    <3>1. flash'.upgrade_status # "process"
      BY <1>v, <2>4 DEF CutSave
    <3> QED BY <2>1, <3>1, ProgrammingKept
  <2> QED BY <1>27, <2>2, <2>3, <2>4 DEF PowerLossInSave
<1>28. CASE McuRuns
  <2>1. /\ toMcu # <<>> /\ Head(toMcu) \in On(toMcu) /\ Head(toMcu).type = "run_aprom"
        /\ toEsp' = Append(toEsp, Msg("run_aprom")) /\ UNCHANGED flash
    BY <1>28, <1>q DEF McuRuns, McuHead, Answer, espVars, infoVars
  <2>2. flash.upgrade_status # "process"
    BY <2>1 DEF Programming
  <2>3. \A m \in On(toEsp) : m.type # "connect"
    BY <1>t, <2>1 DEF Links, LinkTypes
  <2> QED BY <1>q, <1>m, <2>1, <2>2, <2>3 DEF Programming
<1>29. CASE UNCHANGED vars
  BY <1>29 DEF vars, infoVars, bootVars, wires, Programming
<1> QED
  BY <1>1, <1>2, <1>3, <1>4, <1>5, <1>6, <1>7, <1>8, <1>9, <1>10, <1>11, <1>12, <1>13, <1>14, <1>15, <1>16, <1>17, <1>18, <1>19, <1>20, <1>21, <1>22, <1>23, <1>24, <1>26, <1>27, <1>28, <1>29
     DEF Next, Boot, RecvLink, RecvProtocol, BootTimer, AckTimer, Upgrade, McuWorks, Fault

\* Every budget has the MCU answer before the ESP's timers expire.
PromptAnswers == \A budget \in Budgets : ~budget.late

LEMMA ProgrammingInvariance == PromptAnswers => (Spec => []PInv)
<1>1. Init /\ PromptAnswers => PInv
  <2> SUFFICES ASSUME Init, PromptAnswers PROVE PInv
    OBVIOUS
  <2>1. DInv
    BY DeliveryInit DEF Init, PromptAnswers
  <2>2. Programming
    BY NothingOn DEF Init, Programming, ErasedInfo
  <2> QED BY <2>1, <2>2 DEF PInv
<1>2. PInv /\ [Next]_vars => PInv'
  BY NextInv, DeliveryStep, StaysPrompt, ProgrammingStep DEF PInv, DInv, IInv, TypeOK
<1> QED BY <1>1, <1>2, PTL DEF Spec

\* What each save makes of the record that a transfer is under way.
LEMMA NeedSaved ==
  ASSUME TypeOK, PhaseRecorded
  PROVE  /\ \A info \in {ConnectedInfo, NeedInfo, ForcedInfo} :
              flash' = info => get_is_mcu_need_upgrade_first'
         /\ \A info \in {DoneInfo, SuccessInfo, TimeoutInfo, ClearedInfo, ErasedInfo} :
              flash' = info => ~get_is_mcu_need_upgrade_first'
         /\ up /\ flash' = SizedInfo =>
              (get_is_mcu_need_upgrade_first' <=> get_is_mcu_need_upgrade_first)
<1>t. mcu_boot_info \in InfoType /\ flash \in InfoType
  BY DEF TypeOK
<1>1. \A info \in {ConnectedInfo, NeedInfo, ForcedInfo} :
        info.magic /\ (info.is_need_upgrade \/ info.upgrade_status = "process")
  BY <1>t, InfoTypes
<1>2. \A info \in {DoneInfo, SuccessInfo, TimeoutInfo, ClearedInfo} :
        ~info.is_need_upgrade /\ info.upgrade_status # "process"
  BY <1>t DEF InfoType, WithFlags, DoneInfo, SuccessInfo, TimeoutInfo, ClearedInfo
<1>3. ~ErasedInfo.magic
  BY DEF ErasedInfo
<1>4. up => /\ SizedInfo.magic /\ flash.magic
            /\ SizedInfo.is_need_upgrade = flash.is_need_upgrade
            /\ SizedInfo.upgrade_status = flash.upgrade_status
  BY <1>t DEF InfoType, SizedInfo, PhaseRecorded
<1> QED BY <1>1, <1>2, <1>3, <1>4 DEF get_is_mcu_need_upgrade_first

\* A power loss inside a save is a power loss before it or after it.
LEMMA CutTransfer ==
  ASSUME PInv, PowerLossInSave
  PROVE  Handed!Off \/ Handed!BeginOff \/ Handed!Forget
<1> DEFINE need == get_is_mcu_need_upgrade_first
<1>t. TypeOK /\ PhaseRecorded /\ (~up => ~is_mcu_in_boot)
  BY DEF PInv, DInv, IInv, Details
<1>1. ~up' /\ ~is_mcu_in_boot'
  BY DEF PowerLossInSave, CutSave, Restart
<1>2. CASE \/ CutSave(ConnectAccepted, ConnectedInfo) \/ CutSave(ProtocolHead("upgrade"), NeedInfo)
           \/ CutSave(CanRequest, ForcedInfo)
  <2>1. up /\ (need' \/ ~need')
    BY <1>2 DEF CutSave, ConnectAccepted, LinkHead, ProtocolHead, CanRequest
  <2> QED BY <1>1, <2>1 DEF Handed!Off, Handed!BeginOff
<1>3. CASE \/ CutSave(PackageAnswered /\ ImageSent, DoneInfo) \/ CutSave(ProtocolHead("status"), SuccessInfo)
           \/ CutSave(ConnectExpires /\ LastConnect, TimeoutInfo)
  <2>1. up
    BY <1>3 DEF CutSave, PackageAnswered, LinkHead, ProtocolHead, ConnectExpires
  <2>2. ~need'
    BY <1>3, <1>t, NeedSaved DEF CutSave
  <2> QED BY <1>1, <2>1, <2>2 DEF Handed!Off
<1>4. CASE CutSave(CanRequest, SizedInfo)
  <2>1. up /\ (need' => need)
    BY <1>4, <1>t, NeedSaved DEF CutSave, CanRequest
  <2> QED BY <1>1, <2>1 DEF Handed!Off
<1>5. CASE CutSave(~up, ClearedInfo)
  <2>1. ~up /\ ~need'
    BY <1>5, <1>t, NeedSaved DEF CutSave
  <2>2. UNCHANGED <<up, is_mcu_in_boot>>
    BY <1>5, <1>t, <2>1 DEF TypeOK, CutSave, Restart
  <2> QED BY <2>1, <2>2 DEF Handed!Forget
<1> QED BY <1>2, <1>3, <1>4, <1>5 DEF PowerLossInSave

\* Each handler that touches the record is a step of Transfer, and so is each
\* power loss; the messages, the timers that send again and the MCU are not
\* seen there.
LEMMA TransferStep ==
  ASSUME PInv, PInv', [Next]_vars
  PROVE  [Handed!Next]_(Handed!vars)
<1> DEFINE need == get_is_mcu_need_upgrade_first
<1> USE DEF Handed!vars
<1>t. TypeOK /\ PhaseRecorded /\ (~up => ~is_mcu_in_boot)
  BY DEF PInv, DInv, IInv, Details
<1>1. CASE BootCorrupt \/ BootKeyPressed
  <2>1. ~up /\ up' /\ flash' = ClearedInfo /\ is_mcu_in_boot' = is_mcu_in_boot
    BY <1>1 DEF BootCorrupt, BootKeyPressed, Booting, ClearInfo, SetBootInfo, bootVars
  <2>2. ~need'
    BY <1>t, <2>1, NeedSaved
  <2>3. Handed!Boot
    BY <1>t, <2>1, <2>2 DEF Handed!Boot
  <2> QED BY <2>3 DEF Handed!Next
<1>2. CASE BootResume
  <2>1. /\ ~up /\ up' /\ flash.magic /\ flash' = flash
        /\ is_mcu_in_boot' => flash.is_need_upgrade \/ is_mcu_in_boot
    BY <1>2 DEF BootResume, Booting, SetInBoot, bootVars
  <2>2. Handed!Boot
    BY <1>t, <2>1 DEF Handed!Boot, get_is_mcu_need_upgrade_first
  <2> QED BY <2>2 DEF Handed!Next
<1>3. CASE RecvConnect \/ RecvUpgrade \/ UpgradeForce
  <2>1. up /\ UNCHANGED up /\ is_mcu_in_boot' /\ flash' \in {ConnectedInfo, NeedInfo, ForcedInfo}
    BY <1>3 DEF RecvConnect, ConnectAccepted, LinkHead, RecvUpgrade, ProtocolHead,
                UpgradeForce, Request, SetBootInfo, SetInBoot
  <2>2. Handed!Begin
    BY <1>t, <2>1, NeedSaved DEF Handed!Begin
  <2> QED BY <2>2 DEF Handed!Next
<1>4. CASE RecvLastAnswer
  <2>1. up /\ is_mcu_in_boot /\ UNCHANGED <<up, is_mcu_in_boot>> /\ flash' = DoneInfo
    BY <1>4 DEF RecvLastAnswer, PackageAnswered, LinkHead, SetBootInfo, bootVars
  <2>2. flash'.upgrade_status = "done"
    BY <1>t, <2>1, InfoTypes DEF TypeOK
  <2>3. (Image \subseteq mcu.got \union InFlight)'
    BY <2>2 DEF PInv, DInv, Delivery, Kept, Whole
  <2>4. ~need'
    BY <1>t, <2>1, NeedSaved
  <2>5. Handed!Done \/ UNCHANGED <<up, is_mcu_in_boot, need>>
    BY <2>1, <2>3, <2>4 DEF Handed!Done, get_is_mcu_need_upgrade_first
  <2> QED BY <2>5 DEF Handed!Next
<1>5. CASE RecvStatus
  <2>1. /\ up /\ ~is_mcu_in_boot /\ UNCHANGED <<up, is_mcu_in_boot>> /\ flash' = SuccessInfo
        /\ toEsp # <<>> /\ Head(toEsp).type = "status"
    BY <1>5 DEF RecvStatus, ProtocolHead, SetBootInfo, bootVars
  <2>2. Head(toEsp) \in On(toEsp)
    BY <1>t, <2>1, WireContents DEF TypeOK
  <2>3. ~need
    BY <1>t, <2>1, <2>2 DEF PInv, Programming, PhaseRecorded, get_is_mcu_need_upgrade_first
  <2>4. ~need'
    BY <1>t, <2>1, NeedSaved
  <2> QED BY <2>1, <2>3, <2>4 DEF get_is_mcu_need_upgrade_first
<1>6. CASE ConnectTimeout
  <2>1. /\ up /\ is_mcu_in_boot /\ boot_status = "connect"
        /\ UNCHANGED up /\ ~is_mcu_in_boot' /\ flash' = TimeoutInfo /\ mcu_upgrade_ret' = "connect_err"
    BY <1>6 DEF ConnectTimeout, ConnectExpires, SetBootInfo
  <2>2. need
    BY <1>t, <2>1 DEF PhaseRecorded, get_is_mcu_need_upgrade_first
  <2>3. ~need'
    BY <1>t, <2>1, NeedSaved
  <2>4. Handed!GiveUp
    BY <2>1, <2>2, <2>3 DEF Handed!GiveUp
  <2> QED BY <2>4 DEF Handed!Next
<1>7. CASE UpgradeRequest
  <2>1. up /\ UNCHANGED <<up, is_mcu_in_boot>> /\ flash' = SizedInfo
    BY <1>7 DEF UpgradeRequest, Request, SetBootInfo, bootVars
  <2>2. need' <=> need
    BY <1>t, <2>1, NeedSaved
  <2> QED BY <2>1, <2>2 DEF get_is_mcu_need_upgrade_first
<1>8. CASE Crash
  <2>1. up /\ ~up' /\ ~is_mcu_in_boot' /\ flash' = flash
    BY <1>8 DEF Crash, Restart
  <2>2. Handed!Off
    BY <2>1 DEF Handed!Off, get_is_mcu_need_upgrade_first
  <2> QED BY <2>2 DEF Handed!Next
<1>9. CASE PowerLossInSave
  BY <1>9, CutTransfer DEF Handed!Next
<1>10. CASE UNCHANGED <<up, flash, is_mcu_in_boot>>
  BY <1>10 DEF get_is_mcu_need_upgrade_first
<1> QED
  BY <1>1, <1>2, <1>3, <1>4, <1>5, <1>6, <1>7, <1>8, <1>9, <1>10
     DEF Next, vars, infoVars, bootVars, espVars, Boot, RecvLink, RecvPackageAnswer, IgnoreLink,
         RecvProtocol, IgnoreProtocol, BootTimer, ConnectRetry, ResendPackage,
         AckTimer, ProtocolResend, ProtocolTimeout, Upgrade,
         McuWorks, McuAnswersCommand, McuEntersBoot, McuAcceptsConnect,
         McuProgramsPackage, McuRuns, McuIgnores, McuRefuses, Fault, LoseMessage

\* When answers are prompt, whatever is lost, refused or cut off, a transfer
\* ends only with the image in the MCU or the failure on record, and
\* get_is_mcu_in_boot and get_is_mcu_need_upgrade_first (mcu_boot.c) tell that
\* it is under way: McuBoot implements what Upgrade takes it for.
THEOREM TransferCorrect == PromptAnswers => (Spec => Transfers)
<1>1. Init => Handed!Init
  BY DEF Init, Handed!Init, get_is_mcu_need_upgrade_first, ErasedInfo
<1>2. PInv /\ PInv' /\ [Next]_vars => [Handed!Next]_(Handed!vars)
  BY TransferStep
<1> QED BY <1>1, <1>2, ProgrammingInvariance, PTL DEF Spec, Transfers, Handed!Spec
=============================================================================
