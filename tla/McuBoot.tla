------------------------------ MODULE McuBoot ------------------------------
(***************************************************************************)
(* Reprogramming the MCU over the UART: user/mcu_boot.c, the messages of   *)
(* user/mcu_link.c it exchanges with the MCU's boot loader, the commands   *)
(* of user/protocol.c that start and confirm an upgrade, and the point of  *)
(* user/upgrade_func.c that hands an image over to mcu_boot.               *)
(*                                                                         *)
(* The ESP's handlers are callbacks of one non-preemptive event loop, so   *)
(* each is one action.  The ESP can lose power between two handlers or     *)
(* inside a flash save (an erase followed by a write).  The MCU is not in  *)
(* this repository: it is modelled from the messages the ESP expects.      *)
(*                                                                         *)
(* Sizes and offsets count 128-byte packages (a partial last package       *)
(* counts as one): "firmware_offset < firmware_size" holds for the byte    *)
(* counts exactly when it holds for the package counts.                    *)
(***************************************************************************)
EXTENDS Naturals, Sequences, FiniteSets

CONSTANTS
  Packages,          \* packages of the image offered by the server
  ErasedSize,        \* firmware_size as read from an erased sector
  BOOT_CONNECT_CNT,
  RETRY_CNT,
  IndexMod,          \* values of the one-byte index field of a package message
  Cap,               \* bound: messages queued on each direction of the UART
  Budgets            \* what may go wrong: a set of elements of BudgetType

\* How many messages are lost or refused, how often the ESP loses power and an
\* upgrade is asked for, and whether the MCU may answer later than the ESP's
\* timers.
BudgetType == [loss : Nat, nack : Nat, crash : Nat, request : Nat, late : BOOLEAN]

ASSUME McuBootAssumption ==
  /\ Packages \in Nat \ {0}
  /\ ErasedSize \in Nat /\ ErasedSize > Packages
  /\ BOOT_CONNECT_CNT \in Nat \ {0}
  /\ RETRY_CNT \in Nat /\ RETRY_CNT >= 2
  /\ IndexMod \in Nat \ {0}
  /\ Cap \in Nat \ {0}
  /\ Budgets \subseteq BudgetType

VARIABLES
  up,                      \* the ESP runs its main loop
  flash,                   \* the McuBootInfo sector at MCU_UPGRADE_INFO_ADDR
  mcu_boot_info,           \* its copy in RAM
  is_mcu_in_boot, boot_status, boot_connect_cnt,
  firmware_offset, firmware_package_index, resend_try,
  protocol_step, send_cmd, protocol_resend_try,
  upgrade_state, upgrade_type, mcu_upgrade_ret,
  toMcu, toEsp,            \* the two directions of the UART
  mcu,                     \* the MCU: mode, firmware, packages programmed
  left                     \* what remains of one of Budgets

infoVars     == <<flash, mcu_boot_info>>
bootVars     == <<is_mcu_in_boot, boot_status, boot_connect_cnt>>
transferVars == <<firmware_offset, firmware_package_index, resend_try>>
protocolVars == <<protocol_step, send_cmd, protocol_resend_try>>
upgradeVars  == <<upgrade_state, upgrade_type, mcu_upgrade_ret>>
wires        == <<toMcu, toEsp>>
vars == <<up, infoVars, bootVars, transferVars, protocolVars, upgradeVars,
          wires, mcu, left>>

-----------------------------------------------------------------------------
(* Messages and persistent records.                                        *)

Requests == {"upgrade", "status"}             \* sent with need_ack
AppCmds  == Requests \union {"ready"}

\* "index" and "off" matter for update_aprom only; "ok" for the replies.
Msg(t)           == [type |-> t, index |-> 0, off |-> 0, ok |-> TRUE]
Reply(t, ok)     == [Msg(t) EXCEPT !.ok = ok]
PackageMsg(i, k) == [Msg("update_aprom") EXCEPT !.index = i, !.off = k]

ToMcuTypes == AppCmds \union {"connect", "update_aprom", "run_aprom"}
ToEspTypes == {"upgrade", "status", "connect", "update_aprom", "run_aprom"}
Messages(types) == [type : types, index : Nat, off : Nat, ok : BOOLEAN]

InfoType == [magic : BOOLEAN, is_need_upgrade : BOOLEAN,
             upgrade_status : {"none", "process", "done", "erased"},
             firmware_size : Nat]

\* A sector that was erased and not written yet reads as all ones.
ErasedInfo == [magic |-> FALSE, is_need_upgrade |-> TRUE,
               upgrade_status |-> "erased", firmware_size |-> ErasedSize]

\* What set_mcu_boot_info saves, for each of its callers.
WithFlags(need, status) ==
  [mcu_boot_info EXCEPT !.magic = TRUE, !.is_need_upgrade = need,
                        !.upgrade_status = status]
NeedInfo      == WithFlags(TRUE, "none")           \* set_mcu_need_upgrade
\* (Operators named Bug... are plausible mistakes in the definition that
\* follows them; each breaks a property, which shows what it guards against.)
BugSuccessInfo   == WithFlags(FALSE, "done")
SuccessInfo   == WithFlags(FALSE, "none")          \* set_mcu_upgrade_success
BugConnectedInfo == WithFlags(TRUE, "process")
ConnectedInfo == WithFlags(FALSE, "process")       \* CONNECT accepted
DoneInfo      == WithFlags(FALSE, "done")          \* last package acknowledged
TimeoutInfo   == WithFlags(FALSE, "none")          \* no answer to CONNECT
SizedInfo     == [mcu_boot_info EXCEPT !.magic = TRUE, !.firmware_size = Packages]
ForcedInfo    == [NeedInfo EXCEPT !.firmware_size = Packages]
ClearedInfo   == [flash EXCEPT !.magic = TRUE, !.is_need_upgrade = FALSE,
                               !.upgrade_status = "none"]

SetBootInfo(info) == mcu_boot_info' = info /\ flash' = info

-----------------------------------------------------------------------------
(* Sending.                                                                *)

\* Bound: what is in flight.  Only unprompted sends wait for room; a reply
\* takes the place of the message it answers.
Room == Len(toMcu) + Len(toEsp) < Cap

Quiet == toMcu = <<>> /\ toEsp = <<>>

\* A retry timer of the ESP expires.  When the MCU answers promptly nothing
\* is in flight by then.
TimerExpires == left.late \/ Quiet

\* protocol_send on the UART: refused while another request waits for its
\* answer (no caller looks at the -1).
ProtocolSend(cmd, need_ack) ==
  IF protocol_step # "idle"
    THEN UNCHANGED <<toMcu, protocolVars>>
    ELSE /\ toMcu' = Append(toMcu, Msg(cmd))
         /\ send_cmd' = cmd
         /\ protocol_step' = IF need_ack THEN "wait_recv" ELSE "idle"
         /\ UNCHANGED protocol_resend_try

BugSendPackage(index, off) ==
  /\ toMcu' = Append(toMcu, PackageMsg((index + 1) % IndexMod, off))
  /\ resend_try' = 0

\* mcu_boot_send_firmware_package, with the offset the payload is read from.
SendPackage(index, off) ==
  /\ toMcu' = Append(toMcu, PackageMsg(index % IndexMod, off))
  /\ resend_try' = 0

SetInBoot ==
  /\ is_mcu_in_boot' = TRUE
  /\ boot_connect_cnt' = 0
  /\ boot_status' = "connect"

-----------------------------------------------------------------------------
(* Messages of the boot loader: while is_mcu_in_boot, uart_trans_update    *)
(* hands everything received to mcu_link, and that to mcu_boot_handle.     *)

LinkHead(t) == up /\ is_mcu_in_boot /\ toEsp # <<>> /\ Head(toEsp).type = t

ConnectAccepted == LinkHead("connect") /\ Head(toEsp).ok

\* CONNECT accepted: whatever the phase, the transfer starts at package 0.
RecvConnect ==
  /\ ConnectAccepted
  /\ toEsp' = Tail(toEsp)
  /\ SetBootInfo(ConnectedInfo)
  /\ boot_status' = "send"
  /\ firmware_offset' = 0
  /\ firmware_package_index' = 1
  /\ SendPackage(1, 0)
  /\ UNCHANGED <<up, is_mcu_in_boot, boot_connect_cnt, protocolVars,
                 upgradeVars, mcu, left>>

BugPackageAnswered == LinkHead("update_aprom")
PackageAnswered == LinkHead("update_aprom") /\ boot_status = "send"

BugAdvance == 1
\* What an accepted package adds to the offset and to the index.
Advance == IF Head(toEsp).ok THEN 1 ELSE 0
BugImageSent == firmware_offset + Advance + 1 >= mcu_boot_info.firmware_size
ImageSent == firmware_offset + Advance >= mcu_boot_info.firmware_size

\* UPDATE_APROM answered and more to send: the next package, or the same one
\* again when the MCU refused it.  The answer names no package.
RecvPackageAnswer ==
  /\ PackageAnswered /\ ~ImageSent
  /\ toEsp' = Tail(toEsp)
  /\ firmware_offset' = firmware_offset + Advance
  /\ firmware_package_index' = firmware_package_index + Advance
  /\ SendPackage(firmware_package_index', firmware_offset')
  /\ UNCHANGED <<up, infoVars, bootVars, protocolVars, upgradeVars, mcu, left>>

\* The last package answered: "done" is saved, the MCU is told to run.
\* boot_status stays "send": no code assigns MCUBOOT_BOOT_FINISH.
RecvLastAnswer ==
  /\ PackageAnswered /\ ImageSent
  /\ toEsp' = Tail(toEsp)
  /\ firmware_offset' = firmware_offset + Advance
  /\ firmware_package_index' = firmware_package_index + Advance
  /\ SetBootInfo(DoneInfo)
  /\ toMcu' = Append(toMcu, Msg("run_aprom"))
  /\ resend_try' = 0
  /\ UNCHANGED <<up, bootVars, protocolVars, upgradeVars, mcu, left>>

\* A refused CONNECT, the answer to RUN_APROM, a package answered in another
\* phase, and frames of the application protocol.
IgnoreLink ==
  /\ up /\ is_mcu_in_boot /\ toEsp # <<>>
  /\ ~ConnectAccepted /\ ~PackageAnswered
  /\ toEsp' = Tail(toEsp)
  /\ UNCHANGED <<up, infoVars, bootVars, transferVars, protocolVars,
                 upgradeVars, toMcu, mcu, left>>

-----------------------------------------------------------------------------
(* Messages of the application: otherwise uart_trans_update hands a chunk  *)
(* of what was received to protocol_msg_parse, which handles its first     *)
(* message and leaves the rest of the chunk unread.                        *)

BugProtocolHead(t) == up /\ toEsp # <<>> /\ Head(toEsp).type = t
ProtocolHead(t) == up /\ ~is_mcu_in_boot /\ toEsp # <<>> /\ Head(toEsp).type = t

ReadChunk == \E n \in 1..Len(toEsp) : toEsp' = SubSeq(toEsp, n + 1, Len(toEsp))

\* CMD_MCU_UPGRADE: the MCU will reset into its boot loader.
RecvUpgrade ==
  /\ ProtocolHead("upgrade")
  /\ ReadChunk
  /\ SetBootInfo(NeedInfo)
  /\ SetInBoot
  /\ toMcu' = Append(toMcu, Msg("ready"))
  /\ send_cmd' = "ready"
  /\ protocol_step' = "idle"
  /\ UNCHANGED <<up, transferVars, protocol_resend_try, upgradeVars, mcu, left>>

\* CMD_MCU_UPGRADE_STATUS: the application that was programmed is running.
RecvStatus ==
  /\ ProtocolHead("status")
  /\ ReadChunk
  /\ SetBootInfo(SuccessInfo)
  /\ protocol_step' = "idle"
  /\ UNCHANGED <<up, bootVars, transferVars, send_cmd, protocol_resend_try,
                 upgradeVars, toMcu, mcu, left>>

\* Frames of the boot loader are not recognised.
IgnoreProtocol ==
  /\ up /\ ~is_mcu_in_boot /\ toEsp # <<>>
  /\ Head(toEsp).type \notin Requests
  /\ toEsp' = Tail(toEsp)
  /\ UNCHANGED <<up, infoVars, bootVars, transferVars, protocolVars,
                 upgradeVars, toMcu, mcu, left>>

-----------------------------------------------------------------------------
(* Timers, polled by every run of the main loop.                           *)

ConnectExpires == /\ up /\ is_mcu_in_boot /\ boot_status = "connect"
                  /\ TimerExpires /\ Room
LastConnect == boot_connect_cnt + 1 > BOOT_CONNECT_CNT

BugConnectRetry ==
  /\ ConnectExpires /\ ~LastConnect
  /\ toMcu' = Append(toMcu, Msg("connect"))
  /\ UNCHANGED <<up, infoVars, bootVars, transferVars, protocolVars,
                 upgradeVars, toEsp, mcu, left>>

ConnectRetry ==
  /\ ConnectExpires /\ ~LastConnect
  /\ toMcu' = Append(toMcu, Msg("connect"))
  /\ boot_connect_cnt' = boot_connect_cnt + 1
  /\ UNCHANGED <<up, infoVars, is_mcu_in_boot, boot_status, transferVars,
                 protocolVars, upgradeVars, toEsp, mcu, left>>

\* The MCU never accepted: give up on it, and let an upgrade that was not
\* forced go on with the Wi-Fi image (set_mcu_upgrade_result).
ConnectTimeout ==
  /\ ConnectExpires /\ LastConnect
  /\ toMcu' = Append(toMcu, Msg("connect"))
  /\ boot_connect_cnt' = boot_connect_cnt + 1
  /\ boot_status' = "idle"
  /\ is_mcu_in_boot' = FALSE
  /\ SetBootInfo(TimeoutInfo)
  /\ mcu_upgrade_ret' = "connect_err"
  /\ upgrade_state' = IF upgrade_type # "force" /\ upgrade_state # "idle"
                        THEN "update_wifi" ELSE upgrade_state
  /\ UNCHANGED <<up, transferVars, protocolVars, upgrade_type, toEsp, mcu, left>>

\* The package is sent again; resend_try was reset by the send and is then
\* incremented, so it never counts further than 1.
ResendPackage ==
  /\ up /\ is_mcu_in_boot /\ boot_status = "send"
  /\ resend_try < RETRY_CNT
  /\ TimerExpires /\ Room
  /\ toMcu' = Append(toMcu, PackageMsg(firmware_package_index % IndexMod,
                                       firmware_offset))
  /\ resend_try' = 0 + 1
  /\ UNCHANGED <<up, infoVars, bootVars, firmware_offset,
                 firmware_package_index, protocolVars, upgradeVars, toEsp,
                 mcu, left>>

AckExpires == up /\ protocol_step = "wait_recv" /\ TimerExpires

\* protocol_resend; only a restart ever resets its counter.
ProtocolResend ==
  /\ AckExpires /\ Room
  /\ protocol_resend_try < RETRY_CNT
  /\ toMcu' = Append(toMcu, Msg(send_cmd))
  /\ protocol_resend_try' = protocol_resend_try + 1
  /\ UNCHANGED <<up, infoVars, bootVars, transferVars, protocol_step,
                 send_cmd, upgradeVars, toEsp, mcu, left>>

\* protocol_msg_timeout_handle looks the command up past the end of what was
\* sent, finds none, and does nothing.
ProtocolTimeout ==
  /\ AckExpires
  /\ protocol_resend_try >= RETRY_CNT
  /\ protocol_step' = "idle"
  /\ UNCHANGED <<up, infoVars, bootVars, transferVars, send_cmd,
                 protocol_resend_try, upgradeVars, wires, mcu, left>>

-----------------------------------------------------------------------------
(* An image was downloaded and its checksum is right (upgrade_mcu_save).   *)

Request(type) ==
  /\ up /\ left.request > 0 /\ Room
  /\ left' = [left EXCEPT !.request = @ - 1]
  /\ upgrade_type' = type
  /\ upgrade_state' = "update_mcu"

\* The MCU runs its application and is asked to enter its boot loader.
UpgradeRequest ==
  /\ Request("request")
  /\ SetBootInfo(SizedInfo)
  /\ ProtocolSend("upgrade", TRUE)
  /\ UNCHANGED <<up, bootVars, transferVars, mcu_upgrade_ret, toEsp, mcu>>

\* mcu_upgrade_start: the MCU is in its boot loader and asked for an image.
UpgradeForce ==
  /\ Request("force")
  /\ SetBootInfo(ForcedInfo)
  /\ SetInBoot
  /\ UNCHANGED <<up, transferVars, protocolVars, mcu_upgrade_ret, wires, mcu>>

-----------------------------------------------------------------------------
(* Power-on (mcu_boot_init), restart and power loss.                       *)

BlankInfo == [magic |-> FALSE, is_need_upgrade |-> FALSE,
              upgrade_status |-> "none", firmware_size |-> 0]

Booting == ~up /\ up' = TRUE /\ toEsp' = <<>>

ClearInfo ==
  /\ SetBootInfo(ClearedInfo)
  /\ UNCHANGED <<bootVars, transferVars, protocolVars, upgradeVars, toMcu,
                 mcu, left>>

BootCorrupt    == Booting /\ ~flash.magic /\ ClearInfo
BootKeyPressed == Booting /\ flash.magic /\ ClearInfo

BootResume ==
  /\ Booting /\ flash.magic /\ Room
  /\ mcu_boot_info' = flash
  /\ IF flash.is_need_upgrade THEN SetInBoot ELSE UNCHANGED bootVars
  /\ CASE flash.upgrade_status = "process" -> ProtocolSend("upgrade", TRUE)
       [] flash.upgrade_status = "done"    -> ProtocolSend("status", TRUE)
       [] OTHER -> UNCHANGED <<toMcu, protocolVars>>
  /\ UNCHANGED <<flash, transferVars, upgradeVars, mcu, left>>

\* What is left in RAM and on the way to the ESP is lost.
Restart ==
  /\ up' = FALSE
  /\ mcu_boot_info' = BlankInfo
  /\ is_mcu_in_boot' = FALSE /\ boot_status' = "idle" /\ boot_connect_cnt' = 0
  /\ firmware_offset' = 0 /\ firmware_package_index' = 0 /\ resend_try' = 0
  /\ protocol_step' = "idle" /\ send_cmd' = "none" /\ protocol_resend_try' = 0
  /\ upgrade_state' = "idle" /\ upgrade_type' = "request"
  /\ mcu_upgrade_ret' = "success"
  /\ toEsp' = <<>>

SpendCrash == left.crash > 0 /\ left' = [left EXCEPT !.crash = @ - 1]

Crash == up /\ SpendCrash /\ Restart /\ UNCHANGED <<flash, toMcu, mcu>>

\* Power is lost while a handler that saves info is in its flash_write: the
\* sector is left erased or holds the new record, and nothing the handler
\* does after the save is done.
CutSave(handler, info) ==
  /\ handler /\ SpendCrash /\ Restart
  /\ flash' \in {ErasedInfo, info}
  /\ UNCHANGED <<toMcu, mcu>>

CanRequest == up /\ left.request > 0

PowerLossInSave ==
  \/ CutSave(ConnectAccepted, ConnectedInfo)
  \/ CutSave(PackageAnswered /\ ImageSent, DoneInfo)
  \/ CutSave(ProtocolHead("upgrade"), NeedInfo)
  \/ CutSave(ProtocolHead("status"), SuccessInfo)
  \/ CutSave(ConnectExpires /\ LastConnect, TimeoutInfo)
  \/ CutSave(CanRequest, SizedInfo)
  \/ CutSave(CanRequest, ForcedInfo)
  \/ CutSave(~up, ClearedInfo)

-----------------------------------------------------------------------------
(* The MCU and the wires (external).  The application answers the commands *)
(* of protocol.c and resets into the boot loader when told "ready"; the    *)
(* boot loader erases its image when it accepts CONNECT, programs the      *)
(* packages it accepts and runs the image when told to.                    *)

espVars == <<up, infoVars, bootVars, transferVars, protocolVars, upgradeVars>>

Image == 0 .. Packages - 1
Intact(m) == ~m.erased \/ Image \subseteq m.got

Answer(message) ==
  /\ toMcu' = Tail(toMcu)
  /\ toEsp' = Append(toEsp, message)
Consume == toMcu' = Tail(toMcu) /\ UNCHANGED toEsp
McuHead(mode) == toMcu # <<>> /\ mcu.mode = mode

McuAnswersCommand ==
  /\ McuHead("app") /\ Head(toMcu).type \in Requests
  /\ Answer(Msg(Head(toMcu).type))
  /\ UNCHANGED <<espVars, mcu, left>>

McuEntersBoot ==
  /\ McuHead("app") /\ Head(toMcu).type = "ready"
  /\ Consume
  /\ mcu' = [mcu EXCEPT !.mode = "boot"]
  /\ UNCHANGED <<espVars, left>>

McuAcceptsConnect ==
  /\ McuHead("boot") /\ Head(toMcu).type = "connect"
  /\ Answer(Msg("connect"))
  /\ mcu' = [mcu EXCEPT !.erased = TRUE, !.got = {}]
  /\ UNCHANGED <<espVars, left>>

McuProgramsPackage ==
  /\ McuHead("boot") /\ Head(toMcu).type = "update_aprom"
  /\ Answer(Msg("update_aprom"))
  /\ mcu' = [mcu EXCEPT !.got = @ \union {Head(toMcu).off}]
  /\ UNCHANGED <<espVars, left>>

McuRefuses ==
  /\ McuHead("boot") /\ Head(toMcu).type \in {"connect", "update_aprom"}
  /\ left.nack > 0 /\ left' = [left EXCEPT !.nack = @ - 1]
  /\ Answer(Reply(Head(toMcu).type, FALSE))
  /\ UNCHANGED <<espVars, mcu>>

McuRuns ==
  /\ McuHead("boot") /\ Head(toMcu).type = "run_aprom"
  /\ Answer(Msg("run_aprom"))
  /\ mcu' = [mcu EXCEPT !.mode = "app"]
  /\ UNCHANGED <<espVars, left>>

McuIgnores ==
  /\ \/ McuHead("app") /\ Head(toMcu).type \notin AppCmds
     \/ McuHead("boot") /\ Head(toMcu).type \in AppCmds
  /\ Consume
  /\ UNCHANGED <<espVars, mcu, left>>

Without(s, i) == SubSeq(s, 1, i - 1) \o SubSeq(s, i + 1, Len(s))

LoseMessage ==
  /\ left.loss > 0 /\ left' = [left EXCEPT !.loss = @ - 1]
  /\ \/ /\ \E i \in DOMAIN toMcu : toMcu' = Without(toMcu, i)
        /\ UNCHANGED toEsp
     \/ /\ \E i \in DOMAIN toEsp : toEsp' = Without(toEsp, i)
        /\ UNCHANGED toMcu
  /\ UNCHANGED <<espVars, mcu>>

-----------------------------------------------------------------------------
Init ==
  /\ up = FALSE
  /\ flash = ErasedInfo /\ mcu_boot_info = BlankInfo
  /\ is_mcu_in_boot = FALSE /\ boot_status = "idle" /\ boot_connect_cnt = 0
  /\ firmware_offset = 0 /\ firmware_package_index = 0 /\ resend_try = 0
  /\ protocol_step = "idle" /\ send_cmd = "none" /\ protocol_resend_try = 0
  /\ upgrade_state = "idle" /\ upgrade_type = "request"
  /\ mcu_upgrade_ret = "success"
  /\ toMcu = <<>> /\ toEsp = <<>>
  /\ \E mode \in {"app", "boot"} :
       mcu = [mode |-> mode, erased |-> FALSE, got |-> {}]
  /\ left \in Budgets

Boot == BootCorrupt \/ BootKeyPressed \/ BootResume
RecvLink == RecvConnect \/ RecvPackageAnswer \/ RecvLastAnswer \/ IgnoreLink
RecvProtocol == RecvUpgrade \/ RecvStatus \/ IgnoreProtocol
BootTimer == ConnectRetry \/ ConnectTimeout \/ ResendPackage
AckTimer == ProtocolResend \/ ProtocolTimeout
Upgrade == UpgradeRequest \/ UpgradeForce
Fault == Crash \/ PowerLossInSave \/ LoseMessage
McuWorks == \/ McuAnswersCommand \/ McuEntersBoot \/ McuAcceptsConnect
            \/ McuProgramsPackage \/ McuRuns \/ McuIgnores

Next == \/ Boot \/ RecvLink \/ RecvProtocol \/ BootTimer \/ AckTimer
        \/ Upgrade \/ McuWorks \/ McuRefuses \/ Fault

Spec == Init /\ [][Next]_vars

\* The main loop reads the UART and polls every timer each time it runs, and
\* runs for ever (os_timer_arm with repeat); a timer found expired fires then,
\* whatever else that run did.  The MCU reads what it is sent.
Fairness ==
  /\ WF_vars(Boot) /\ WF_vars(RecvLink) /\ WF_vars(RecvProtocol)
  /\ SF_vars(BootTimer) /\ SF_vars(AckTimer)
  /\ WF_vars(McuWorks)

FairSpec == Spec /\ Fairness

-----------------------------------------------------------------------------
(* Properties.                                                             *)

TypeOK ==
  /\ up \in BOOLEAN
  /\ flash \in InfoType /\ mcu_boot_info \in InfoType
  /\ is_mcu_in_boot \in BOOLEAN
  /\ boot_status \in {"idle", "connect", "send"}
  /\ boot_connect_cnt \in 0 .. BOOT_CONNECT_CNT + 1
  /\ firmware_offset \in Nat
  /\ firmware_package_index \in Nat
  /\ resend_try \in 0 .. RETRY_CNT
  /\ protocol_step \in {"idle", "wait_recv"}
  /\ send_cmd \in AppCmds \union {"none"}
  /\ protocol_resend_try \in 0 .. RETRY_CNT
  /\ upgrade_state \in {"idle", "update_mcu", "update_wifi"}
  /\ upgrade_type \in {"request", "force"}
  /\ mcu_upgrade_ret \in {"success", "connect_err"}
  /\ toMcu \in Seq(Messages(ToMcuTypes))
  /\ toEsp \in Seq(Messages(ToEspTypes))
  /\ mcu \in [mode : {"app", "boot"}, erased : BOOLEAN, got : SUBSET Nat]
  /\ left \in BudgetType

\* Whenever power may fail, the flash tells the phase of the running session:
\* the ESP is connecting exactly when the flash asks for an upgrade, and is
\* sending packages only when the flash says "process" or "done".
PhaseRecorded == up =>
  /\ mcu_boot_info = flash /\ flash.magic
  /\ is_mcu_in_boot <=> boot_status # "idle"
  /\ flash.is_need_upgrade <=> boot_status = "connect"
  /\ flash.is_need_upgrade => flash.upgrade_status = "none"
  /\ boot_status = "send" => flash.upgrade_status \in {"process", "done"}

\* However often packages are sent again, restarted or forced anew, a package
\* under way carries the index of its offset, and the ESP's own index and
\* offset stay in step; a pending resend never exhausts its retries.
Labelled(wire) == \A i \in DOMAIN wire : wire[i].type = "update_aprom" =>
                    wire[i].index = (wire[i].off + 1) % IndexMod
PackageLabel ==
  /\ boot_status = "send" =>
       firmware_package_index = firmware_offset + 1 /\ resend_try < RETRY_CNT
  /\ Labelled(toMcu)

\* "done" in the flash (include/mcu_boot.h: 2:done) means that every package
\* of the image is in the MCU or on its way to it.
InFlight == {toMcu[i].off : i \in {j \in DOMAIN toMcu : toMcu[j].type = "update_aprom"}}
DoneMeansDelivered ==
  flash.upgrade_status = "done" => Image \subseteq mcu.got \union InFlight

\* "done" is not in the flash while the MCU runs an incomplete image.
DoneImageIntact ==
  flash.upgrade_status = "done" /\ mcu.mode = "app" => Intact(mcu)

\* Seen from the MCU, packages arrive in order into an erased memory, and an
\* image with packages missing is never run: the promise of Install.
Installed == INSTANCE Install
  WITH mode <- mcu.mode, erased <- mcu.erased, got <- mcu.got
Installs == Installed!Spec

\* The code asks the copy in RAM, which PhaseRecorded equates with the flash;
\* with the power off this is what the next boot will find.
get_is_mcu_need_upgrade_first ==
  flash.magic /\ (flash.is_need_upgrade \/ flash.upgrade_status = "process")

\* Seen from upgrade_func.c, a transfer that was begun ends, as long as the
\* power lasts, only with the image delivered or the failure on record, and no
\* answer that arrives meanwhile ends it: the promise of Transfer, kept by an
\* MCU that answers before the ESP's timers expire.
Handed == INSTANCE Transfer
  WITH in_boot <- is_mcu_in_boot, need_first <- get_is_mcu_need_upgrade_first,
       delivered <- Image \subseteq mcu.got \union InFlight,
       failed <- mcu_upgrade_ret = "connect_err"
Transfers == Handed!Spec

\* Nothing keeps the ESP waiting for a silent MCU: connecting ends, by an
\* accepted CONNECT, the timeout or a restart, and so does the wait for a
\* command's acknowledgement, although its resend counter is never reset.
WaitsEnd ==
  /\ boot_status = "connect" ~> boot_status # "connect"
  /\ protocol_step = "wait_recv" ~> protocol_step = "idle"

\* Once the MCU accepted CONNECT, whatever is lost or refused on the way, it
\* ends up running the whole image, unless the ESP loses power or is asked for
\* another upgrade meanwhile.
UploadCompletes ==
  boot_status = "send"
    ~> (mcu.mode = "app" /\ Image \subseteq mcu.got) \/ ~up \/ boot_status = "connect"

\* When the ESP restarts after "done" and the application answers, the flash
\* records the success.
SuccessRecorded ==
  flash.upgrade_status = "done" /\ up /\ ~is_mcu_in_boot /\ mcu.mode = "app"
    ~> flash.upgrade_status # "done"

=============================================================================
