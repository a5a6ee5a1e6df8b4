------------------------------- MODULE Upgrade -------------------------------
(***************************************************************************)
(* The upgrade state machine (user/upgrade_func.c): who asks for an        *)
(* upgrade, what is downloaded, which of the two processors is             *)
(* reprogrammed in which order, when the device restarts and into what.    *)
(*                                                                         *)
(* Handlers and the main loop run to completion, so each is one action;    *)
(* upgrade_update handles MCU_FILE_SAVE, UPDATE_WIFI and UPDATE_END in one *)
(* run, in this order.  Power can fail between two actions, and inside the *)
(* ones that write the flash.  The download and the transfer to the MCU    *)
(* appear by their effects: modules Download and McuBoot have the detail.  *)
(*                                                                         *)
(* A firmware file holds one image for the MCU and one for the Wi-Fi chip, *)
(* each with a version and a checksum.                                     *)
(***************************************************************************)
EXTENDS Naturals

CONSTANTS
  MaxVersion,              \* versions are 1 .. MaxVersion
  UPGRADE_RETRY_MAX,
  Overrun,                 \* whether the running bank is within reach of an image
                           \* without a length: see OthersIntact in Image
  Budgets                  \* what may go wrong: a set of elements of BudgetType

\* How often each thing may happen that no one can rely on: see Spend.
BudgetType == [request : Nat, corrupt : Nat, crash : Nat, drop : Nat, lost : Nat,
               key : Nat, renew : Nat, late : Nat]

ASSUME UpgradeAssumption ==
  /\ MaxVersion \in Nat \ {0}
  /\ UPGRADE_RETRY_MAX \in Nat
  /\ Overrun \in BOOLEAN
  /\ Budgets \subseteq BudgetType

Version == 1 .. MaxVersion
ErasedVersion == MaxVersion + 1   \* 255, read from an erased sector
Junk == 0                         \* an image that is not whole

VARIABLES
  up,                      \* the main loop runs
  upgrade_state, upgrade_type, request_latest_version,
  mcu_upgrade_ret, upgrade_retry_cnt, lastest_ver,
  upgrade_info,            \* the record at UPGRADE_INFO_ADDR; RAM has the same
  file,                    \* the download area
  mcu_area,                \* MCU_FIRMWARE_ADDR
  bank, userbin,           \* the two banks of the Wi-Fi chip, the running one
  waiting, asked,          \* protocol_step and its command; the server owes an answer
  conn,                    \* server_conn: to the main or to the upgrade server
  mcu_ver,                 \* what the MCU said its version is
  in_boot, need_first,     \* mcu_boot.c: is_mcu_in_boot, get_is_mcu_need_upgrade_first
  mcu_fw,                  \* what the MCU runs
  left                     \* what remains of one of Budgets

requestVars == <<upgrade_type, request_latest_version, lastest_ver>>
retryVars   == <<mcu_upgrade_ret, upgrade_retry_cnt>>
flashVars   == <<upgrade_info, file, mcu_area, bank, userbin>>
netVars     == <<waiting, asked, conn>>
mcuVars     == <<mcu_ver, in_boot, need_first, mcu_fw>>
vars == <<up, upgrade_state, requestVars, retryVars, flashVars, netVars, mcuVars, left>>

Spend(what) == left[what] > 0 /\ left' = [left EXCEPT ![what] = @ - 1]

Releases == [wifi : Version, mcu : Version]
Files    == [wifi : Version \union {ErasedVersion}, mcu : Version \union {ErasedVersion},
             wifi_ok : BOOLEAN, mcu_ok : BOOLEAN]
NoFile   == [wifi |-> ErasedVersion, mcu |-> ErasedVersion,
             wifi_ok |-> FALSE, mcu_ok |-> FALSE]
FileOf(r, w, m) == [wifi |-> r.wifi, mcu |-> r.mcu, wifi_ok |-> w, mcu_ok |-> m]

version_get_major == bank[userbin]
BugOther == userbin
other == 1 - userbin

Need(need) == [upgrade_info EXCEPT !.magic = TRUE, !.is_need_upgrade = need]

Init ==
  /\ up = TRUE
  /\ upgrade_state = "idle" /\ upgrade_type = "request"
  /\ request_latest_version = FALSE /\ lastest_ver = [wifi |-> 1, mcu |-> 1]
  /\ mcu_upgrade_ret = "success" /\ upgrade_retry_cnt = 0
  /\ upgrade_info = [magic |-> TRUE, type |-> "request", is_need_upgrade |-> FALSE]
  /\ file = NoFile /\ mcu_area = Junk
  /\ bank = [b \in 0 .. 1 |-> IF b = 0 THEN 1 ELSE Junk] /\ userbin = 0
  /\ waiting = "none" /\ asked = FALSE /\ conn = "none"
  /\ mcu_ver = 0 /\ in_boot = FALSE /\ need_first = FALSE /\ mcu_fw = 1
  /\ left \in Budgets

-----------------------------------------------------------------------------
(* The protocol and the connection.                                        *)

get_is_upgrade_need_net == upgrade_state \in {"connecting", "download"}

\* protocol_send(PROTOCOL_CH_NET, CMD_GET_FIRMWARE_VER, true): dropped while
\* another command waits; only the main server would answer.
SendGetVersion ==
  IF waiting = "none"
    THEN waiting' = "get_version" /\ asked' = (conn = "main")
    ELSE UNCHANGED <<waiting, asked>>

\* The answer does not come, RETRY_CNT times; nothing else happens.
AnswerTimeout ==
  /\ up /\ waiting # "none"
  /\ Spend("lost")
  /\ waiting' = "none"
  /\ UNCHANGED <<up, upgrade_state, requestVars, retryVars, flashVars, asked, conn, mcuVars>>

\* net_update: a connection to the main server, unless the upgrade needs it.
ServerConnect ==
  /\ up /\ conn = "none" /\ ~get_is_upgrade_need_net
  /\ conn' = "main"
  /\ UNCHANGED <<up, upgrade_state, requestVars, retryVars, flashVars, waiting, asked,
                 mcuVars, left>>

\* The connection is lost (one to the main server that fails is set up again
\* at once, which is the same as ServerConnect).
ServerLost ==
  /\ up /\ conn # "none"
  /\ Spend("drop")
  /\ conn' = "none" /\ asked' = FALSE
  /\ UNCHANGED <<up, upgrade_state, requestVars, retryVars, flashVars, waiting, mcuVars>>

\* CMD_TRANS_VERSION.
TransVersion ==
  /\ up /\ ~in_boot
  /\ mcu_ver' = mcu_fw
  /\ UNCHANGED <<up, upgrade_state, requestVars, retryVars, flashVars, netVars,
                 in_boot, need_first, mcu_fw, left>>

-----------------------------------------------------------------------------
(* Requests and versions.                                                  *)

BugNeeded(type) == type = "force"
Needed(type) == type # "force"

\* CMD_MCU_UPGRADE_REQUEST of the MCU: set_upgrade_type, then
\* set_request_latest_version.
McuRequest(type) ==
  /\ up /\ ~in_boot
  /\ Spend("request")
  /\ upgrade_type' = type
  /\ upgrade_info' = [Need(Needed(type)) EXCEPT !.type = type]
  /\ request_latest_version' = (conn = "none")
  /\ IF conn # "none" THEN SendGetVersion ELSE UNCHANGED <<waiting, asked>>
  /\ UNCHANGED <<up, upgrade_state, retryVars, file, mcu_area, bank, userbin,
                 lastest_ver, conn, mcuVars>>

\* upgrade_update: a request that found no connection.  The flag stays set
\* until an answer comes.
AskLater ==
  /\ up /\ request_latest_version /\ conn # "none" /\ waiting = "none"
  /\ SendGetVersion
  /\ UNCHANGED <<up, upgrade_state, requestVars, retryVars, flashVars, conn, mcuVars, left>>

\* An upgrade that was not forced needs a newer version of something.
NothingNewer(r) ==
  upgrade_type # "force" /\ r.mcu <= mcu_ver /\ r.wifi <= version_get_major

Answered == /\ up /\ asked /\ conn = "main"
            /\ asked' = FALSE /\ waiting' = "none"
            /\ request_latest_version' = FALSE

\* CMD_GET_FIRMWARE_VER: set_upgrade_get_version.
GetVersionOld(r) ==
  /\ Answered /\ NothingNewer(r)
  /\ upgrade_state' = "idle"
  /\ upgrade_info' = Need(FALSE)
  /\ UNCHANGED <<up, upgrade_type, lastest_ver, retryVars, file, mcu_area, bank, userbin,
                 conn, mcuVars, left>>

\* ... and http_get, which drops the connection to the main server.
GetVersionNew(r) ==
  /\ Answered /\ ~NothingNewer(r)
  /\ lastest_ver' = r
  /\ upgrade_state' = "connecting"
  /\ conn' = "none"
  /\ UNCHANGED <<up, upgrade_type, retryVars, flashVars, mcuVars, left>>

-----------------------------------------------------------------------------
(* The download (module Download).                                         *)

\* http_connect_cb, for the first connection ...
HttpConnect ==
  /\ up /\ upgrade_state = "connecting"
  /\ conn' = "upgrade"
  /\ upgrade_state' = "download"
  /\ UNCHANGED <<up, requestVars, retryVars, flashVars, waiting, asked, mcuVars, left>>

\* ... and when tcp_reconnect_cb renews it: the state becomes DOWNLOAD
\* whatever it was, and the file is fetched again.
HttpReconnect ==
  /\ up /\ conn = "upgrade"
  /\ Spend("renew")
  /\ upgrade_state' = "download"
  /\ UNCHANGED <<up, requestVars, retryVars, flashVars, netVars, mcuVars>>

\* A part of the file is in the flash, with or without its first sector.
HttpPart ==
  /\ up /\ upgrade_state = "download" /\ conn = "upgrade"
  /\ file' \in {NoFile, FileOf(lastest_ver, FALSE, FALSE)}
  /\ UNCHANGED <<up, upgrade_state, requestVars, retryVars, upgrade_info, mcu_area, bank,
                 userbin, netVars, mcuVars, left>>

\* set_upgrade_download_done; wifi_upgrade_ret is never anything but SUCCESS.
DownloadDone ==
  IF upgrade_type # "force"
    THEN conn' = "none" /\ upgrade_state' = "wait_percent2"
    ELSE UNCHANGED conn /\ upgrade_state' = "mcu_file_save"

\* The whole file.  What the server sent may be bad.
HttpDone(w, m) ==
  /\ up /\ upgrade_state = "download" /\ conn = "upgrade"
  /\ IF w /\ m THEN UNCHANGED left ELSE Spend("corrupt")
  /\ file' = FileOf(lastest_ver, w, m)
  /\ DownloadDone
  /\ UNCHANGED <<up, requestVars, retryVars, upgrade_info, mcu_area, bank, userbin,
                 waiting, asked, mcuVars>>

\* The response's header came in pieces and nothing was saved: the file is the
\* one that was there before (see SavedIsComplete in Download).
HttpEarly ==
  /\ up /\ upgrade_state = "download" /\ conn = "upgrade"
  /\ Spend("corrupt")
  /\ DownloadDone
  /\ UNCHANGED <<up, requestVars, retryVars, flashVars, waiting, asked, mcuVars>>

\* A status other than 200: clear_is_need_upgrade.
HttpError ==
  /\ up /\ upgrade_state = "download" /\ conn = "upgrade"
  /\ Spend("corrupt")
  /\ upgrade_info' = Need(FALSE)
  /\ upgrade_state' = "idle"
  /\ UNCHANGED <<up, requestVars, retryVars, file, mcu_area, bank, userbin, netVars, mcuVars>>

-----------------------------------------------------------------------------
(* Progress reports: the app polls, and a state that waits for its poll    *)
(* goes on.                                                                *)

\* CMD_REQUEST_UPGRADE_STATUS: set_get_percent.
GetPercent ==
  /\ up /\ conn = "main"
  /\ \/ upgrade_state = "wait_percent2" /\ upgrade_state' = "mcu_file_save"
     \/ upgrade_state = "wait_percent3" /\ upgrade_state' = "wait_percent3_done"
     \/ upgrade_state = "wait_percent4" /\ upgrade_state' = "wait_percent4_done"
  /\ UNCHANGED <<up, requestVars, retryVars, flashVars, netVars, mcuVars, left>>

\* tcp_send_cb, for anything sent: set_send_done.
SendDone ==
  /\ up /\ conn # "none" /\ upgrade_state = "wait_percent3_done"
  /\ upgrade_state' = "update_wifi"
  /\ UNCHANGED <<up, requestVars, retryVars, flashVars, netVars, mcuVars, left>>

\* ... after a Wi-Fi upgrade: the device restarts into the other bank.
SendDoneReboot ==
  /\ up /\ conn # "none" /\ upgrade_state = "wait_percent4_done"
  /\ userbin' = other
  /\ up' = FALSE
  /\ UNCHANGED <<upgrade_state, requestVars, retryVars, upgrade_info, file, mcu_area, bank,
                 netVars, mcuVars, left>>

-----------------------------------------------------------------------------
(* upgrade_update.                                                         *)

BugWifiOld == FALSE
BugWifiSame == file.wifi < version_get_major
WifiOld == file.wifi <= version_get_major

\* upgrade_wifi: no restart shall resume it, so the record is cleared first.
\* An image with a bad checksum is tried again in the next run of the loop.
Wifi ==
  /\ upgrade_info' = Need(FALSE)
  /\ IF WifiOld
       THEN upgrade_state' = "idle" /\ UNCHANGED bank
       ELSE /\ bank' = [bank EXCEPT ![other] = IF file.wifi_ok THEN file.wifi ELSE Junk]
            /\ upgrade_state' = IF file.wifi_ok THEN "wait_percent4" ELSE "update_wifi"

UpdateWifi ==
  /\ up /\ upgrade_state = "update_wifi"
  /\ Wifi
  /\ UNCHANGED <<up, requestVars, retryVars, file, mcu_area, userbin, netVars, mcuVars, left>>

Save == up /\ upgrade_state = "mcu_file_save"
BugCrcMatches == TRUE
CrcMatches == file.mcu_ok
McuNewer == upgrade_type = "force" \/ file.mcu > mcu_ver

\* What upgrade_firmware_phase leaves at MCU_FIRMWARE_ADDR.
CopyToMcuArea == mcu_area' = IF file.mcu_ok THEN file.mcu ELSE Junk

\* upgrade_mcu_save, without a newer image for the MCU; then upgrade_wifi.
SaveSkipped ==
  /\ Save /\ ~McuNewer
  /\ Wifi
  /\ UNCHANGED <<up, requestVars, retryVars, file, mcu_area, userbin, netVars, mcuVars, left>>

\* With a bad image, in an upgrade that was requested: upgrade_wifi follows.
SaveBad ==
  /\ Save /\ McuNewer /\ ~CrcMatches /\ upgrade_type # "force"
  /\ CopyToMcuArea
  /\ mcu_upgrade_ret' = "crc_err"
  /\ Wifi
  /\ UNCHANGED <<up, requestVars, upgrade_retry_cnt, file, userbin, netVars, mcuVars, left>>

\* With a bad image, in a forced upgrade: UPDATE_END follows, which asks for
\* the file again, UPGRADE_RETRY_MAX times.
Retry == upgrade_retry_cnt < UPGRADE_RETRY_MAX
SaveForcedBad ==
  /\ Save /\ ~CrcMatches /\ upgrade_type = "force"
  /\ CopyToMcuArea
  /\ mcu_upgrade_ret' = "crc_err"
  /\ upgrade_state' = "idle"
  /\ IF Retry
       THEN /\ request_latest_version' = TRUE
            /\ upgrade_retry_cnt' = upgrade_retry_cnt + 1
            /\ UNCHANGED upgrade_info
       ELSE upgrade_info' = Need(FALSE) /\ UNCHANGED <<request_latest_version, upgrade_retry_cnt>>
  /\ UNCHANGED <<up, upgrade_type, lastest_ver, file, bank, userbin, netVars, mcuVars, left>>

\* With a good image: the MCU is asked to enter its boot loader (a request
\* that another command in progress drops), or is in it already.
SaveGood ==
  /\ Save /\ McuNewer /\ CrcMatches
  /\ CopyToMcuArea
  /\ upgrade_state' = "update_mcu"
  /\ IF upgrade_type = "force"
       THEN in_boot' = TRUE /\ need_first' = TRUE /\ UNCHANGED waiting
       ELSE /\ waiting' = IF waiting = "none" THEN "mcu_upgrade" ELSE waiting
            /\ UNCHANGED <<in_boot, need_first>>
  /\ UNCHANGED <<up, requestVars, retryVars, upgrade_info, file, bank, userbin, asked, conn,
                 mcu_ver, mcu_fw, left>>

\* The file's header is erased flash: the length read from it is beyond any
\* area, and the copy runs on into the firmware that executes it.
Overwritten ==
  /\ Overrun /\ up /\ file.wifi = ErasedVersion
  /\ upgrade_state = "update_wifi" \/ (Save /\ McuNewer)
  /\ up' = FALSE
  /\ bank' = [b \in 0 .. 1 |-> Junk]
  /\ UNCHANGED <<upgrade_state, requestVars, retryVars, upgrade_info, file, mcu_area,
                 userbin, netVars, mcuVars, left>>

-----------------------------------------------------------------------------
(* The transfer to the MCU (module McuBoot).                               *)

\* CMD_MCU_UPGRADE is answered: set_mcu_need_upgrade and set_mcu_in_boot.
SetInBoot ==
  /\ up /\ ~in_boot
  /\ waiting' = "none"
  /\ in_boot' = TRUE /\ need_first' = TRUE
  /\ UNCHANGED <<up, upgrade_state, requestVars, retryVars, flashVars, asked, conn, mcu_ver,
                 mcu_fw>>

McuEntersBoot == waiting = "mcu_upgrade" /\ SetInBoot /\ UNCHANGED left

\* ... when it is not waited for any more: it was given up, or asked for before
\* a restart.  The handler does not look at protocol_step.
McuEntersLate == waiting # "mcu_upgrade" /\ SetInBoot /\ Spend("late")

\* The last package is answered.
McuProgrammed ==
  /\ up /\ in_boot /\ need_first
  /\ mcu_fw' = mcu_area
  /\ need_first' = FALSE
  /\ UNCHANGED <<up, upgrade_state, requestVars, retryVars, flashVars, netVars, mcu_ver,
                 in_boot, left>>

\* The boot loader never accepts: set_mcu_upgrade_result(CONNECT_ERR).
McuSilent ==
  /\ up /\ in_boot /\ need_first
  /\ Spend("lost")
  /\ in_boot' = FALSE /\ need_first' = FALSE
  /\ mcu_upgrade_ret' = "connect_err"
  /\ upgrade_state' = IF upgrade_type # "force" /\ upgrade_state # "idle"
                        THEN "update_wifi" ELSE upgrade_state
  /\ UNCHANGED <<up, requestVars, upgrade_retry_cnt, flashVars, netVars, mcu_ver, mcu_fw>>

-----------------------------------------------------------------------------
(* Power failures, resets by the MCU (also CMD_RECONNECT), and the boot.   *)

Off == up /\ up' = FALSE
offVars == <<upgrade_state, requestVars, retryVars, netVars, mcuVars>>

Crash ==
  /\ Off /\ Spend("crash")
  /\ UNCHANGED <<offVars, flashVars>>

\* Between the erase and the write of the record: something was to be saved.
CrashInInfo ==
  /\ Off /\ Spend("crash")
  /\ \/ left.request > 0 /\ ~in_boot
     \/ asked /\ conn = "main"
     \/ upgrade_state \in {"update_wifi", "mcu_file_save", "download"}
  /\ upgrade_info' = [magic |-> FALSE, type |-> "erased", is_need_upgrade |-> TRUE]
  /\ UNCHANGED <<offVars, file, mcu_area, bank, userbin>>

\* While a bank is written ...
CrashInWifi ==
  /\ Off /\ Spend("crash")
  /\ upgrade_state = "update_wifi" /\ ~WifiOld
  /\ upgrade_info' = Need(FALSE)
  /\ bank' = [bank EXCEPT ![other] = Junk]
  /\ UNCHANGED <<offVars, file, mcu_area, userbin>>

\* ... or the copy of the MCU's image.
CrashInSave ==
  /\ Off /\ Spend("crash")
  /\ Save /\ McuNewer
  /\ mcu_area' = Junk
  /\ UNCHANGED <<offVars, upgrade_info, file, bank, userbin>>

\* Between the erase and the write of mcu_boot's record: it is lost.
CrashInBootInfo ==
  /\ Off /\ Spend("crash")
  /\ need_first
  /\ need_first' = FALSE
  /\ UNCHANGED <<upgrade_state, requestVars, retryVars, netVars, mcu_ver, in_boot, mcu_fw,
                 flashVars>>

\* The MCU, programmed and restarted, switches the ESP off and on.
PowerCycle ==
  /\ Off /\ in_boot /\ ~need_first
  /\ UNCHANGED <<offVars, flashVars, left>>

BugResume(k) == /\ ~k /\ upgrade_info.magic /\ upgrade_info.type # "force"
                /\ upgrade_info.is_need_upgrade
BugNoResume(k) == FALSE
Resume(k) == /\ ~k /\ upgrade_info.magic /\ upgrade_info.type # "force"
             /\ upgrade_info.is_need_upgrade /\ ~need_first

\* upgrade_init, after mcu_boot_init; k: the key is held down.  A transfer
\* to the MCU that was under way is taken up, or asked for again; one that is
\* over is reported to the MCU, which may answer later.
Boot(k) ==
  /\ ~up /\ up' = TRUE /\ bank[userbin] # Junk
  /\ IF k THEN Spend("key") ELSE UNCHANGED left
  /\ need_first' = (need_first /\ ~k)
  /\ in_boot' \in {FALSE, need_first'}
  /\ waiting' \in IF need_first' THEN {IF in_boot' THEN "none" ELSE "mcu_upgrade"}
                                 ELSE {"none", "status"}
  /\ upgrade_state' = IF Resume(k) THEN "wait_percent3" ELSE "idle"
  /\ upgrade_info' = IF k \/ ~upgrade_info.magic THEN Need(FALSE) ELSE upgrade_info
  /\ upgrade_type' = "request" /\ request_latest_version' = FALSE
  /\ lastest_ver' = [wifi |-> 1, mcu |-> 1]
  /\ mcu_upgrade_ret' = "success" /\ upgrade_retry_cnt' = 0
  /\ asked' = FALSE /\ conn' = "none" /\ mcu_ver' = 0
  /\ UNCHANGED <<file, mcu_area, bank, userbin, mcu_fw>>

Next ==
  \/ AnswerTimeout \/ ServerConnect \/ ServerLost \/ TransVersion
  \/ \E type \in {"request", "force"} : McuRequest(type)
  \/ AskLater
  \/ \E r \in Releases : GetVersionOld(r) \/ GetVersionNew(r)
  \/ HttpConnect \/ HttpReconnect \/ HttpPart \/ HttpEarly \/ HttpError
  \/ \E w, m \in BOOLEAN : HttpDone(w, m)
  \/ GetPercent \/ SendDone \/ SendDoneReboot
  \/ UpdateWifi \/ SaveSkipped \/ SaveBad \/ SaveForcedBad \/ SaveGood \/ Overwritten
  \/ McuEntersBoot \/ McuEntersLate \/ McuProgrammed \/ McuSilent
  \/ Crash \/ CrashInInfo \/ CrashInWifi \/ CrashInSave \/ CrashInBootInfo \/ PowerCycle
  \/ \E k \in BOOLEAN : Boot(k)

Spec == Init /\ [][Next]_vars

\* The main loop runs, what is sent is delivered, the server and the app
\* answer and poll, the MCU cooperates and switches the ESP off and on when it
\* was programmed.
Fairness ==
  /\ WF_vars(ServerConnect) /\ WF_vars(AskLater)
  /\ WF_vars(\E r \in Releases : GetVersionOld(r) \/ GetVersionNew(r))
  /\ WF_vars(HttpConnect) /\ WF_vars(HttpDone(TRUE, TRUE))
  /\ WF_vars(GetPercent) /\ WF_vars(SendDone) /\ WF_vars(SendDoneReboot)
  /\ WF_vars(UpdateWifi \/ SaveSkipped \/ SaveBad \/ SaveForcedBad \/ SaveGood)
  /\ WF_vars(McuEntersBoot) /\ WF_vars(McuProgrammed) /\ WF_vars(PowerCycle)
  /\ WF_vars(Boot(FALSE))
FairSpec == Spec /\ Fairness

-----------------------------------------------------------------------------
(* Properties.                                                             *)

TypeOK ==
  /\ up \in BOOLEAN
  /\ upgrade_state \in {"idle", "connecting", "download", "wait_percent2", "mcu_file_save",
       "update_mcu", "wait_percent3", "wait_percent3_done", "update_wifi",
       "wait_percent4", "wait_percent4_done"}
  /\ upgrade_type \in {"request", "force"} /\ request_latest_version \in BOOLEAN
  /\ lastest_ver \in Releases
  /\ mcu_upgrade_ret \in {"success", "crc_err", "connect_err"}
  /\ upgrade_retry_cnt \in 0 .. UPGRADE_RETRY_MAX
  /\ upgrade_info \in [magic : BOOLEAN, type : {"request", "force", "erased"},
                       is_need_upgrade : BOOLEAN]
  /\ file \in Files /\ mcu_area \in (Version \union {ErasedVersion}) \union {Junk}
  /\ bank \in [0 .. 1 -> Version \union {Junk}] /\ userbin \in 0 .. 1
  /\ waiting \in {"none", "get_version", "mcu_upgrade", "status"} /\ asked \in BOOLEAN
  /\ conn \in {"none", "main", "upgrade"}
  /\ mcu_ver \in 0 .. ErasedVersion /\ mcu_fw \in 0 .. ErasedVersion
  /\ in_boot \in BOOLEAN /\ need_first \in BOOLEAN
  /\ left \in BudgetType

\* The device always has a firmware to run: whatever is interrupted, lost or
\* corrupted, the bank it boots from holds a whole image.  With Overrun, that is
\* so as long as it runs: an upgrade that a boot takes up after a power failure
\* in the first sector's download can end it (Overwritten).
RunsWholeImage == up \/ ~Overrun => bank[userbin] \in Version

\* When the upgrade waits for its last progress report, whatever else is
\* asked for meanwhile, the other bank holds a whole image that is newer than
\* the running one: the report may restart the device at any time.
ReadyToRestart ==
  upgrade_state \in {"wait_percent4", "wait_percent4_done"} /\ up =>
    bank[other] \in Version /\ bank[other] > bank[userbin]

\* The Wi-Fi firmware is never replaced by an older one (with Overrun it may be
\* destroyed).
NeverOlder == [][version_get_major' >= version_get_major \/ (Overrun /\ ~up')]_vars

\* The next three are about one upgrade at a time, over a connection that is
\* not renewed once the file was fetched, with an MCU that answers while it is
\* waited for (see the hazards in README.md).

\* Until the Wi-Fi image's turn comes, an upgrade that was not forced is on
\* record, so that a restart at any point goes on with it.
StaysResumable ==
  up /\ upgrade_type = "request"
     /\ upgrade_state \in {"connecting", "download", "wait_percent2", "mcu_file_save",
                           "update_mcu"}
    => upgrade_info.is_need_upgrade

\* The MCU is never given anything but a whole image: not one with a bad
\* checksum, and not one whose copying was interrupted.
McuGetsWholeImage == (need_first => mcu_area # Junk) /\ mcu_fw # Junk

\* The Wi-Fi chip is not reprogrammed, nor restarted into its new firmware,
\* while the MCU waits for its image or receives it.
OneProcessorAtATime ==
  up /\ upgrade_state \in {"update_wifi", "wait_percent4", "wait_percent4_done"}
    => ~(in_boot /\ need_first)

\* Seen from here, a transfer to the MCU ends, while the power lasts, only with
\* the image in the MCU or the failure on record: the promise of Transfer, which
\* McuBoot keeps.
Handed == INSTANCE Transfer
  WITH delivered <- mcu_fw = mcu_area, failed <- mcu_upgrade_ret = "connect_err"
Transfers == Handed!Spec

\* In a behaviour without faults, an upgrade the MCU requested ends with the
\* Wi-Fi firmware that was offered.
NoFaults == \A f \in DOMAIN left \ {"request"} : left[f] = 0
Completes == NoFaults =>
  \A v \in Version :
    upgrade_state = "connecting" /\ upgrade_type = "request" /\ lastest_ver.wifi = v
      ~> version_get_major >= v
=============================================================================
