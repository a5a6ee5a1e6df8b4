---------------------------- MODULE UpgradeProofs ----------------------------
(***************************************************************************)
(* Proofs about Upgrade, for any number of versions, retries, requests and *)
(* faults: its types, and that the Wi-Fi chip always has a whole image to  *)
(* run, restarts only into a newer one, and never goes back; and, for one  *)
(* upgrade at a time, that it survives a restart, gives the MCU a whole    *)
(* image, and touches one processor at a time.                             *)
(***************************************************************************)
EXTENDS Upgrade, TLAPS

Infos   == [magic : BOOLEAN, type : {"request", "force", "erased"},
            is_need_upgrade : BOOLEAN]

\* The parts of TypeOK.
RamTypes ==
  /\ up \in BOOLEAN
  /\ upgrade_state \in {"idle", "connecting", "download", "wait_percent2", "mcu_file_save",
       "update_mcu", "wait_percent3", "wait_percent3_done", "update_wifi",
       "wait_percent4", "wait_percent4_done"}
  /\ upgrade_type \in {"request", "force"} /\ request_latest_version \in BOOLEAN
  /\ lastest_ver \in Releases
  /\ mcu_upgrade_ret \in {"success", "crc_err", "connect_err"}
  /\ upgrade_retry_cnt \in 0 .. UPGRADE_RETRY_MAX
FlashTypes ==
  /\ upgrade_info \in Infos
  /\ file \in Files /\ mcu_area \in (Version \union {ErasedVersion}) \union {Junk}
  /\ bank \in [0 .. 1 -> Version \union {Junk}] /\ userbin \in 0 .. 1
LinkTypes ==
  /\ waiting \in {"none", "get_version", "mcu_upgrade", "status"} /\ asked \in BOOLEAN
  /\ conn \in {"none", "main", "upgrade"}
  /\ mcu_ver \in 0 .. ErasedVersion /\ mcu_fw \in 0 .. ErasedVersion
  /\ in_boot \in BOOLEAN /\ need_first \in BOOLEAN

\* A Wi-Fi image whose checksum matches is one the server offered.
FileReleased == file.wifi_ok => file.wifi \in Version

\* The inductive invariant.  That the device boots a whole image rests on what
\* the other bank holds when it restarts, and that on where images come from.
IInv == TypeOK /\ RunsWholeImage /\ ReadyToRestart /\ FileReleased

-----------------------------------------------------------------------------
(* Values.                                                                 *)

LEMMA TypeParts == TypeOK <=> RamTypes /\ FlashTypes /\ LinkTypes /\ left \in BudgetType
BY DEF TypeOK, RamTypes, FlashTypes, LinkTypes, Infos, BudgetType

LEMMA TypePartsNext == TypeOK' <=> RamTypes' /\ FlashTypes' /\ LinkTypes' /\ left' \in BudgetType
BY DEF TypeOK, RamTypes, FlashTypes, LinkTypes, Infos, BudgetType

\* Versions are numbers; neither Junk nor an erased byte is one of them.
LEMMA VersionFacts ==
  /\ Version \subseteq Nat /\ Version \subseteq 0 .. ErasedVersion
  /\ ErasedVersion \in Nat /\ ErasedVersion \in 0 .. ErasedVersion
  /\ Junk \notin Version /\ Junk \in 0 .. ErasedVersion
  /\ 1 \in Version /\ 0 \in 0 .. ErasedVersion
BY UpgradeAssumption DEF Version, ErasedVersion, Junk

\* Spending keeps the type of what is left.
LEMMA Spending ==
  ASSUME left \in BudgetType,
         NEW what \in {"request", "corrupt", "crash", "drop", "lost", "key", "renew",
                   "late"},
         Spend(what)
  PROVE  left' \in BudgetType
<1>1. left[what] \in Nat /\ left[what] > 0
  BY DEF BudgetType, Spend
<1>2. left[what] - 1 \in Nat
  BY <1>1
<1> QED BY <1>2 DEF BudgetType, Spend

\* What set_upgrade_info saves is a record.
LEMMA NeedType ==
  ASSUME upgrade_info \in Infos
  PROVE  /\ \A need \in BOOLEAN : Need(need) \in Infos
         /\ \A need \in BOOLEAN, type \in {"request", "force"} :
              [Need(need) EXCEPT !.type = type] \in Infos
BY DEF Infos, Need

\* A downloaded file, whole or not.
LEMMA FileTypes ==
  ASSUME NEW r \in Releases, NEW w \in BOOLEAN, NEW m \in BOOLEAN
  PROVE  /\ FileOf(r, w, m) \in Files /\ FileOf(r, w, m).wifi \in Version
         /\ FileOf(r, w, m).wifi_ok = w
         /\ NoFile \in Files /\ ~NoFile.wifi_ok
BY DEF Releases, Files, FileOf, NoFile

\* The banks are two: the other one is not the running one.
LEMMA OtherBank ==
  ASSUME userbin \in 0 .. 1
  PROVE  other \in 0 .. 1 /\ other # userbin /\ 1 - other = userbin
BY DEF other

-----------------------------------------------------------------------------
(* upgrade_wifi, the one place that writes a bank.                         *)

LEMMA WifiInv ==
  ASSUME IInv, up, Wifi, UNCHANGED <<up, file, userbin>>
  PROVE  /\ upgrade_info' \in Infos
         /\ bank' \in [0 .. 1 -> Version \union {Junk}]
         /\ upgrade_state' \in {"idle", "wait_percent4", "update_wifi"}
         /\ RunsWholeImage' /\ ReadyToRestart'
<1>t. /\ userbin \in 0 .. 1 /\ upgrade_info \in Infos /\ file \in Files
      /\ bank \in [0 .. 1 -> Version \union {Junk}]
      /\ bank[userbin] \in Version
      /\ file.wifi_ok => file.wifi \in Version
  BY DEF IInv, TypeOK, Infos, RunsWholeImage, FileReleased
<1>f. file.wifi \in Version \union {ErasedVersion} /\ file.wifi_ok \in BOOLEAN
  BY <1>t DEF Files
<1>o. other \in 0 .. 1 /\ other # userbin /\ other' = other /\ userbin' = userbin
  BY <1>t, OtherBank DEF other
<1>1. upgrade_info' \in Infos
  BY <1>t, NeedType DEF Wifi
<1>2. CASE WifiOld
  BY <1>t, <1>o, <1>1, <1>2 DEF Wifi, RunsWholeImage, ReadyToRestart
<1>3. CASE ~WifiOld /\ file.wifi_ok
  <2>1. /\ bank' = [bank EXCEPT ![other] = file.wifi]
        /\ upgrade_state' = "wait_percent4"
    BY <1>3 DEF Wifi
  <2>2. file.wifi > bank[userbin]
    <3>1. file.wifi \in Nat /\ bank[userbin] \in Nat
      BY <1>t, <1>3, VersionFacts
    <3>2. ~(file.wifi <= bank[userbin])
      BY <1>3 DEF WifiOld, version_get_major
    <3> QED BY <3>1, <3>2
  <2>3. bank'[userbin] = bank[userbin] /\ bank'[other] = file.wifi
    BY <2>1, <1>o, <1>t
  <2> QED BY <2>1, <2>2, <2>3, <1>1, <1>3, <1>t, <1>o DEF RunsWholeImage, ReadyToRestart
<1>4. CASE ~WifiOld /\ ~file.wifi_ok
  <2>1. bank' = [bank EXCEPT ![other] = Junk] /\ upgrade_state' = "update_wifi"
    BY <1>4 DEF Wifi
  <2>2. bank'[userbin] = bank[userbin]
    BY <2>1, <1>o, <1>t
  <2> QED BY <2>1, <2>2, <1>1, <1>t, <1>o DEF RunsWholeImage, ReadyToRestart
<1> QED BY <1>2, <1>3, <1>4

-----------------------------------------------------------------------------
(* The invariant.                                                          *)

LEMMA InitInv == Init => IInv
<1> SUFFICES ASSUME Init PROVE IInv
  OBVIOUS
<1>1. bank \in [0 .. 1 -> Version \union {Junk}] /\ bank[userbin] = 1
  BY VersionFacts DEF Init
<1>2. lastest_ver \in Releases /\ NoFile \in Files /\ ~NoFile.wifi_ok
  BY VersionFacts DEF Init, Releases, Files, NoFile
<1>c. 0 \in 0 .. UPGRADE_RETRY_MAX
  BY UpgradeAssumption
<1>r. RamTypes
  BY <1>2, <1>c DEF Init, RamTypes
<1>f. FlashTypes
  BY <1>1, <1>2 DEF Init, FlashTypes, Infos
<1>l. LinkTypes /\ left \in BudgetType
  BY VersionFacts, UpgradeAssumption DEF Init, LinkTypes
<1>3. TypeOK
  BY <1>r, <1>f, <1>l, TypeParts
<1> QED BY <1>1, <1>2, <1>3, VersionFacts
        DEF Init, IInv, RunsWholeImage, ReadyToRestart, FileReleased

LEMMA NextInv == IInv /\ [Next]_vars => IInv'
<1> SUFFICES ASSUME IInv, [Next]_vars
             PROVE  IInv'
  OBVIOUS
<1> USE DEF requestVars, retryVars, flashVars, netVars, mcuVars, offVars
<1>i. TypeOK /\ RunsWholeImage /\ ReadyToRestart /\ FileReleased
  BY DEF IInv
<1>p. RamTypes /\ FlashTypes /\ LinkTypes
  BY <1>i, TypeParts
<1>t. /\ left \in BudgetType /\ upgrade_info \in Infos /\ userbin \in 0 .. 1
      /\ lastest_ver \in Releases /\ file \in Files
  BY <1>i DEF TypeOK, BudgetType, Infos
<1>1. CASE AnswerTimeout
  <2>s. left' \in BudgetType
    BY <1>1, <1>t, Spending DEF AnswerTimeout
  <2>r. RamTypes'
    BY <1>1, <1>i, <1>t, <2>s, <1>p, VersionFacts DEF RamTypes, AnswerTimeout
  <2>f. FlashTypes'
    BY <1>1, <1>i, <1>t, <2>s, <1>p, VersionFacts DEF FlashTypes, AnswerTimeout
  <2>l. LinkTypes'
    BY <1>1, <1>i, <1>t, <2>s, <1>p, VersionFacts DEF LinkTypes, AnswerTimeout
  <2>b. left' \in BudgetType
    BY <1>1, <1>i, <1>t, <2>s DEF AnswerTimeout
  <2>1. TypeOK'
    BY <2>r, <2>f, <2>l, <2>b, TypePartsNext
  <2>2. RunsWholeImage' /\ ReadyToRestart' /\ FileReleased'
    BY <1>1, <1>i, <1>t, <2>s, VersionFacts
       DEF RunsWholeImage, ReadyToRestart, FileReleased, version_get_major, other, AnswerTimeout
  <2> QED BY <2>1, <2>2 DEF IInv
<1>2. CASE ServerConnect
  <2>r. RamTypes'
    BY <1>2, <1>i, <1>t, <1>p, VersionFacts DEF RamTypes, ServerConnect
  <2>f. FlashTypes'
    BY <1>2, <1>i, <1>t, <1>p, VersionFacts DEF FlashTypes, ServerConnect
  <2>l. LinkTypes'
    BY <1>2, <1>i, <1>t, <1>p, VersionFacts DEF LinkTypes, ServerConnect
  <2>b. left' \in BudgetType
    BY <1>2, <1>i, <1>t DEF ServerConnect
  <2>1. TypeOK'
    BY <2>r, <2>f, <2>l, <2>b, TypePartsNext
  <2>2. RunsWholeImage' /\ ReadyToRestart' /\ FileReleased'
    BY <1>2, <1>i, <1>t, VersionFacts
       DEF RunsWholeImage, ReadyToRestart, FileReleased, version_get_major, other, ServerConnect
  <2> QED BY <2>1, <2>2 DEF IInv
<1>3. CASE ServerLost
  <2>s. left' \in BudgetType
    BY <1>3, <1>t, Spending DEF ServerLost
  <2>r. RamTypes'
    BY <1>3, <1>i, <1>t, <2>s, <1>p, VersionFacts DEF RamTypes, ServerLost
  <2>f. FlashTypes'
    BY <1>3, <1>i, <1>t, <2>s, <1>p, VersionFacts DEF FlashTypes, ServerLost
  <2>l. LinkTypes'
    BY <1>3, <1>i, <1>t, <2>s, <1>p, VersionFacts DEF LinkTypes, ServerLost
  <2>b. left' \in BudgetType
    BY <1>3, <1>i, <1>t, <2>s DEF ServerLost
  <2>1. TypeOK'
    BY <2>r, <2>f, <2>l, <2>b, TypePartsNext
  <2>2. RunsWholeImage' /\ ReadyToRestart' /\ FileReleased'
    BY <1>3, <1>i, <1>t, <2>s, VersionFacts
       DEF RunsWholeImage, ReadyToRestart, FileReleased, version_get_major, other, ServerLost
  <2> QED BY <2>1, <2>2 DEF IInv
<1>4. CASE TransVersion
  <2>r. RamTypes'
    BY <1>4, <1>i, <1>t, <1>p, VersionFacts DEF RamTypes, TransVersion
  <2>f. FlashTypes'
    BY <1>4, <1>i, <1>t, <1>p, VersionFacts DEF FlashTypes, TransVersion
  <2>l. LinkTypes'
    BY <1>4, <1>i, <1>t, <1>p, VersionFacts DEF LinkTypes, TransVersion
  <2>b. left' \in BudgetType
    BY <1>4, <1>i, <1>t DEF TransVersion
  <2>1. TypeOK'
    BY <2>r, <2>f, <2>l, <2>b, TypePartsNext
  <2>2. RunsWholeImage' /\ ReadyToRestart' /\ FileReleased'
    BY <1>4, <1>i, <1>t, VersionFacts
       DEF RunsWholeImage, ReadyToRestart, FileReleased, version_get_major, other, TransVersion
  <2> QED BY <2>1, <2>2 DEF IInv
<1>5. ASSUME NEW type \in {"request", "force"}, McuRequest(type)
      PROVE  IInv'
  <2>s. left' \in BudgetType
    BY <1>5, <1>t, Spending DEF McuRequest, Needed, SendGetVersion
  <2>n. upgrade_info' \in Infos
    BY <1>5, <1>t, NeedType DEF McuRequest, Needed
  <2>r. RamTypes'
    BY <1>5, <1>i, <1>t, <2>s, <2>n, <1>p, VersionFacts
       DEF RamTypes, McuRequest, Needed, SendGetVersion
  <2>f. FlashTypes'
    BY <1>5, <1>i, <1>t, <2>s, <2>n, <1>p, VersionFacts
       DEF FlashTypes, McuRequest, Needed, SendGetVersion
  <2>l. LinkTypes'
    BY <1>5, <1>i, <1>t, <2>s, <2>n, <1>p, VersionFacts
       DEF LinkTypes, McuRequest, Needed, SendGetVersion
  <2>b. left' \in BudgetType
    BY <1>5, <1>i, <1>t, <2>s, <2>n DEF McuRequest, Needed, SendGetVersion
  <2>1. TypeOK'
    BY <2>r, <2>f, <2>l, <2>b, TypePartsNext
  <2>2. RunsWholeImage' /\ ReadyToRestart' /\ FileReleased'
    BY <1>5, <1>i, <1>t, <2>s, <2>n, VersionFacts
       DEF RunsWholeImage, ReadyToRestart, FileReleased, version_get_major, other, McuRequest, Needed, SendGetVersion
  <2> QED BY <2>1, <2>2 DEF IInv
<1>6. CASE AskLater
  <2>r. RamTypes'
    BY <1>6, <1>i, <1>t, <1>p, VersionFacts DEF RamTypes, AskLater, SendGetVersion
  <2>f. FlashTypes'
    BY <1>6, <1>i, <1>t, <1>p, VersionFacts DEF FlashTypes, AskLater, SendGetVersion
  <2>l. LinkTypes'
    BY <1>6, <1>i, <1>t, <1>p, VersionFacts DEF LinkTypes, AskLater, SendGetVersion
  <2>b. left' \in BudgetType
    BY <1>6, <1>i, <1>t DEF AskLater, SendGetVersion
  <2>1. TypeOK'
    BY <2>r, <2>f, <2>l, <2>b, TypePartsNext
  <2>2. RunsWholeImage' /\ ReadyToRestart' /\ FileReleased'
    BY <1>6, <1>i, <1>t, VersionFacts
       DEF RunsWholeImage, ReadyToRestart, FileReleased, version_get_major, other, AskLater, SendGetVersion
  <2> QED BY <2>1, <2>2 DEF IInv
<1>7. ASSUME NEW r \in Releases, GetVersionOld(r)
      PROVE  IInv'
  <2>n. upgrade_info' \in Infos
    BY <1>7, <1>t, NeedType DEF GetVersionOld
  <2>r. RamTypes'
    BY <1>7, <1>i, <1>t, <2>n, <1>p, VersionFacts DEF RamTypes, GetVersionOld, Answered
  <2>f. FlashTypes'
    BY <1>7, <1>i, <1>t, <2>n, <1>p, VersionFacts DEF FlashTypes, GetVersionOld, Answered
  <2>l. LinkTypes'
    BY <1>7, <1>i, <1>t, <2>n, <1>p, VersionFacts DEF LinkTypes, GetVersionOld, Answered
  <2>b. left' \in BudgetType
    BY <1>7, <1>i, <1>t, <2>n DEF GetVersionOld, Answered
  <2>1. TypeOK'
    BY <2>r, <2>f, <2>l, <2>b, TypePartsNext
  <2>2. RunsWholeImage' /\ ReadyToRestart' /\ FileReleased'
    BY <1>7, <1>i, <1>t, <2>n, VersionFacts
       DEF RunsWholeImage, ReadyToRestart, FileReleased, version_get_major, other, GetVersionOld, Answered
  <2> QED BY <2>1, <2>2 DEF IInv
<1>8. ASSUME NEW r \in Releases, GetVersionNew(r)
      PROVE  IInv'
  <2>r. RamTypes'
    BY <1>8, <1>i, <1>t, <1>p, VersionFacts DEF RamTypes, GetVersionNew, Answered
  <2>f. FlashTypes'
    BY <1>8, <1>i, <1>t, <1>p, VersionFacts DEF FlashTypes, GetVersionNew, Answered
  <2>l. LinkTypes'
    BY <1>8, <1>i, <1>t, <1>p, VersionFacts DEF LinkTypes, GetVersionNew, Answered
  <2>b. left' \in BudgetType
    BY <1>8, <1>i, <1>t DEF GetVersionNew, Answered
  <2>1. TypeOK'
    BY <2>r, <2>f, <2>l, <2>b, TypePartsNext
  <2>2. RunsWholeImage' /\ ReadyToRestart' /\ FileReleased'
    BY <1>8, <1>i, <1>t, VersionFacts
       DEF RunsWholeImage, ReadyToRestart, FileReleased, version_get_major, other, GetVersionNew, Answered
  <2> QED BY <2>1, <2>2 DEF IInv
<1>9. CASE HttpConnect
  <2>r. RamTypes'
    BY <1>9, <1>i, <1>t, <1>p, VersionFacts DEF RamTypes, HttpConnect
  <2>f. FlashTypes'
    BY <1>9, <1>i, <1>t, <1>p, VersionFacts DEF FlashTypes, HttpConnect
  <2>l. LinkTypes'
    BY <1>9, <1>i, <1>t, <1>p, VersionFacts DEF LinkTypes, HttpConnect
  <2>b. left' \in BudgetType
    BY <1>9, <1>i, <1>t DEF HttpConnect
  <2>1. TypeOK'
    BY <2>r, <2>f, <2>l, <2>b, TypePartsNext
  <2>2. RunsWholeImage' /\ ReadyToRestart' /\ FileReleased'
    BY <1>9, <1>i, <1>t, VersionFacts
       DEF RunsWholeImage, ReadyToRestart, FileReleased, version_get_major, other, HttpConnect
  <2> QED BY <2>1, <2>2 DEF IInv
<1>10. CASE HttpReconnect
  <2>s. left' \in BudgetType
    BY <1>10, <1>t, Spending DEF HttpReconnect
  <2>r. RamTypes'
    BY <1>10, <1>i, <1>t, <2>s, <1>p, VersionFacts DEF RamTypes, HttpReconnect
  <2>f. FlashTypes'
    BY <1>10, <1>i, <1>t, <2>s, <1>p, VersionFacts DEF FlashTypes, HttpReconnect
  <2>l. LinkTypes'
    BY <1>10, <1>i, <1>t, <2>s, <1>p, VersionFacts DEF LinkTypes, HttpReconnect
  <2>b. left' \in BudgetType
    BY <1>10, <1>i, <1>t, <2>s DEF HttpReconnect
  <2>1. TypeOK'
    BY <2>r, <2>f, <2>l, <2>b, TypePartsNext
  <2>2. RunsWholeImage' /\ ReadyToRestart' /\ FileReleased'
    BY <1>10, <1>i, <1>t, <2>s, VersionFacts
       DEF RunsWholeImage, ReadyToRestart, FileReleased, version_get_major, other, HttpReconnect
  <2> QED BY <2>1, <2>2 DEF IInv
<1>11. CASE HttpPart
  <2>e. file' \in Files /\ ~file'.wifi_ok
    BY <1>11, <1>t, FileTypes DEF HttpPart
  <2>r. RamTypes'
    BY <1>11, <1>i, <1>t, <2>e, <1>p, VersionFacts DEF RamTypes, HttpPart
  <2>f. FlashTypes'
    BY <1>11, <1>i, <1>t, <2>e, <1>p, VersionFacts DEF FlashTypes, HttpPart
  <2>l. LinkTypes'
    BY <1>11, <1>i, <1>t, <2>e, <1>p, VersionFacts DEF LinkTypes, HttpPart
  <2>b. left' \in BudgetType
    BY <1>11, <1>i, <1>t, <2>e DEF HttpPart
  <2>1. TypeOK'
    BY <2>r, <2>f, <2>l, <2>b, TypePartsNext
  <2>2. RunsWholeImage' /\ ReadyToRestart' /\ FileReleased'
    BY <1>11, <1>i, <1>t, <2>e, VersionFacts
       DEF RunsWholeImage, ReadyToRestart, FileReleased, version_get_major, other, HttpPart
  <2> QED BY <2>1, <2>2 DEF IInv
<1>12. CASE HttpEarly
  <2>s. left' \in BudgetType
    BY <1>12, <1>t, Spending DEF HttpEarly, DownloadDone
  <2>r. RamTypes'
    BY <1>12, <1>i, <1>t, <2>s, <1>p, VersionFacts DEF RamTypes, HttpEarly, DownloadDone
  <2>f. FlashTypes'
    BY <1>12, <1>i, <1>t, <2>s, <1>p, VersionFacts DEF FlashTypes, HttpEarly, DownloadDone
  <2>l. LinkTypes'
    BY <1>12, <1>i, <1>t, <2>s, <1>p, VersionFacts DEF LinkTypes, HttpEarly, DownloadDone
  <2>b. left' \in BudgetType
    BY <1>12, <1>i, <1>t, <2>s DEF HttpEarly, DownloadDone
  <2>1. TypeOK'
    BY <2>r, <2>f, <2>l, <2>b, TypePartsNext
  <2>2. RunsWholeImage' /\ ReadyToRestart' /\ FileReleased'
    BY <1>12, <1>i, <1>t, <2>s, VersionFacts
       DEF RunsWholeImage, ReadyToRestart, FileReleased, version_get_major, other, HttpEarly, DownloadDone
  <2> QED BY <2>1, <2>2 DEF IInv
<1>13. CASE HttpError
  <2>s. left' \in BudgetType
    BY <1>13, <1>t, Spending DEF HttpError
  <2>n. upgrade_info' \in Infos
    BY <1>13, <1>t, NeedType DEF HttpError
  <2>r. RamTypes'
    BY <1>13, <1>i, <1>t, <2>s, <2>n, <1>p, VersionFacts DEF RamTypes, HttpError
  <2>f. FlashTypes'
    BY <1>13, <1>i, <1>t, <2>s, <2>n, <1>p, VersionFacts DEF FlashTypes, HttpError
  <2>l. LinkTypes'
    BY <1>13, <1>i, <1>t, <2>s, <2>n, <1>p, VersionFacts DEF LinkTypes, HttpError
  <2>b. left' \in BudgetType
    BY <1>13, <1>i, <1>t, <2>s, <2>n DEF HttpError
  <2>1. TypeOK'
    BY <2>r, <2>f, <2>l, <2>b, TypePartsNext
  <2>2. RunsWholeImage' /\ ReadyToRestart' /\ FileReleased'
    BY <1>13, <1>i, <1>t, <2>s, <2>n, VersionFacts
       DEF RunsWholeImage, ReadyToRestart, FileReleased, version_get_major, other, HttpError
  <2> QED BY <2>1, <2>2 DEF IInv
<1>14. ASSUME NEW w \in BOOLEAN, NEW m \in BOOLEAN, HttpDone(w, m)
      PROVE  IInv'
  <2>e. file' \in Files /\ file'.wifi \in Version /\ left' \in BudgetType
    BY <1>14, <1>t, FileTypes, Spending DEF HttpDone
  <2>r. RamTypes'
    BY <1>14, <1>i, <1>t, <2>e, <1>p, VersionFacts DEF RamTypes, HttpDone, DownloadDone
  <2>f. FlashTypes'
    BY <1>14, <1>i, <1>t, <2>e, <1>p, VersionFacts DEF FlashTypes, HttpDone, DownloadDone
  <2>l. LinkTypes'
    BY <1>14, <1>i, <1>t, <2>e, <1>p, VersionFacts DEF LinkTypes, HttpDone, DownloadDone
  <2>b. left' \in BudgetType
    BY <1>14, <1>i, <1>t, <2>e DEF HttpDone, DownloadDone
  <2>1. TypeOK'
    BY <2>r, <2>f, <2>l, <2>b, TypePartsNext
  <2>2. RunsWholeImage' /\ ReadyToRestart' /\ FileReleased'
    BY <1>14, <1>i, <1>t, <2>e, VersionFacts
       DEF RunsWholeImage, ReadyToRestart, FileReleased, version_get_major, other, HttpDone, DownloadDone
  <2> QED BY <2>1, <2>2 DEF IInv
<1>15. CASE GetPercent
  <2>r. RamTypes'
    BY <1>15, <1>i, <1>t, <1>p, VersionFacts DEF RamTypes, GetPercent
  <2>f. FlashTypes'
    BY <1>15, <1>i, <1>t, <1>p, VersionFacts DEF FlashTypes, GetPercent
  <2>l. LinkTypes'
    BY <1>15, <1>i, <1>t, <1>p, VersionFacts DEF LinkTypes, GetPercent
  <2>b. left' \in BudgetType
    BY <1>15, <1>i, <1>t DEF GetPercent
  <2>1. TypeOK'
    BY <2>r, <2>f, <2>l, <2>b, TypePartsNext
  <2>2. RunsWholeImage' /\ ReadyToRestart' /\ FileReleased'
    BY <1>15, <1>i, <1>t, VersionFacts
       DEF RunsWholeImage, ReadyToRestart, FileReleased, version_get_major, other, GetPercent
  <2> QED BY <2>1, <2>2 DEF IInv
<1>16. CASE SendDone
  <2>r. RamTypes'
    BY <1>16, <1>i, <1>t, <1>p, VersionFacts DEF RamTypes, SendDone
  <2>f. FlashTypes'
    BY <1>16, <1>i, <1>t, <1>p, VersionFacts DEF FlashTypes, SendDone
  <2>l. LinkTypes'
    BY <1>16, <1>i, <1>t, <1>p, VersionFacts DEF LinkTypes, SendDone
  <2>b. left' \in BudgetType
    BY <1>16, <1>i, <1>t DEF SendDone
  <2>1. TypeOK'
    BY <2>r, <2>f, <2>l, <2>b, TypePartsNext
  <2>2. RunsWholeImage' /\ ReadyToRestart' /\ FileReleased'
    BY <1>16, <1>i, <1>t, VersionFacts
       DEF RunsWholeImage, ReadyToRestart, FileReleased, version_get_major, other, SendDone
  <2> QED BY <2>1, <2>2 DEF IInv
<1>17. CASE SendDoneReboot
  <2>e. other \in 0 .. 1
    BY <1>t, OtherBank
  <2>r. RamTypes'
    BY <1>17, <1>i, <1>t, <2>e, <1>p, VersionFacts DEF RamTypes, SendDoneReboot
  <2>f. FlashTypes'
    BY <1>17, <1>i, <1>t, <2>e, <1>p, VersionFacts DEF FlashTypes, SendDoneReboot
  <2>l. LinkTypes'
    BY <1>17, <1>i, <1>t, <2>e, <1>p, VersionFacts DEF LinkTypes, SendDoneReboot
  <2>b. left' \in BudgetType
    BY <1>17, <1>i, <1>t, <2>e DEF SendDoneReboot
  <2>1. TypeOK'
    BY <2>r, <2>f, <2>l, <2>b, TypePartsNext
  <2>2. RunsWholeImage' /\ ReadyToRestart' /\ FileReleased'
    BY <1>17, <1>i, <1>t, <2>e, VersionFacts
       DEF RunsWholeImage, ReadyToRestart, FileReleased, version_get_major, other, SendDoneReboot
  <2> QED BY <2>1, <2>2 DEF IInv
<1>18. CASE UpdateWifi
  <2>e. /\ bank' \in [0 .. 1 -> Version \union {Junk}]
        /\ upgrade_state' \in {"idle", "wait_percent4", "update_wifi"}
        /\ upgrade_info' \in Infos /\ RunsWholeImage' /\ ReadyToRestart'
    BY <1>18, WifiInv DEF UpdateWifi
  <2>r. RamTypes'
    BY <1>18, <1>i, <1>t, <2>e, <1>p, VersionFacts DEF RamTypes, UpdateWifi
  <2>f. FlashTypes'
    BY <1>18, <1>i, <1>t, <2>e, <1>p, VersionFacts DEF FlashTypes, UpdateWifi
  <2>l. LinkTypes'
    BY <1>18, <1>i, <1>t, <2>e, <1>p, VersionFacts DEF LinkTypes, UpdateWifi
  <2>b. left' \in BudgetType
    BY <1>18, <1>i, <1>t, <2>e DEF UpdateWifi
  <2>1. TypeOK'
    BY <2>r, <2>f, <2>l, <2>b, TypePartsNext
  <2>2. RunsWholeImage' /\ ReadyToRestart' /\ FileReleased'
    BY <1>18, <1>i, <1>t, <2>e, VersionFacts
       DEF RunsWholeImage, ReadyToRestart, FileReleased, version_get_major, other, UpdateWifi
  <2> QED BY <2>1, <2>2 DEF IInv
<1>19. CASE SaveSkipped
  <2>e. /\ bank' \in [0 .. 1 -> Version \union {Junk}]
        /\ upgrade_state' \in {"idle", "wait_percent4", "update_wifi"}
        /\ upgrade_info' \in Infos /\ RunsWholeImage' /\ ReadyToRestart'
    BY <1>19, WifiInv DEF SaveSkipped, Save
  <2>r. RamTypes'
    BY <1>19, <1>i, <1>t, <2>e, <1>p, VersionFacts DEF RamTypes, SaveSkipped, Save
  <2>f. FlashTypes'
    BY <1>19, <1>i, <1>t, <2>e, <1>p, VersionFacts DEF FlashTypes, SaveSkipped, Save
  <2>l. LinkTypes'
    BY <1>19, <1>i, <1>t, <2>e, <1>p, VersionFacts DEF LinkTypes, SaveSkipped, Save
  <2>b. left' \in BudgetType
    BY <1>19, <1>i, <1>t, <2>e DEF SaveSkipped, Save
  <2>1. TypeOK'
    BY <2>r, <2>f, <2>l, <2>b, TypePartsNext
  <2>2. RunsWholeImage' /\ ReadyToRestart' /\ FileReleased'
    BY <1>19, <1>i, <1>t, <2>e, VersionFacts
       DEF RunsWholeImage, ReadyToRestart, FileReleased, version_get_major, other, SaveSkipped, Save
  <2> QED BY <2>1, <2>2 DEF IInv
<1>20. CASE SaveBad
  <2>e. /\ bank' \in [0 .. 1 -> Version \union {Junk}]
        /\ upgrade_state' \in {"idle", "wait_percent4", "update_wifi"}
        /\ upgrade_info' \in Infos /\ RunsWholeImage' /\ ReadyToRestart'
    BY <1>20, WifiInv DEF SaveBad, Save, CopyToMcuArea, Files
  <2>r. RamTypes'
    BY <1>20, <1>i, <1>t, <2>e, <1>p, VersionFacts
       DEF RamTypes, SaveBad, Save, CopyToMcuArea, Files
  <2>f. FlashTypes'
    BY <1>20, <1>i, <1>t, <2>e, <1>p, VersionFacts
       DEF FlashTypes, SaveBad, Save, CopyToMcuArea, Files
  <2>l. LinkTypes'
    BY <1>20, <1>i, <1>t, <2>e, <1>p, VersionFacts
       DEF LinkTypes, SaveBad, Save, CopyToMcuArea, Files
  <2>b. left' \in BudgetType
    BY <1>20, <1>i, <1>t, <2>e DEF SaveBad, Save, CopyToMcuArea, Files
  <2>1. TypeOK'
    BY <2>r, <2>f, <2>l, <2>b, TypePartsNext
  <2>2. RunsWholeImage' /\ ReadyToRestart' /\ FileReleased'
    BY <1>20, <1>i, <1>t, <2>e, VersionFacts
       DEF RunsWholeImage, ReadyToRestart, FileReleased, version_get_major, other, SaveBad, Save, CopyToMcuArea, Files
  <2> QED BY <2>1, <2>2 DEF IInv
<1>21. CASE SaveForcedBad
  <2>c. upgrade_retry_cnt \in 0 .. UPGRADE_RETRY_MAX /\ UPGRADE_RETRY_MAX \in Nat
    BY <1>p, UpgradeAssumption DEF RamTypes
  <2>e. upgrade_info' \in Infos /\ upgrade_retry_cnt' \in 0 .. UPGRADE_RETRY_MAX
    <3>1. CASE Retry
      BY <1>21, <1>t, <2>c, <3>1 DEF SaveForcedBad, Retry
    <3>2. CASE ~Retry
      BY <1>21, <1>t, <2>c, <3>2, NeedType DEF SaveForcedBad
    <3> QED BY <3>1, <3>2
  <2>r. RamTypes'
    BY <1>21, <1>i, <1>t, <2>e, <1>p, VersionFacts
       DEF RamTypes, SaveForcedBad, Save, CopyToMcuArea, Files, Retry
  <2>f. FlashTypes'
    BY <1>21, <1>i, <1>t, <2>e, <1>p, VersionFacts
       DEF FlashTypes, SaveForcedBad, Save, CopyToMcuArea, Files, Retry
  <2>l. LinkTypes'
    BY <1>21, <1>i, <1>t, <2>e, <1>p, VersionFacts
       DEF LinkTypes, SaveForcedBad, Save, CopyToMcuArea, Files, Retry
  <2>b. left' \in BudgetType
    BY <1>21, <1>i, <1>t, <2>e DEF SaveForcedBad, Save, CopyToMcuArea, Files, Retry
  <2>1. TypeOK'
    BY <2>r, <2>f, <2>l, <2>b, TypePartsNext
  <2>2. RunsWholeImage' /\ ReadyToRestart' /\ FileReleased'
    BY <1>21, <1>i, <1>t, <2>e, VersionFacts
       DEF RunsWholeImage, ReadyToRestart, FileReleased, version_get_major, other, SaveForcedBad, Save, CopyToMcuArea, Files, Retry
  <2> QED BY <2>1, <2>2 DEF IInv
<1>22. CASE SaveGood
  <2>r. RamTypes'
    BY <1>22, <1>i, <1>t, <1>p, VersionFacts DEF RamTypes, SaveGood, Save, CopyToMcuArea, Files
  <2>f. FlashTypes'
    BY <1>22, <1>i, <1>t, <1>p, VersionFacts
       DEF FlashTypes, SaveGood, Save, CopyToMcuArea, Files
  <2>l. LinkTypes'
    BY <1>22, <1>i, <1>t, <1>p, VersionFacts
       DEF LinkTypes, SaveGood, Save, CopyToMcuArea, Files
  <2>b. left' \in BudgetType
    BY <1>22, <1>i, <1>t DEF SaveGood, Save, CopyToMcuArea, Files
  <2>1. TypeOK'
    BY <2>r, <2>f, <2>l, <2>b, TypePartsNext
  <2>2. RunsWholeImage' /\ ReadyToRestart' /\ FileReleased'
    BY <1>22, <1>i, <1>t, VersionFacts
       DEF RunsWholeImage, ReadyToRestart, FileReleased, version_get_major, other, SaveGood, Save, CopyToMcuArea, Files
  <2> QED BY <2>1, <2>2 DEF IInv
<1>23. CASE McuEntersBoot \/ McuEntersLate
  <2>s. left' \in BudgetType
    BY <1>23, <1>t, Spending DEF McuEntersBoot, McuEntersLate
  <2>h. SetInBoot
    BY <1>23 DEF McuEntersBoot, McuEntersLate
  <2>r. RamTypes' /\ FlashTypes' /\ LinkTypes'
    BY <2>h, <1>p DEF RamTypes, FlashTypes, LinkTypes, SetInBoot
  <2>1. TypeOK'
    BY <2>r, <2>s, TypePartsNext
  <2>2. RunsWholeImage' /\ ReadyToRestart' /\ FileReleased'
    BY <2>h, <1>i
       DEF RunsWholeImage, ReadyToRestart, FileReleased, version_get_major, other, SetInBoot
  <2> QED BY <2>1, <2>2 DEF IInv
<1>24. CASE McuProgrammed
  <2>e. mcu_fw' \in 0 .. ErasedVersion
    <3>1. mcu_fw' = mcu_area /\ mcu_area \in (Version \union {ErasedVersion}) \union {Junk}
      BY <1>24, <1>p DEF McuProgrammed, FlashTypes
    <3> QED BY <3>1, VersionFacts
  <2>r. RamTypes'
    BY <1>24, <1>i, <1>t, <2>e, <1>p, VersionFacts DEF RamTypes, McuProgrammed
  <2>f. FlashTypes'
    BY <1>24, <1>i, <1>t, <2>e, <1>p, VersionFacts DEF FlashTypes, McuProgrammed
  <2>l. LinkTypes'
    BY <1>24, <1>i, <1>t, <2>e, <1>p, VersionFacts DEF LinkTypes, McuProgrammed
  <2>b. left' \in BudgetType
    BY <1>24, <1>i, <1>t DEF McuProgrammed
  <2>1. TypeOK'
    BY <2>r, <2>f, <2>l, <2>b, TypePartsNext
  <2>2. RunsWholeImage' /\ ReadyToRestart' /\ FileReleased'
    BY <1>24, <1>i, <1>t, VersionFacts
       DEF RunsWholeImage, ReadyToRestart, FileReleased, version_get_major, other, McuProgrammed
  <2> QED BY <2>1, <2>2 DEF IInv
<1>25. CASE McuSilent
  <2>s. left' \in BudgetType
    BY <1>25, <1>t, Spending DEF McuSilent
  <2>r. RamTypes'
    BY <1>25, <1>i, <1>t, <2>s, <1>p, VersionFacts DEF RamTypes, McuSilent
  <2>f. FlashTypes'
    BY <1>25, <1>i, <1>t, <2>s, <1>p, VersionFacts DEF FlashTypes, McuSilent
  <2>l. LinkTypes'
    BY <1>25, <1>i, <1>t, <2>s, <1>p, VersionFacts DEF LinkTypes, McuSilent
  <2>b. left' \in BudgetType
    BY <1>25, <1>i, <1>t, <2>s DEF McuSilent
  <2>1. TypeOK'
    BY <2>r, <2>f, <2>l, <2>b, TypePartsNext
  <2>2. RunsWholeImage' /\ ReadyToRestart' /\ FileReleased'
    BY <1>25, <1>i, <1>t, <2>s, VersionFacts
       DEF RunsWholeImage, ReadyToRestart, FileReleased, version_get_major, other, McuSilent
  <2> QED BY <2>1, <2>2 DEF IInv
<1>26. CASE Crash
  <2>s. left' \in BudgetType
    BY <1>26, <1>t, Spending DEF Crash, Off
  <2>r. RamTypes'
    BY <1>26, <1>i, <1>t, <2>s, <1>p, VersionFacts DEF RamTypes, Crash, Off
  <2>f. FlashTypes'
    BY <1>26, <1>i, <1>t, <2>s, <1>p, VersionFacts DEF FlashTypes, Crash, Off
  <2>l. LinkTypes'
    BY <1>26, <1>i, <1>t, <2>s, <1>p, VersionFacts DEF LinkTypes, Crash, Off
  <2>b. left' \in BudgetType
    BY <1>26, <1>i, <1>t, <2>s DEF Crash, Off
  <2>1. TypeOK'
    BY <2>r, <2>f, <2>l, <2>b, TypePartsNext
  <2>2. RunsWholeImage' /\ ReadyToRestart' /\ FileReleased'
    BY <1>26, <1>i, <1>t, <2>s, VersionFacts
       DEF RunsWholeImage, ReadyToRestart, FileReleased, version_get_major, other, Crash, Off
  <2> QED BY <2>1, <2>2 DEF IInv
<1>27. CASE CrashInInfo
  <2>s. left' \in BudgetType
    BY <1>27, <1>t, Spending DEF CrashInInfo, Off
  <2>e. upgrade_info' \in Infos
    BY <1>27 DEF CrashInInfo, Infos
  <2>r. RamTypes'
    BY <1>27, <1>i, <1>t, <2>s, <2>e, <1>p, VersionFacts DEF RamTypes, CrashInInfo, Off
  <2>f. FlashTypes'
    BY <1>27, <1>i, <1>t, <2>s, <2>e, <1>p, VersionFacts DEF FlashTypes, CrashInInfo, Off
  <2>l. LinkTypes'
    BY <1>27, <1>i, <1>t, <2>s, <2>e, <1>p, VersionFacts DEF LinkTypes, CrashInInfo, Off
  <2>b. left' \in BudgetType
    BY <1>27, <1>i, <1>t, <2>s DEF CrashInInfo, Off
  <2>1. TypeOK'
    BY <2>r, <2>f, <2>l, <2>b, TypePartsNext
  <2>2. RunsWholeImage' /\ ReadyToRestart' /\ FileReleased'
    BY <1>27, <1>i, <1>t, <2>s, VersionFacts
       DEF RunsWholeImage, ReadyToRestart, FileReleased, version_get_major, other, CrashInInfo, Off
  <2> QED BY <2>1, <2>2 DEF IInv
<1>28. CASE CrashInWifi
  <2>s. left' \in BudgetType
    BY <1>28, <1>t, Spending DEF CrashInWifi, Off
  <2>n. upgrade_info' \in Infos
    BY <1>28, <1>t, NeedType DEF CrashInWifi
  <2>e. other \in 0 .. 1 /\ other # userbin
    BY <1>t, OtherBank
  <2>r. RamTypes'
    BY <1>28, <1>i, <1>t, <2>s, <2>n, <2>e, <1>p, VersionFacts DEF RamTypes, CrashInWifi, Off
  <2>f. FlashTypes'
    BY <1>28, <1>i, <1>t, <2>s, <2>n, <2>e, <1>p, VersionFacts DEF FlashTypes, CrashInWifi, Off
  <2>l. LinkTypes'
    BY <1>28, <1>i, <1>t, <2>s, <2>n, <2>e, <1>p, VersionFacts DEF LinkTypes, CrashInWifi, Off
  <2>b. left' \in BudgetType
    BY <1>28, <1>i, <1>t, <2>s, <2>n, <2>e DEF CrashInWifi, Off
  <2>1. TypeOK'
    BY <2>r, <2>f, <2>l, <2>b, TypePartsNext
  <2>2. RunsWholeImage' /\ ReadyToRestart' /\ FileReleased'
    BY <1>28, <1>i, <1>t, <2>s, <2>n, <2>e, VersionFacts
       DEF RunsWholeImage, ReadyToRestart, FileReleased, version_get_major, other, CrashInWifi, Off
  <2> QED BY <2>1, <2>2 DEF IInv
<1>29. CASE CrashInSave
  <2>s. left' \in BudgetType
    BY <1>29, <1>t, Spending DEF CrashInSave, Off
  <2>r. RamTypes'
    BY <1>29, <1>i, <1>t, <2>s, <1>p, VersionFacts DEF RamTypes, CrashInSave, Off
  <2>f. FlashTypes'
    BY <1>29, <1>i, <1>t, <2>s, <1>p, VersionFacts DEF FlashTypes, CrashInSave, Off
  <2>l. LinkTypes'
    BY <1>29, <1>i, <1>t, <2>s, <1>p, VersionFacts DEF LinkTypes, CrashInSave, Off
  <2>b. left' \in BudgetType
    BY <1>29, <1>i, <1>t, <2>s DEF CrashInSave, Off
  <2>1. TypeOK'
    BY <2>r, <2>f, <2>l, <2>b, TypePartsNext
  <2>2. RunsWholeImage' /\ ReadyToRestart' /\ FileReleased'
    BY <1>29, <1>i, <1>t, <2>s, VersionFacts
       DEF RunsWholeImage, ReadyToRestart, FileReleased, version_get_major, other, CrashInSave, Off
  <2> QED BY <2>1, <2>2 DEF IInv
<1>30. CASE CrashInBootInfo
  <2>s. left' \in BudgetType
    BY <1>30, <1>t, Spending DEF CrashInBootInfo, Off
  <2>r. RamTypes'
    BY <1>30, <1>i, <1>t, <2>s, <1>p, VersionFacts DEF RamTypes, CrashInBootInfo, Off
  <2>f. FlashTypes'
    BY <1>30, <1>i, <1>t, <2>s, <1>p, VersionFacts DEF FlashTypes, CrashInBootInfo, Off
  <2>l. LinkTypes'
    BY <1>30, <1>i, <1>t, <2>s, <1>p, VersionFacts DEF LinkTypes, CrashInBootInfo, Off
  <2>b. left' \in BudgetType
    BY <1>30, <1>i, <1>t, <2>s DEF CrashInBootInfo, Off
  <2>1. TypeOK'
    BY <2>r, <2>f, <2>l, <2>b, TypePartsNext
  <2>2. RunsWholeImage' /\ ReadyToRestart' /\ FileReleased'
    BY <1>30, <1>i, <1>t, <2>s, VersionFacts
       DEF RunsWholeImage, ReadyToRestart, FileReleased, version_get_major, other, CrashInBootInfo, Off
  <2> QED BY <2>1, <2>2 DEF IInv
<1>31. CASE PowerCycle
  <2>r. RamTypes'
    BY <1>31, <1>i, <1>t, <1>p, VersionFacts DEF RamTypes, PowerCycle, Off
  <2>f. FlashTypes'
    BY <1>31, <1>i, <1>t, <1>p, VersionFacts DEF FlashTypes, PowerCycle, Off
  <2>l. LinkTypes'
    BY <1>31, <1>i, <1>t, <1>p, VersionFacts DEF LinkTypes, PowerCycle, Off
  <2>b. left' \in BudgetType
    BY <1>31, <1>i, <1>t DEF PowerCycle, Off
  <2>1. TypeOK'
    BY <2>r, <2>f, <2>l, <2>b, TypePartsNext
  <2>2. RunsWholeImage' /\ ReadyToRestart' /\ FileReleased'
    BY <1>31, <1>i, <1>t, VersionFacts
       DEF RunsWholeImage, ReadyToRestart, FileReleased, version_get_major, other, PowerCycle, Off
  <2> QED BY <2>1, <2>2 DEF IInv
<1>32. ASSUME NEW k \in BOOLEAN, Boot(k)
      PROVE  IInv'
  <2>n. upgrade_info' \in Infos
    BY <1>32, <1>t, NeedType DEF Boot
  <2>e. /\ left' \in BudgetType /\ need_first' \in BOOLEAN /\ in_boot' \in BOOLEAN
        /\ lastest_ver' \in Releases
        /\ upgrade_state' \in {"idle", "wait_percent3"}
        /\ waiting' \in {"none", "mcu_upgrade", "status"}
    BY <1>32, <1>i, <1>t, Spending, VersionFacts DEF Boot, TypeOK, Releases
  <2>c. 0 \in 0 .. UPGRADE_RETRY_MAX
    BY UpgradeAssumption
  <2>r. RamTypes'
    BY <1>32, <1>i, <1>t, <2>n, <2>e, <2>c, <1>p, VersionFacts DEF RamTypes, Boot
  <2>f. FlashTypes'
    BY <1>32, <1>i, <1>t, <2>n, <2>e, <2>c, <1>p, VersionFacts DEF FlashTypes, Boot
  <2>l. LinkTypes'
    BY <1>32, <1>i, <1>t, <2>n, <2>e, <2>c, <1>p, VersionFacts DEF LinkTypes, Boot
  <2>b. left' \in BudgetType
    BY <1>32, <1>i, <1>t, <2>n, <2>e DEF Boot
  <2>1. TypeOK'
    BY <2>r, <2>f, <2>l, <2>b, TypePartsNext
  <2>w. RunsWholeImage'
    <3>1. bank' = bank /\ userbin' = userbin /\ bank[userbin] # Junk
      BY <1>32 DEF Boot
    <3>2. bank[userbin] \in Version \union {Junk}
      BY <1>i, <1>t DEF TypeOK
    <3> QED BY <3>1, <3>2 DEF RunsWholeImage
  <2>2. ReadyToRestart' /\ FileReleased'
    BY <1>32, <1>i, <1>t, <2>n, <2>e, VersionFacts
       DEF ReadyToRestart, FileReleased, version_get_major, other, Boot
  <2> QED BY <2>1, <2>w, <2>2 DEF IInv
<1>34. CASE Overwritten
  <2>0. bank' \in [0 .. 1 -> Version \union {Junk}] /\ up' = FALSE
    BY <1>34 DEF Overwritten
  <2>r. RamTypes'
    BY <1>34, <1>i, <1>t, <1>p, VersionFacts DEF RamTypes, Overwritten
  <2>f. FlashTypes'
    BY <1>34, <2>0, <1>i, <1>t, <1>p, VersionFacts DEF FlashTypes, Overwritten
  <2>l. LinkTypes'
    BY <1>34, <1>i, <1>t, <1>p, VersionFacts DEF LinkTypes, Overwritten
  <2>b. left' \in BudgetType
    BY <1>34, <1>i, <1>t DEF Overwritten
  <2>1. TypeOK'
    BY <2>r, <2>f, <2>l, <2>b, TypePartsNext
  <2>2. RunsWholeImage' /\ ReadyToRestart' /\ FileReleased'
    BY <1>34, <2>0, <1>i, <1>t
       DEF RunsWholeImage, ReadyToRestart, FileReleased, Overwritten
  <2> QED BY <2>1, <2>2 DEF IInv
<1>33. CASE UNCHANGED vars
  BY <1>33, <1>i
     DEF IInv, TypeOK, RunsWholeImage, ReadyToRestart, FileReleased, version_get_major, other, vars
<1> QED
  BY <1>1, <1>2, <1>3, <1>4, <1>5, <1>6, <1>7, <1>8, <1>9, <1>10, <1>11, <1>12, <1>13, <1>14, <1>15, <1>16, <1>17, <1>18, <1>19, <1>20, <1>21, <1>22, <1>23, <1>24, <1>25, <1>26, <1>27, <1>28, <1>29, <1>30, <1>31, <1>32, <1>33, <1>34
     DEF Next

LEMMA Invariance == Spec => []IInv
<1>1. Init => IInv
  BY InitInv
<1>2. IInv /\ [Next]_vars => IInv'
  BY NextInv
<1> QED BY <1>1, <1>2, PTL DEF Spec

-----------------------------------------------------------------------------
\* Every variable keeps its type; a forced upgrade is retried no more than
\* UPGRADE_RETRY_MAX times (upgrade_update, UPDATE_END).
THEOREM TypeCorrect == Spec => []TypeOK
<1>1. IInv => TypeOK
  BY DEF IInv
<1> QED BY <1>1, Invariance, PTL

\* The bank the device boots from holds a whole image, wherever upgrade_wifi
\* or a save of the record is interrupted.
THEOREM WholeImageCorrect == Spec => []RunsWholeImage
<1>1. IInv => RunsWholeImage
  BY DEF IInv
<1> QED BY <1>1, Invariance, PTL

\* A restart that a progress report may trigger at any time (set_send_done)
\* finds a whole and newer image in the other bank.
THEOREM RestartCorrect == Spec => []ReadyToRestart
<1>1. IInv => ReadyToRestart
  BY DEF IInv
<1> QED BY <1>1, Invariance, PTL

\* No step of the upgrade, its faults or its restarts replaces the running
\* Wi-Fi firmware by an older one, unless an image without a length reaches it.
THEOREM NeverOlderCorrect == Spec => NeverOlder
<1>1. ASSUME IInv, [Next]_vars
      PROVE  [version_get_major' >= version_get_major \/ (Overrun /\ ~up')]_vars
  <2>i. /\ userbin \in 0 .. 1 /\ bank[userbin] \in Nat
        /\ bank \in [0 .. 1 -> Version \union {Junk}]
    <3>1. userbin \in 0 .. 1 /\ bank \in [0 .. 1 -> Version \union {Junk}]
      BY <1>1 DEF IInv, TypeOK
    <3>2. bank[userbin] \in Version \union {Junk}
      BY <3>1
    <3>3. Version \union {Junk} \subseteq Nat
      BY VersionFacts DEF Junk
    <3> QED BY <3>1, <3>2, <3>3
  <2>o. other \in 0 .. 1 /\ other # userbin
    BY <2>i, OtherBank
  <2>1. CASE SendDoneReboot
    <3>1. /\ userbin' = other /\ bank' = bank
          /\ bank[other] \in Version /\ bank[other] > bank[userbin]
      BY <2>1, <1>1 DEF SendDoneReboot, IInv, ReadyToRestart
    <3>2. bank[other] \in Nat
      BY <3>1, VersionFacts
    <3>3. bank[other] >= bank[userbin]
      BY <3>1, <3>2, <2>i
    <3> QED BY <3>1, <3>3 DEF version_get_major
  <2>3. CASE Overwritten
    BY <2>3 DEF Overwritten
  <2>2. CASE ~SendDoneReboot /\ ~Overwritten
    <3>1. userbin' = userbin /\ (bank' = bank \/ \E x : bank' = [bank EXCEPT ![other] = x])
      BY <1>1, <2>2
         DEF Next, vars, requestVars, retryVars, flashVars, netVars, mcuVars, offVars,
         AnswerTimeout, ServerConnect, ServerLost, TransVersion, McuRequest, AskLater,
         GetVersionOld, GetVersionNew, HttpConnect, HttpReconnect, HttpPart, HttpEarly,
         HttpError, HttpDone, GetPercent, SendDone, UpdateWifi, SaveSkipped, SaveBad,
         SaveForcedBad, SaveGood, Wifi, SetInBoot, McuEntersBoot, McuEntersLate,
         McuProgrammed, McuSilent, Crash,
         CrashInInfo, CrashInWifi, CrashInSave, CrashInBootInfo, PowerCycle, Boot
    <3>2. bank'[userbin] = bank[userbin]
      BY <3>1, <2>i, <2>o
    <3> QED BY <3>1, <3>2, <2>i DEF version_get_major
  <2> QED BY <2>1, <2>2, <2>3
<1> QED BY <1>1, Invariance, PTL DEF Spec, NeverOlder

-----------------------------------------------------------------------------
(* One upgrade at a time.  When the MCU asks for one upgrade, answers      *)
(* while it is waited for, and no connection is renewed (SingleUpgrade),   *)
(* the states of upgrade_update follow each other in the order they were   *)
(* written for.                                                            *)

SingleUpgrade == \A budget \in Budgets : budget.request <= 1 /\ budget.renew = 0 /\ budget.late = 0

\* Before the request nothing is under way, and no record of one is resumed.
Single ==
  /\ left.request <= 1 /\ left.renew = 0 /\ left.late = 0
  /\ left.request = 1 =>
       upgrade_state = "idle" /\ ~(upgrade_info.magic /\ upgrade_info.is_need_upgrade)

\* While the version is still to be asked for or to be answered, no upgrade has
\* begun, and one that was requested is on record.
Asking == asked \/ request_latest_version =>
  /\ left.request = 0 /\ upgrade_state = "idle"
  /\ upgrade_type = "request" => upgrade_info.is_need_upgrade

\* Once the MCU enters its boot loader, nothing but the transfer goes on.
Transferring == in_boot \/ need_first \/ waiting = "mcu_upgrade"
OneTransfer == Transferring =>
  /\ left.request = 0 /\ ~asked /\ ~request_latest_version
  /\ upgrade_state \in {"idle", "update_mcu"}

\* The MCU is asked to enter it only when its image was copied.
Handover ==
  /\ in_boot => waiting # "mcu_upgrade"
  /\ waiting = "mcu_upgrade" => mcu_area # Junk

SInv == Single /\ Asking /\ OneTransfer /\ Handover /\ StaysResumable /\ McuGetsWholeImage

\* What spending leaves of the requests, and of the connections renewed.
LEMMA SpendingOne ==
  ASSUME left \in BudgetType
  PROVE  /\ left.request \in Nat /\ left.renew \in Nat /\ left.late \in Nat
         /\ \A what \in {"corrupt", "crash", "drop", "lost", "key"} :
              Spend(what) => left'.request = left.request /\ left'.renew = left.renew /\ left'.late = left.late
         /\ Spend("request") =>
              left.request > 0 /\ left'.request = left.request - 1
           /\ left'.renew = left.renew /\ left'.late = left.late
BY DEF BudgetType, Spend

\* The records that are saved.
LEMMA NeedFields ==
  ASSUME upgrade_info \in Infos
  PROVE  \A need \in BOOLEAN :
           /\ Need(need).is_need_upgrade = need
           /\ \A type : [Need(need) EXCEPT !.type = type].is_need_upgrade = need
BY DEF Infos, Need

\* An image with the right checksum is whole.
LEMMA CopyWhole ==
  ASSUME file \in Files, CopyToMcuArea, CrcMatches
  PROVE  mcu_area' # Junk
BY VersionFacts DEF Files, CopyToMcuArea, CrcMatches, ErasedVersion, Junk

\* Nothing is under way at first.
LEMMA SingleInit == Init /\ SingleUpgrade => SInv
BY UpgradeAssumption
   DEF Init, SingleUpgrade, SInv, Single, Asking, OneTransfer, Transferring, Handover,
       StaysResumable, McuGetsWholeImage, Junk, BudgetType

\* Every step keeps the invariant.
LEMMA SingleNext ==
  ASSUME IInv, SInv, [Next]_vars
  PROVE  SInv'
<1> USE DEF SInv
<1>t. /\ upgrade_info \in Infos /\ file \in Files /\ left \in BudgetType
      /\ need_first \in BOOLEAN /\ in_boot \in BOOLEAN /\ up \in BOOLEAN
      /\ upgrade_type \in {"request", "force"}
  BY DEF IInv, TypeOK, Infos
<1>b. /\ left.request \in Nat /\ left.renew \in Nat /\ left.late \in Nat
      /\ \A what \in {"corrupt", "crash", "drop", "lost", "key"} :
           Spend(what) => left'.request = left.request /\ left'.renew = left.renew /\ left'.late = left.late
      /\ Spend("request") =>
           left.request > 0 /\ left'.request = left.request - 1
           /\ left'.renew = left.renew /\ left'.late = left.late
  BY <1>t, SpendingOne
<1>n. \A need \in BOOLEAN :
        /\ Need(need).is_need_upgrade = need
        /\ \A type : [Need(need) EXCEPT !.type = type].is_need_upgrade = need
  BY <1>t, NeedFields
<1>1. CASE AnswerTimeout
  BY <1>1, <1>t, <1>b, <1>n
     DEF AnswerTimeout, mcuVars, netVars, flashVars, retryVars, requestVars, offVars,
         Single, Asking, OneTransfer, Transferring, Handover, StaysResumable, McuGetsWholeImage
<1>2. CASE ServerConnect
  BY <1>2, <1>t, <1>b, <1>n
     DEF ServerConnect, mcuVars, netVars, flashVars, retryVars, requestVars, offVars,
         Single, Asking, OneTransfer, Transferring, Handover, StaysResumable, McuGetsWholeImage
<1>3. CASE ServerLost
  BY <1>3, <1>t, <1>b, <1>n
     DEF ServerLost, mcuVars, netVars, flashVars, retryVars, requestVars, offVars,
         Single, Asking, OneTransfer, Transferring, Handover, StaysResumable, McuGetsWholeImage
<1>4. CASE TransVersion
  BY <1>4, <1>t, <1>b, <1>n
     DEF TransVersion, mcuVars, netVars, flashVars, retryVars, requestVars, offVars,
         Single, Asking, OneTransfer, Transferring, Handover, StaysResumable, McuGetsWholeImage
<1>5. CASE \E type \in {"request", "force"} : McuRequest(type)
  <2>1. PICK type \in {"request", "force"} : McuRequest(type)
    BY <1>5
  <2>2. Spend("request") /\ left.request = 1 /\ left'.request = 0 /\ left'.renew = 0 /\ left'.late = 0
    BY <1>b, <2>1 DEF McuRequest, Single
  <2>3. /\ upgrade_type' = type /\ (type = "request" => upgrade_info'.is_need_upgrade)
        /\ upgrade_state' = "idle" /\ waiting' \in {waiting, "get_version"}
        /\ UNCHANGED <<mcu_area, mcuVars>>
    <3>1. Needed(type) = (type # "force")
      BY DEF Needed
    <3> QED BY <1>n, <2>1, <2>2, <3>1 DEF McuRequest, SendGetVersion, Single
  <2>4. ~Transferring
    BY <2>2 DEF OneTransfer
  <2> QED BY <2>2, <2>3, <2>4
          DEF mcuVars, Single, Asking, OneTransfer, Transferring, Handover,
              StaysResumable, McuGetsWholeImage
<1>6. CASE AskLater
  BY <1>6, <1>t, <1>b, <1>n
     DEF AskLater, SendGetVersion, mcuVars, netVars, flashVars, retryVars, requestVars, offVars,
         Single, Asking, OneTransfer, Transferring, Handover, StaysResumable, McuGetsWholeImage
<1>7. CASE \E r \in Releases : GetVersionOld(r)
  BY <1>7, <1>t, <1>b, <1>n
     DEF GetVersionOld, Answered, mcuVars, netVars, flashVars, retryVars, requestVars, offVars,
         Single, Asking, OneTransfer, Transferring, Handover, StaysResumable, McuGetsWholeImage
<1>8. CASE \E r \in Releases : GetVersionNew(r)
  BY <1>8, <1>t, <1>b, <1>n
     DEF GetVersionNew, Answered, mcuVars, netVars, flashVars, retryVars, requestVars, offVars,
         Single, Asking, OneTransfer, Transferring, Handover, StaysResumable, McuGetsWholeImage
<1>9. CASE HttpConnect
  BY <1>9, <1>t, <1>b, <1>n
     DEF HttpConnect, mcuVars, netVars, flashVars, retryVars, requestVars, offVars,
         Single, Asking, OneTransfer, Transferring, Handover, StaysResumable, McuGetsWholeImage
<1>10. CASE HttpReconnect
  BY <1>10, <1>t, <1>b, <1>n
     DEF HttpReconnect, Spend, mcuVars, netVars, flashVars, retryVars, requestVars, offVars,
         Single, Asking, OneTransfer, Transferring, Handover, StaysResumable, McuGetsWholeImage
<1>11. CASE HttpPart
  BY <1>11, <1>t, <1>b, <1>n
     DEF HttpPart, mcuVars, netVars, flashVars, retryVars, requestVars, offVars,
         Single, Asking, OneTransfer, Transferring, Handover, StaysResumable, McuGetsWholeImage
<1>12. CASE HttpEarly
  BY <1>12, <1>t, <1>b, <1>n
     DEF HttpEarly, DownloadDone, mcuVars, netVars, flashVars, retryVars, requestVars, offVars,
         Single, Asking, OneTransfer, Transferring, Handover, StaysResumable, McuGetsWholeImage
<1>13. CASE HttpError
  BY <1>13, <1>t, <1>b, <1>n
     DEF HttpError, mcuVars, netVars, flashVars, retryVars, requestVars, offVars,
         Single, Asking, OneTransfer, Transferring, Handover, StaysResumable, McuGetsWholeImage
<1>14. CASE \E w, m \in BOOLEAN : HttpDone(w, m)
  BY <1>14, <1>t, <1>b, <1>n
     DEF HttpDone, DownloadDone, mcuVars, netVars, flashVars, retryVars, requestVars, offVars,
         Single, Asking, OneTransfer, Transferring, Handover, StaysResumable, McuGetsWholeImage
<1>15. CASE GetPercent
  BY <1>15, <1>t, <1>b, <1>n
     DEF GetPercent, mcuVars, netVars, flashVars, retryVars, requestVars, offVars,
         Single, Asking, OneTransfer, Transferring, Handover, StaysResumable, McuGetsWholeImage
<1>16. CASE SendDone
  BY <1>16, <1>t, <1>b, <1>n
     DEF SendDone, mcuVars, netVars, flashVars, retryVars, requestVars, offVars,
         Single, Asking, OneTransfer, Transferring, Handover, StaysResumable, McuGetsWholeImage
<1>17. CASE SendDoneReboot
  BY <1>17, <1>t, <1>b, <1>n
     DEF SendDoneReboot, mcuVars, netVars, flashVars, retryVars, requestVars, offVars,
         Single, Asking, OneTransfer, Transferring, Handover, StaysResumable, McuGetsWholeImage
<1>18. CASE UpdateWifi
  BY <1>18, <1>t, <1>b, <1>n
     DEF UpdateWifi, Wifi, mcuVars, netVars, flashVars, retryVars, requestVars, offVars,
         Single, Asking, OneTransfer, Transferring, Handover, StaysResumable, McuGetsWholeImage
<1>19. CASE SaveSkipped
  BY <1>19, <1>t, <1>b, <1>n
     DEF SaveSkipped, Save, Wifi, mcuVars, netVars, flashVars, retryVars, requestVars, offVars,
         Single, Asking, OneTransfer, Transferring, Handover, StaysResumable, McuGetsWholeImage
<1>20. CASE SaveBad
  BY <1>20, <1>t, <1>b, <1>n
     DEF SaveBad, Save, Wifi, mcuVars, netVars, flashVars, retryVars, requestVars, offVars,
         Single, Asking, OneTransfer, Transferring, Handover, StaysResumable, McuGetsWholeImage
<1>21. CASE SaveForcedBad
  BY <1>21, <1>t, <1>b, <1>n
     DEF SaveForcedBad, Save, mcuVars, netVars, flashVars, retryVars, requestVars, offVars,
         Single, Asking, OneTransfer, Transferring, Handover, StaysResumable, McuGetsWholeImage
<1>22. CASE SaveGood
  <2>a. mcu_area' # Junk
    BY <1>t, <1>22, CopyWhole DEF SaveGood
  <2> QED BY <1>22, <1>t, <1>b, <1>n, <2>a
     DEF SaveGood, Save, mcuVars, netVars, flashVars, retryVars, requestVars, offVars,
         Single, Asking, OneTransfer, Transferring, Handover, StaysResumable, McuGetsWholeImage
<1>23. CASE Overwritten
  BY <1>23, <1>t, <1>b, <1>n
     DEF Overwritten, mcuVars, netVars, flashVars, retryVars, requestVars, offVars,
         Single, Asking, OneTransfer, Transferring, Handover, StaysResumable, McuGetsWholeImage
<1>24. CASE McuEntersBoot \/ McuEntersLate
  BY <1>24, <1>t, <1>b, <1>n
     DEF McuEntersBoot, McuEntersLate, SetInBoot, Spend, mcuVars, netVars, flashVars, retryVars, requestVars, offVars,
         Single, Asking, OneTransfer, Transferring, Handover, StaysResumable, McuGetsWholeImage
<1>25. CASE McuProgrammed
  BY <1>25, <1>t, <1>b, <1>n
     DEF McuProgrammed, mcuVars, netVars, flashVars, retryVars, requestVars, offVars,
         Single, Asking, OneTransfer, Transferring, Handover, StaysResumable, McuGetsWholeImage
<1>26. CASE McuSilent
  BY <1>26, <1>t, <1>b, <1>n
     DEF McuSilent, mcuVars, netVars, flashVars, retryVars, requestVars, offVars,
         Single, Asking, OneTransfer, Transferring, Handover, StaysResumable, McuGetsWholeImage
<1>27. CASE Crash
  BY <1>27, <1>t, <1>b, <1>n
     DEF Crash, Off, mcuVars, netVars, flashVars, retryVars, requestVars, offVars,
         Single, Asking, OneTransfer, Transferring, Handover, StaysResumable, McuGetsWholeImage
<1>28. CASE CrashInInfo
  BY <1>28, <1>t, <1>b, <1>n
     DEF CrashInInfo, Off, mcuVars, netVars, flashVars, retryVars, requestVars, offVars,
         Single, Asking, OneTransfer, Transferring, Handover, StaysResumable, McuGetsWholeImage
<1>29. CASE CrashInWifi
  BY <1>29, <1>t, <1>b, <1>n
     DEF CrashInWifi, Off, mcuVars, netVars, flashVars, retryVars, requestVars, offVars,
         Single, Asking, OneTransfer, Transferring, Handover, StaysResumable, McuGetsWholeImage
<1>30. CASE CrashInSave
  BY <1>30, <1>t, <1>b, <1>n
     DEF CrashInSave, Off, Save, mcuVars, netVars, flashVars, retryVars, requestVars, offVars,
         Single, Asking, OneTransfer, Transferring, Handover, StaysResumable, McuGetsWholeImage
<1>31. CASE CrashInBootInfo
  BY <1>31, <1>t, <1>b, <1>n
     DEF CrashInBootInfo, Off, mcuVars, netVars, flashVars, retryVars, requestVars, offVars,
         Single, Asking, OneTransfer, Transferring, Handover, StaysResumable, McuGetsWholeImage
<1>32. CASE PowerCycle
  BY <1>32, <1>t, <1>b, <1>n
     DEF PowerCycle, Off, mcuVars, netVars, flashVars, retryVars, requestVars, offVars,
         Single, Asking, OneTransfer, Transferring, Handover, StaysResumable, McuGetsWholeImage
<1>33. CASE \E k \in BOOLEAN : Boot(k)
  BY <1>33, <1>t, <1>b, <1>n
     DEF Boot, Resume, mcuVars, netVars, flashVars, retryVars, requestVars, offVars,
         Single, Asking, OneTransfer, Transferring, Handover, StaysResumable, McuGetsWholeImage
<1>34. CASE UNCHANGED vars
  BY <1>34, <1>t, <1>b, <1>n
     DEF vars, mcuVars, netVars, flashVars, retryVars, requestVars, offVars,
         Single, Asking, OneTransfer, Transferring, Handover, StaysResumable, McuGetsWholeImage
<1> QED
  BY <1>1, <1>2, <1>3, <1>4, <1>5, <1>6, <1>7, <1>8, <1>9, <1>10, <1>11, <1>12, <1>13, <1>14, <1>15, <1>16, <1>17, <1>18, <1>19, <1>20, <1>21, <1>22, <1>23, <1>24, <1>25, <1>26, <1>27, <1>28, <1>29, <1>30, <1>31, <1>32, <1>33, <1>34 DEF Next

LEMMA SingleInvariance == SingleUpgrade => (Spec => [](IInv /\ SInv))
<1>1. Init /\ SingleUpgrade => IInv /\ SInv
  BY InitInv, SingleInit
<1>2. (IInv /\ SInv) /\ [Next]_vars => (IInv /\ SInv)'
  BY NextInv, SingleNext
<1> QED BY <1>1, <1>2, PTL DEF Spec

-----------------------------------------------------------------------------
\* When the MCU asks for one upgrade and no connection is renewed, an upgrade
\* that was not forced is on record from the request until the Wi-Fi image's
\* turn comes (set_upgrade_type, clear_is_need_upgrade): a restart resumes it.
THEOREM ResumableCorrect == SingleUpgrade => (Spec => []StaysResumable)
<1>1. SInv => StaysResumable
  BY DEF SInv
<1> QED BY <1>1, SingleInvariance, PTL

\* Then the MCU is never given an image with a bad checksum, or one whose
\* copying was interrupted (upgrade_mcu_save).
THEOREM McuImageCorrect == SingleUpgrade => (Spec => []McuGetsWholeImage)
<1>1. SInv => McuGetsWholeImage
  BY DEF SInv
<1> QED BY <1>1, SingleInvariance, PTL

\* And the Wi-Fi chip is neither reprogrammed nor restarted into its new
\* firmware while the MCU waits for its image or receives it.
THEOREM OneProcessorCorrect == SingleUpgrade => (Spec => []OneProcessorAtATime)
<1>1. SInv => OneProcessorAtATime
  BY DEF SInv, OneTransfer, Transferring, OneProcessorAtATime
<1> QED BY <1>1, SingleInvariance, PTL

-----------------------------------------------------------------------------
(* The transfer to the MCU.                                                *)

\* Every step of the upgrade is a step of Transfer, or leaves it alone.
LEMMA TransferStep ==
  ASSUME [Next]_vars
  PROVE  [Handed!Next]_(Handed!vars)
<1> USE DEF Handed!vars
<1>1. CASE McuEntersBoot \/ McuEntersLate \/ (SaveGood /\ upgrade_type = "force")
  <2>1. Handed!Begin
    BY <1>1 DEF McuEntersBoot, McuEntersLate, SetInBoot, SaveGood, Save, Handed!Begin
  <2> QED BY <2>1 DEF Handed!Next
<1>2. CASE McuProgrammed
  <2>1. Handed!Done
    BY <1>2 DEF McuProgrammed, flashVars, Handed!Done
  <2> QED BY <2>1 DEF Handed!Next
<1>3. CASE McuSilent
  <2>1. Handed!GiveUp
    BY <1>3 DEF McuSilent, Handed!GiveUp
  <2> QED BY <2>1 DEF Handed!Next
<1>4. CASE \/ SendDoneReboot \/ Overwritten \/ Crash \/ CrashInInfo \/ CrashInWifi
           \/ CrashInSave \/ CrashInBootInfo \/ PowerCycle
  <2>1. up /\ ~up' /\ in_boot' = in_boot
    BY <1>4 DEF SendDoneReboot, Overwritten, Crash, CrashInInfo, CrashInWifi, CrashInSave,
                CrashInBootInfo, PowerCycle, Off, offVars, mcuVars
  <2>2. need_first' = need_first \/ ~need_first'
    BY <1>4 DEF SendDoneReboot, Overwritten, Crash, CrashInInfo, CrashInWifi, CrashInSave,
                CrashInBootInfo, PowerCycle, offVars, mcuVars
  <2>3. Handed!Off
    BY <2>1, <2>2 DEF Handed!Off
  <2> QED BY <2>3 DEF Handed!Next
<1>5. CASE \E k \in BOOLEAN : Boot(k)
  <2>1. PICK k \in BOOLEAN : Boot(k)
    BY <1>5
  <2>2. ~up /\ up' /\ (need_first' <=> need_first /\ ~k) /\ (in_boot' = FALSE \/ in_boot' = need_first')
    BY <2>1 DEF Boot
  <2>3. Handed!Boot
    BY <2>2 DEF Handed!Boot
  <2> QED BY <2>3 DEF Handed!Next
<1>6. CASE UNCHANGED <<up, in_boot, need_first>>
  BY <1>6
<1>7. CASE SaveGood /\ upgrade_type # "force"
  BY <1>7 DEF SaveGood
<1> QED
  BY <1>1, <1>2, <1>3, <1>4, <1>5, <1>6, <1>7
     DEF Next, vars, mcuVars, AnswerTimeout, ServerConnect, ServerLost, TransVersion, McuRequest,
         AskLater, GetVersionOld, GetVersionNew, Answered, HttpConnect, HttpReconnect, HttpPart,
         HttpEarly, HttpError, HttpDone, GetPercent, SendDone, UpdateWifi, SaveSkipped, SaveBad,
         SaveForcedBad

\* With any number of requests, faults and late answers, Upgrade assumes of the
\* transfer to the MCU (CMD_MCU_UPGRADE, set_mcu_upgrade_result, upgrade_init)
\* what Transfer says, which McuBoot was shown to implement.
THEOREM TransferCorrect == Spec => Transfers
<1>1. Init => Handed!Init
  BY DEF Init, Handed!Init
<1>2. [Next]_vars => [Handed!Next]_(Handed!vars)
  BY TransferStep
<1> QED BY <1>1, <1>2, PTL DEF Spec, Transfers, Handed!Spec
=============================================================================
