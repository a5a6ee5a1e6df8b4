SPECIFICATION FairSpec
CONSTANTS
  Packages = 3
  ErasedSize = 4
  BOOT_CONNECT_CNT = 2
  RETRY_CNT = 2
  IndexMod = 2
  Cap = 4
  Budgets <- LateOrLossy
INVARIANTS PhaseRecorded PackageLabel DoneMeansDelivered
PROPERTIES Installs Transfers WaitsEnd UploadCompletes SuccessRecorded
CHECK_DEADLOCK FALSE
