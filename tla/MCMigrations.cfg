CONSTANTS
  NoAccount = NoAccount
  Blank = Blank
  Merchants = {m1}
  Customers = {c1, c2}
  OldCustomers = {c1}
  OldPayers = {r1}
  OldGoals = {0, 2}
  Signers = {r2}
  Relayers = {Blank, r1, r2}
  TailDates = {0, 4}
  TailCards = {0, 1}
  TailPayers = {Blank}
  Secrets = {s1}
  MaxVouchers = 1
  MaxNftCycle = 1
  Epoch = 3
  MaxTime = 4
  StampCooldownSeconds = 1
  MaxReceiptsPerHour = 1
  MaxClaimsPerCardPerDay = 2
  VoucherValidSeconds = 0
  CardDeadSeconds = 1
  CardNftIdleSeconds = 1
  HourSeconds = 3
  DaySeconds = 3
  U8Max = 2
  MaxStampsRequired = 2
  MinReceiptTtlSeconds = 1
  MaxReceiptTtlSeconds = 1
  MaxTermsLockSeconds = 1
  MinTermsNoticeSeconds = 1
  StampGoals = {1}
  ReceiptTtls = {1}
  LockDates = {0}
SPECIFICATION MigrationSpec
CHECK_DEADLOCK FALSE
INVARIANTS
  MigrationTypeOK
  CountersNeverUnderstate
  NoOrphans
  RewardsRemembered
PROPERTIES
  PayerStays
