CONSTANTS
  NoAccount = NoAccount
  Blank = Blank
  Merchants = {m1}
  Customers = {c1}
  OldCustomers = {c1}
  OldPayers = {r1}
  OldGoals = {1}
  Signers = {r1}
  Relayers = {Blank, r1}
  TailDates = {0}
  TailCards = {0}
  TailPayers = {Blank}
  Secrets = {s1}
  MaxVouchers = 1
  MaxNftCycle = 1
  Epoch = 3
  MaxTime = 5
  StampCooldownSeconds = 1
  MaxReceiptsPerHour = 1
  MaxClaimsPerCardPerDay = 2
  VoucherValidSeconds = 1
  CardDeadSeconds = 2
  CardNftIdleSeconds = 1
  HourSeconds = 3
  DaySeconds = 3
  U8Max = 2
  MaxStampsRequired = 2
  MinReceiptTtlSeconds = 1
  MaxReceiptTtlSeconds = 1
  MaxTermsLockSeconds = 1
  MinTermsNoticeSeconds = 1
  StampGoals = {1}
  ReceiptTtls = {1}
  LockDates = {0, 4}
SPECIFICATION MigrationSpec
CHECK_DEADLOCK FALSE
PROPERTY
  PromiseOutlivesMigration
