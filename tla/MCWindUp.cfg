CONSTANTS
  NoAccount = NoAccount
  Merchants = {m1}
  Customers = {c1, c2}
  Relayers = {r1}
  Secrets = {s1}
  MaxVouchers = 1
  MaxNftCycle = 1
  Epoch = 3
  ClosingTime = 4
  MaxTime = 6
  StampCooldownSeconds = 0
  MaxReceiptsPerHour = 2
  MaxClaimsPerCardPerDay = 2
  VoucherValidSeconds = 1
  CardDeadSeconds = 2
  CardNftIdleSeconds = 1
  HourSeconds = 3
  DaySeconds = 3
  U8Max = 2
  MaxStampsRequired = 2
  MinReceiptTtlSeconds = 1
  MaxReceiptTtlSeconds = 1
  MaxTermsLockSeconds = 2
  MinTermsNoticeSeconds = 1
  StampGoals = {1}
  ReceiptTtls = {1}
  LockDates = {5}
SPECIFICATION WindUpSpec
CHECK_DEADLOCK FALSE
PROPERTIES
  ReceiptsSwept
  NftsRecycled
  VouchersEnd
  ShopsWindUp
