CONSTANTS
  NoAccount = NoAccount
  Merchants = {m1}
  Customers = {c1}
  Relayers = {r1}
  Secrets = {s1}
  MaxVouchers = 1
  MaxNftCycle = 0
  Epoch = 3
  MaxTime = 7
  StampCooldownSeconds = 1
  MaxReceiptsPerHour = 2
  MaxClaimsPerCardPerDay = 2
  VoucherValidSeconds = 1
  CardDeadSeconds = 3
  CardNftIdleSeconds = 1
  HourSeconds = 2
  DaySeconds = 3
  U8Max = 3
  MaxStampsRequired = 2
  MinReceiptTtlSeconds = 1
  MaxReceiptTtlSeconds = 1
  MaxTermsLockSeconds = 2
  MinTermsNoticeSeconds = 1
  StampGoals = {0, 1, 2, 3}
  ReceiptTtls = {0, 1}
  LockDates = {0, 3, 5, 6, 9}
SPECIFICATION RateSpec
CHECK_DEADLOCK FALSE
INVARIANTS
  HourlyIssueBounded
  ClaimsPaced
PROPERTIES
  TermsHonoured
  GoalpostsStay
