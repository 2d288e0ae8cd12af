CONSTANTS
  NoAccount = NoAccount
  Merchants = {m1}
  Customers = {c1, c2}
  Relayers = {r1}
  Secrets = {s1}
  MaxVouchers = 1
  MaxNftCycle = 1
  Epoch = 4
  MaxTime = 7
  StampCooldownSeconds = 1
  MaxReceiptsPerHour = 1
  MaxClaimsPerCardPerDay = 2
  VoucherValidSeconds = 1
  CardDeadSeconds = 2
  CardNftIdleSeconds = 1
  HourSeconds = 4
  DaySeconds = 4
  U8Max = 3
  MaxStampsRequired = 2
  MinReceiptTtlSeconds = 1
  MaxReceiptTtlSeconds = 1
  MaxTermsLockSeconds = 2
  MinTermsNoticeSeconds = 1
  StampGoals = {0, 1}
  ReceiptTtls = {1}
  LockDates = {0}
SPECIFICATION Spec
SYMMETRY Symmetry
CHECK_DEADLOCK FALSE
INVARIANTS
  GoalsInRange
  CountersExact
  NoOrphans
  NextRewardMintable
