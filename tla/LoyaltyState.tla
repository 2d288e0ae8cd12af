---------------------------- MODULE LoyaltyState ----------------------------
(***************************************************************************)
(* The accounts of the loyalty program (programs/loyalty/src/state.rs), as *)
(* functions from the seeds of their addresses to their contents, and the  *)
(* limits in constants.rs and business_rules.rs.  The components (Shops,   *)
(* Receipts, Cards, Vouchers) extend this module with their instructions;  *)
(* Loyalty puts them together.                                             *)
(***************************************************************************)
EXTENDS Integers, FiniteSets, Token2022

CONSTANTS
  Merchants,    \* wallets that may register a shop (the seed of its address)
  Customers,    \* wallets that may hold cards and vouchers
  Relayers,     \* wallets that sign as fee and rent payer
  Secrets,      \* receipt secrets; one stands for its hash too
  MaxVouchers,  \* bound on voucher ids (a u64 in the program)
  MaxNftCycle,  \* bound on a card's nft_cycle (a u32 in the program)
  Epoch,        \* the clock when the program is deployed
  MaxTime       \* bound on the clock

CONSTANTS       \* constants.rs
  StampCooldownSeconds, MaxReceiptsPerHour, MaxClaimsPerCardPerDay,
  VoucherValidSeconds, CardDeadSeconds, CardNftIdleSeconds,
  HourSeconds,  \* 3600 in issue_receipt
  DaySeconds,   \* 86400 in claim_receipt
  U8Max         \* what a u8 holds: the most stamps on a card

CONSTANTS       \* business_rules.rs
  MaxStampsRequired, MinReceiptTtlSeconds, MaxReceiptTtlSeconds,
  MaxTermsLockSeconds, MinTermsNoticeSeconds

ASSUME WalletsAssumption ==
  /\ IsFiniteSet(Customers)
  /\ MaxVouchers \in Nat
  /\ MaxNftCycle \in Nat

\* The deployed clock is far past the width of both rate windows, so the zero
\* in a fresh account's window_start is always an old window.
ASSUME ClockAssumption ==
  /\ Epoch \in Nat \ {0}
  /\ HourSeconds \in Nat /\ HourSeconds <= Epoch
  /\ DaySeconds \in Nat /\ DaySeconds <= Epoch
  /\ MaxTime \in Nat

ASSUME LimitsAssumption ==
  /\ StampCooldownSeconds \in Nat
  /\ VoucherValidSeconds \in Nat
  /\ CardNftIdleSeconds \in Nat
  /\ CardDeadSeconds \in Nat
  /\ MaxReceiptsPerHour \in Nat
  /\ MaxClaimsPerCardPerDay \in Nat
  /\ MaxTermsLockSeconds \in Nat
  /\ MinTermsNoticeSeconds \in Nat
  /\ MinReceiptTtlSeconds \in Nat
  /\ MaxReceiptTtlSeconds \in Nat
  /\ U8Max \in Nat
  /\ MaxStampsRequired \in 1..U8Max

VoucherIds == 0..(MaxVouchers - 1)

VARIABLES
  now,           \* the Clock sysvar
  shop,          \* shop[m]: the Business account of merchant m
  receipt,       \* receipt[m][s]
  card,          \* card[m][c]
  cardMint,      \* <<m, c, cycle>> of the card-NFT mints that exist
  cardToken,     \* those whose customer still has a token account for it
  cardHeld,      \* those whose one token has not been burned
  voucher,       \* voucher[m][i]
  voucherMint,   \* <<m, i>> of the voucher mints that exist
  voucherToken   \* voucherToken[m][i][w]: wallet w's account for that mint

cardNftVars == <<cardMint, cardToken, cardHeld>>
voucherVars == <<voucher, voucherMint, voucherToken>>
vars == <<now, shop, receipt, card, cardNftVars, voucherVars>>
-----------------------------------------------------------------------------
\* The fields a property or a guard reads.  Names, category, currency, reward
\* label, minimum purchase and metadata link are read by no check after
\* check_settings; bumps follow from the addresses.

Business ==
  [stamps_required : 0..U8Max,
   receipt_ttl_seconds : Nat,
   receipts_window_start : Nat, receipts_this_window : Nat,
   total_cards : Nat, total_stamps_issued : Nat,
   total_vouchers_issued : Nat, total_redemptions : Nat,
   terms_locked_until : Nat,
   open_cards : Nat, open_vouchers : Nat,
   rent_payer : Relayers]

Receipt == [expires_at : Nat, rent_payer : Relayers]

LoyaltyCard ==
  [stamps : 0..U8Max,
   last_stamp_ts : Nat,
   claims_window_start : Nat, claims_this_window : Nat,
   lifetime_stamps : Nat,
   nft_cycle : Nat,
   stamps_required_snapshot : 0..U8Max,
   rent_payer : Relayers,
   rewards_earned : Nat]

Voucher == [owner : Customers, rent_payer : Relayers, expires_at : Nat]

\* NoAccount is none of the accounts.
ASSUME NoAccountAssumption ==
  /\ NoAccount \notin Business
  /\ NoAccount \notin Receipt
  /\ NoAccount \notin LoyaltyCard
  /\ NoAccount \notin Voucher
  /\ NoAccount \notin TokenAccount

\* Every account holds what its type says.
TypeOK ==
  /\ now \in Nat
  /\ shop \in [Merchants -> Business \cup {NoAccount}]
  /\ receipt \in [Merchants -> [Secrets -> Receipt \cup {NoAccount}]]
  /\ card \in [Merchants -> [Customers -> LoyaltyCard \cup {NoAccount}]]
  /\ cardMint \subseteq Merchants \X Customers \X Nat
  /\ cardToken \subseteq Merchants \X Customers \X Nat
  /\ cardHeld \subseteq Merchants \X Customers \X Nat
  /\ voucher \in [Merchants -> [VoucherIds -> Voucher \cup {NoAccount}]]
  /\ voucherMint \subseteq Merchants \X VoucherIds
  /\ voucherToken \in
       [Merchants -> [VoucherIds -> [Customers -> TokenAccount \cup {NoAccount}]]]

\* The program as deployed: no account exists.
Init ==
  /\ now = Epoch
  /\ shop = [m \in Merchants |-> NoAccount]
  /\ receipt = [m \in Merchants |-> [s \in Secrets |-> NoAccount]]
  /\ card = [m \in Merchants |-> [c \in Customers |-> NoAccount]]
  /\ cardMint = {}
  /\ cardToken = {}
  /\ cardHeld = {}
  /\ voucher = [m \in Merchants |-> [i \in VoucherIds |-> NoAccount]]
  /\ voucherMint = {}
  /\ voucherToken = [m \in Merchants |->
                      [i \in VoucherIds |-> [w \in Customers |-> NoAccount]]]

\* The cluster's clock: it never goes back.  MaxTime bounds the model.
Tick ==
  /\ now < MaxTime
  /\ now' = now + 1
  /\ UNCHANGED <<shop, receipt, card, cardNftVars, voucherVars>>
=============================================================================
