--------------------------- MODULE LoyaltyProofs ---------------------------
(***************************************************************************)
(* What holds of the loyalty program for any merchants, customers,         *)
(* relayers and receipts and any limits that satisfy the assumptions:      *)
(* accounts hold what they may hold, and no shop closes over an open card  *)
(* or an owed voucher, because the counters it decides by are exact.       *)
(***************************************************************************)
EXTENDS Loyalty, FiniteSetTheorems, TLAPS

-----------------------------------------------------------------------------
(* Each helper of the handlers returns what the account it is written to    *)
(* may hold.                                                                *)

\* register_business fills a whole Business account.
LEMMA NewBusinessType ==
  ASSUME NEW stamps \in 0..U8Max, NEW ttl \in Nat, NEW lock \in Nat,
         NEW relayer \in Relayers
  PROVE  NewBusiness(stamps, ttl, lock, relayer) \in Business
BY DEF NewBusiness, Business

\* Settings that pass the checks fit the account they are written to.
LEMMA SettingsFit ==
  ASSUME NEW stamps, NEW ttl, CheckSettings(stamps, ttl)
  PROVE  stamps \in 0..U8Max /\ ttl \in Nat
BY LimitsAssumption DEF CheckSettings

\* Writing one field of an account keeps its type: the solver takes a record's
\* updates one at a time.
LEMMA BusinessField ==
  ASSUME NEW b \in Business, NEW n \in Nat
  PROVE  /\ [b EXCEPT !.receipts_window_start = n] \in Business
         /\ [b EXCEPT !.receipts_this_window = n] \in Business
         /\ [b EXCEPT !.total_cards = n] \in Business
         /\ [b EXCEPT !.total_stamps_issued = n] \in Business
         /\ [b EXCEPT !.total_vouchers_issued = n] \in Business
         /\ [b EXCEPT !.total_redemptions = n] \in Business
         /\ [b EXCEPT !.open_cards = n] \in Business
         /\ [b EXCEPT !.open_vouchers = n] \in Business
         /\ [b EXCEPT !.terms_locked_until = n] \in Business
         /\ [b EXCEPT !.receipt_ttl_seconds = n] \in Business
BY DEF Business

LEMMA BusinessGoalField ==
  ASSUME NEW b \in Business, NEW n \in 0..U8Max
  PROVE  [b EXCEPT !.stamps_required = n] \in Business
BY DEF Business

\* A shop with new terms is a shop still.
LEMMA NewTermsType ==
  ASSUME NEW b \in Business, NEW stamps \in 0..U8Max,
         NEW ttl \in Nat, NEW lock \in Nat
  PROVE  [b EXCEPT !.terms_locked_until = lock, !.stamps_required = stamps,
                   !.receipt_ttl_seconds = ttl] \in Business
<1> DEFINE b1 == [b EXCEPT !.terms_locked_until = lock]
           b2 == [b1 EXCEPT !.stamps_required = stamps]
<1>1. b1 \in Business BY BusinessField
<1> HIDE DEF b1
<1>2. b2 \in Business BY <1>1, BusinessGoalField
<1> HIDE DEF b2
<1>3. [b2 EXCEPT !.receipt_ttl_seconds = ttl] \in Business BY <1>2, BusinessField
<1> QED BY <1>3 DEF b2, b1

LEMMA CardField ==
  ASSUME NEW k \in LoyaltyCard, NEW n \in Nat
  PROVE  /\ [k EXCEPT !.last_stamp_ts = n] \in LoyaltyCard
         /\ [k EXCEPT !.claims_window_start = n] \in LoyaltyCard
         /\ [k EXCEPT !.claims_this_window = n] \in LoyaltyCard
         /\ [k EXCEPT !.lifetime_stamps = n] \in LoyaltyCard
         /\ [k EXCEPT !.nft_cycle = n] \in LoyaltyCard
         /\ [k EXCEPT !.rewards_earned = n] \in LoyaltyCard
BY DEF LoyaltyCard

LEMMA CardStampsField ==
  ASSUME NEW k \in LoyaltyCard, NEW n \in 0..U8Max
  PROVE  [k EXCEPT !.stamps = n] \in LoyaltyCard
BY DEF LoyaltyCard

LEMMA CardGoalField ==
  ASSUME NEW k \in LoyaltyCard, NEW n \in 0..U8Max
  PROVE  [k EXCEPT !.stamps_required_snapshot = n] \in LoyaltyCard
BY DEF LoyaltyCard

\* The hourly window is rolled within the account's type, and leaves alone how
\* long a receipt lasts.
LEMMA HourlyWindowType ==
  ASSUME NEW b \in Business, now \in Nat
  PROVE  /\ HourlyWindow(b) \in Business
         /\ [HourlyWindow(b) EXCEPT !.receipts_this_window = @ + 1] \in Business
         /\ HourlyWindow(b).receipt_ttl_seconds = b.receipt_ttl_seconds
<1> DEFINE b1 == [b EXCEPT !.receipts_window_start = now]
<1>1. b1 \in Business BY BusinessField
<1>2. HourlyWindow(b) \in {b, [b1 EXCEPT !.receipts_this_window = 0]} BY DEF HourlyWindow
<1>3. b1.receipt_ttl_seconds = b.receipt_ttl_seconds BY DEF Business
<1> HIDE DEF b1
<1>4. [b1 EXCEPT !.receipts_this_window = 0] \in Business BY <1>1, BusinessField
<1>5. HourlyWindow(b) \in Business BY <1>2, <1>4
<1>6. HourlyWindow(b).receipts_this_window + 1 \in Nat BY <1>5 DEF Business
<1>7. [HourlyWindow(b) EXCEPT !.receipts_this_window = @ + 1] \in Business
  BY <1>5, <1>6, BusinessField
<1>8. HourlyWindow(b).receipt_ttl_seconds = b.receipt_ttl_seconds
  BY <1>1, <1>2, <1>3 DEF Business
<1> QED BY <1>5, <1>7, <1>8

\* A claim's card: the one it opens, the window it rolls and the stamp it adds.
LEMMA OpenedCardType ==
  ASSUME NEW b \in Business, NEW relayer \in Relayers
  PROVE  OpenedCard(b, relayer) \in LoyaltyCard
BY LimitsAssumption DEF OpenedCard, Business, LoyaltyCard

LEMMA DailyWindowType ==
  ASSUME NEW k \in LoyaltyCard, now \in Nat
  PROVE  DailyWindow(k) \in LoyaltyCard
<1> DEFINE k1 == [k EXCEPT !.claims_window_start = now]
<1>1. k1 \in LoyaltyCard BY CardField
<1>2. DailyWindow(k) \in {k, [k1 EXCEPT !.claims_this_window = 0]} BY DEF DailyWindow
<1> HIDE DEF k1
<1>3. [k1 EXCEPT !.claims_this_window = 0] \in LoyaltyCard BY <1>1, CardField
<1> QED BY <1>2, <1>3

LEMMA StampedType ==
  ASSUME NEW k \in LoyaltyCard, now \in Nat, k.stamps < U8Max
  PROVE  Stamped(k) \in LoyaltyCard
<1> DEFINE k1 == [k EXCEPT !.claims_this_window = k.claims_this_window + 1]
           k2 == [k1 EXCEPT !.stamps = k.stamps + 1]
           k3 == [k2 EXCEPT !.last_stamp_ts = now]
<1>1. /\ k.claims_this_window + 1 \in Nat
      /\ k.stamps + 1 \in 0..U8Max
      /\ k.lifetime_stamps + 1 \in Nat
  BY LimitsAssumption DEF LoyaltyCard
<1>2. k1 \in LoyaltyCard BY <1>1, CardField
<1>3. k1.stamps = k.stamps /\ k1.lifetime_stamps = k.lifetime_stamps BY DEF LoyaltyCard
<1> HIDE DEF k1
<1>4. k2 \in LoyaltyCard BY <1>1, <1>2, CardStampsField
<1>5. k2.lifetime_stamps = k.lifetime_stamps BY <1>2, <1>3 DEF LoyaltyCard
<1> HIDE DEF k2
<1>6. k3 \in LoyaltyCard BY <1>4, CardField
<1>7. k3.lifetime_stamps = k.lifetime_stamps BY <1>4, <1>5 DEF LoyaltyCard
<1> HIDE DEF k3
<1>8. [k3 EXCEPT !.lifetime_stamps = k.lifetime_stamps + 1] \in LoyaltyCard
  BY <1>1, <1>6, CardField
<1> QED BY <1>3, <1>5, <1>7, <1>8 DEF Stamped, k3, k2, k1

LEMMA CountStampType ==
  ASSUME NEW b \in Business, NEW opening \in BOOLEAN
  PROVE  CountStamp(b, opening) \in Business
<1> DEFINE cards == IF opening THEN b.total_cards + 1 ELSE b.total_cards
           open == IF opening THEN b.open_cards + 1 ELSE b.open_cards
           b1 == [b EXCEPT !.total_stamps_issued = b.total_stamps_issued + 1]
           b2 == [b1 EXCEPT !.total_cards = cards]
<1>1. b.total_stamps_issued + 1 \in Nat /\ cards \in Nat /\ open \in Nat BY DEF Business
<1> HIDE DEF cards, open
<1>2. b1 \in Business BY <1>1, BusinessField
<1>3. b1.total_cards = b.total_cards /\ b1.open_cards = b.open_cards BY DEF Business
<1> HIDE DEF b1
<1>4. b2 \in Business BY <1>1, <1>2, BusinessField
<1>5. b2.open_cards = b.open_cards BY <1>2, <1>3 DEF Business
<1> HIDE DEF b2
<1>6. [b2 EXCEPT !.open_cards = open] \in Business BY <1>1, <1>4, BusinessField
<1> QED BY <1>3, <1>5, <1>6 DEF CountStamp, b2, b1, cards, open

\* Passing stamps leaves both cards in range under transfer_stamps's checks.
LEMMA PassedType ==
  ASSUME NEW k \in LoyaltyCard, NEW amount \in 1..U8Max,
         k.stamps >= amount, k.lifetime_stamps >= amount
  PROVE  Passed(k, amount) \in LoyaltyCard
<1> DEFINE k1 == [k EXCEPT !.stamps = k.stamps - amount]
<1>1. k.stamps - amount \in 0..U8Max /\ k.lifetime_stamps - amount \in Nat
  BY LimitsAssumption DEF LoyaltyCard
<1>2. k1 \in LoyaltyCard BY <1>1, CardStampsField
<1>3. k1.lifetime_stamps = k.lifetime_stamps BY DEF LoyaltyCard
<1> HIDE DEF k1
<1>4. [k1 EXCEPT !.lifetime_stamps = k.lifetime_stamps - amount] \in LoyaltyCard
  BY <1>1, <1>2, CardField
<1> QED BY <1>3, <1>4 DEF Passed, k1

LEMMA ReceivedType ==
  ASSUME NEW k \in LoyaltyCard, NEW amount \in 1..U8Max, k.stamps + amount <= U8Max
  PROVE  Received(k, amount) \in LoyaltyCard
<1> DEFINE k1 == [k EXCEPT !.stamps = k.stamps + amount]
<1>1. k.stamps + amount \in 0..U8Max /\ k.lifetime_stamps + amount \in Nat
  BY LimitsAssumption DEF LoyaltyCard
<1>2. k1 \in LoyaltyCard BY <1>1, CardStampsField
<1>3. k1.lifetime_stamps = k.lifetime_stamps BY DEF LoyaltyCard
<1> HIDE DEF k1
<1>4. [k1 EXCEPT !.lifetime_stamps = k.lifetime_stamps + amount] \in LoyaltyCard
  BY <1>1, <1>2, CardField
<1> QED BY <1>3, <1>4 DEF Received, k1

\* A card that can pay its goal is still a card once it has.
LEMMA CashedInType ==
  ASSUME NEW k \in LoyaltyCard, NEW b \in Business, NEW burned \in BOOLEAN,
         k.stamps >= k.stamps_required_snapshot
  PROVE  CashedIn(k, b, burned) \in LoyaltyCard
<1> DEFINE left == k.stamps - k.stamps_required_snapshot
           cycle == IF burned THEN k.nft_cycle + 1 ELSE k.nft_cycle
           k1 == [k EXCEPT !.stamps = left]
           k2 == [k1 EXCEPT !.rewards_earned = k.rewards_earned + 1]
           k3 == [k2 EXCEPT !.stamps_required_snapshot = b.stamps_required]
<1>1. /\ left \in 0..U8Max
      /\ k.rewards_earned + 1 \in Nat
      /\ b.stamps_required \in 0..U8Max
      /\ cycle \in Nat
  BY LimitsAssumption DEF LoyaltyCard, Business
<1> HIDE DEF left, cycle
<1>2. k1 \in LoyaltyCard BY <1>1, CardStampsField
<1>3. k1.rewards_earned = k.rewards_earned /\ k1.nft_cycle = k.nft_cycle BY DEF LoyaltyCard
<1> HIDE DEF k1
<1>4. k2 \in LoyaltyCard BY <1>1, <1>2, CardField
<1>5. k2.nft_cycle = k.nft_cycle BY <1>2, <1>3 DEF LoyaltyCard
<1> HIDE DEF k2
<1>6. k3 \in LoyaltyCard BY <1>1, <1>4, CardGoalField
<1>7. k3.nft_cycle = k.nft_cycle BY <1>4, <1>5 DEF LoyaltyCard
<1> HIDE DEF k3
<1>8. [k3 EXCEPT !.nft_cycle = cycle] \in LoyaltyCard BY <1>1, <1>6, CardField
<1> QED BY <1>3, <1>5, <1>7, <1>8 DEF CashedIn, k3, k2, k1, left, cycle

\* The counters stay natural numbers, the saturating ones at zero too.
LEMMA CountersType ==
  ASSUME NEW b \in Business
  PROVE  /\ CountMinted(b) \in Business
         /\ CountClosedCard(b) \in Business
         /\ CountClosedVoucher(b) \in Business
         /\ CountRedeemed(b) \in Business
<1> DEFINE b1 == [b EXCEPT !.total_vouchers_issued = b.total_vouchers_issued + 1]
<1>1. /\ b.total_vouchers_issued + 1 \in Nat
      /\ b.open_vouchers + 1 \in Nat
      /\ (IF b.open_cards = 0 THEN 0 ELSE b.open_cards - 1) \in Nat
      /\ (IF b.open_vouchers = 0 THEN 0 ELSE b.open_vouchers - 1) \in Nat
  BY DEF Business
<1>2. b1 \in Business BY <1>1, BusinessField
<1>3. b1.open_vouchers = b.open_vouchers BY DEF Business
<1> HIDE DEF b1
<1>4. [b1 EXCEPT !.open_vouchers = b.open_vouchers + 1] \in Business
  BY <1>1, <1>2, BusinessField
<1>5. CountMinted(b) \in Business BY <1>3, <1>4 DEF CountMinted, b1
<1>6. CountClosedCard(b) \in Business BY <1>1, BusinessField DEF CountClosedCard
<1>7. CountClosedVoucher(b) \in Business BY <1>1, BusinessField DEF CountClosedVoucher
<1>8. CountClosedVoucher(b).total_redemptions + 1 \in Nat BY <1>7 DEF Business
<1>9. CountRedeemed(b) \in Business BY <1>7, <1>8, BusinessField DEF CountRedeemed
<1> QED BY <1>5, <1>6, <1>7, <1>9

\* What the token program makes of a token account is a token account.
LEMMA TokenField ==
  ASSUME NEW t \in TokenAccount
  PROVE  /\ [t EXCEPT !.amount = 1] \in TokenAccount
         /\ [t EXCEPT !.amount = 0] \in TokenAccount
         /\ [t EXCEPT !.state = "Frozen"] \in TokenAccount
         /\ [t EXCEPT !.state = "Initialized"] \in TokenAccount
         /\ \A c \in Closers : [t EXCEPT !.closer = c] \in TokenAccount
BY DEF TokenAccount

LEMMA TokenType ==
  ASSUME NEW t \in TokenAccount
  PROVE  /\ Credited(t) \in TokenAccount
         /\ Debited(t) \in TokenAccount
         /\ Presented(t) \in TokenAccount
         /\ Thawed(t) \in TokenAccount
         /\ [t EXCEPT !.closer = "other"] \in TokenAccount
<1> DEFINE frozen == [t EXCEPT !.state = "Frozen"]
           closer == IF t.closer = "owner" THEN "voucher" ELSE t.closer
<1>1. t # NoAccount BY NoAccountAssumption
<1>2. [t EXCEPT !.amount = 1] \in TokenAccount BY TokenField
<1>3. [t EXCEPT !.amount = 0] \in TokenAccount BY TokenField
<1>4. [t EXCEPT !.state = "Initialized"] \in TokenAccount BY TokenField
<1>5. [t EXCEPT !.closer = "other"] \in TokenAccount BY TokenField DEF Closers
<1>6. frozen \in TokenAccount BY TokenField
<1>7. frozen.closer = t.closer /\ closer \in Closers BY DEF TokenAccount, Closers
<1> HIDE DEF frozen, closer
<1>8. [frozen EXCEPT !.closer = closer] \in TokenAccount BY <1>6, <1>7, TokenField
<1>9. Presented(t) \in TokenAccount BY <1>7, <1>8 DEF Presented, frozen, closer
<1> QED BY <1>1, <1>2, <1>3, <1>4, <1>5, <1>9 DEF Credited, Debited, Thawed

LEMMA CreditedType ==
  ASSUME NEW t \in TokenAccount \cup {NoAccount}
  PROVE  Credited(t) \in TokenAccount
<1>1. EmptyToken \in TokenAccount BY DEF EmptyToken, TokenAccount, Closers
<1>2. [EmptyToken EXCEPT !.amount = 1] \in TokenAccount BY <1>1, TokenField
<1>3. CASE t = NoAccount BY <1>2, <1>3 DEF Credited
<1>4. CASE t # NoAccount BY <1>4, TokenType
<1> QED BY <1>3, <1>4

LEMMA ClosedByType ==
  ASSUME NEW t \in TokenAccount, NEW authorities
  PROVE  ClosedBy(t, authorities) \in TokenAccount \cup {NoAccount}
BY TokenType DEF ClosedBy
-----------------------------------------------------------------------------
(* Every step keeps every account in its type.                              *)

LEMMA InitType == Init => TypeOK
BY ClockAssumption DEF Init, TypeOK

\* Where there is an account, it is of its kind.
LEMMA AccountType ==
  ASSUME TypeOK
  PROVE  /\ \A m \in Merchants : shop[m] # NoAccount => shop[m] \in Business
         /\ \A m \in Merchants, s \in Secrets :
              receipt[m][s] # NoAccount => receipt[m][s] \in Receipt
         /\ \A m \in Merchants, c \in Customers :
              card[m][c] # NoAccount => card[m][c] \in LoyaltyCard
         /\ \A m \in Merchants, i \in VoucherIds :
              voucher[m][i] # NoAccount => voucher[m][i] \in Voucher
         /\ \A m \in Merchants, i \in VoucherIds, w \in Customers :
              voucherToken[m][i][w] \in TokenAccount \cup {NoAccount}
<1>1. \A m \in Merchants : shop[m] # NoAccount => shop[m] \in Business BY DEF TypeOK
<1>2. \A m \in Merchants, s \in Secrets :
        receipt[m][s] # NoAccount => receipt[m][s] \in Receipt
  BY DEF TypeOK
<1>3. \A m \in Merchants, c \in Customers :
        card[m][c] # NoAccount => card[m][c] \in LoyaltyCard
  BY DEF TypeOK
<1>4. \A m \in Merchants, i \in VoucherIds :
        voucher[m][i] # NoAccount => voucher[m][i] \in Voucher
  BY DEF TypeOK
<1>5. \A m \in Merchants, i \in VoucherIds, w \in Customers :
        voucherToken[m][i][w] \in TokenAccount \cup {NoAccount}
  BY DEF TypeOK
<1> QED BY <1>1, <1>2, <1>3, <1>4, <1>5

LEMMA TickType == TypeOK /\ Tick => TypeOK'
BY DEF TypeOK, Tick, cardNftVars, voucherVars

LEMMA ShopType ==
  ASSUME TypeOK, NEW m \in Merchants
  PROVE  /\ \A stamps \in StampGoals, ttl \in ReceiptTtls, lock \in LockDates :
              /\ \A relayer \in Relayers :
                   RegisterBusiness(m, stamps, ttl, lock, relayer) => TypeOK'
              /\ UpdateBusinessConfig(m, stamps, ttl, lock) => TypeOK'
         /\ CloseBusiness(m) => TypeOK'
<1> USE DEF cardNftVars, voucherVars
<1>1. ASSUME NEW stamps \in StampGoals, NEW ttl \in ReceiptTtls, NEW lock \in LockDates,
             NEW relayer \in Relayers,
             RegisterBusiness(m, stamps, ttl, lock, relayer)
      PROVE  TypeOK'
  <2> DEFINE b == NewBusiness(stamps, ttl, lock, relayer)
  <2>1. b \in Business
    BY <1>1, SettingsFit, NewBusinessType, ArgumentsAssumption DEF RegisterBusiness
  <2> HIDE DEF b
  <2>2. shop' = [shop EXCEPT ![m] = b] BY <1>1 DEF RegisterBusiness, b
  <2> QED BY <1>1, <2>1, <2>2 DEF RegisterBusiness, TypeOK
<1>2. ASSUME NEW stamps \in StampGoals, NEW ttl \in ReceiptTtls, NEW lock \in LockDates,
             UpdateBusinessConfig(m, stamps, ttl, lock)
      PROVE  TypeOK'
  <2> DEFINE b == [shop[m] EXCEPT !.terms_locked_until = lock,
                                  !.stamps_required = stamps,
                                  !.receipt_ttl_seconds = ttl]
  <2>1. shop[m] \in Business
    BY <1>2, AccountType DEF UpdateBusinessConfig, UpdateAllowed
  <2>2. stamps \in 0..U8Max
    BY <1>2, SettingsFit DEF UpdateBusinessConfig, UpdateAllowed
  <2>3. b \in Business BY <2>1, <2>2, ArgumentsAssumption, NewTermsType
  <2>4. shop' = [shop EXCEPT ![m] = b] BY <1>2 DEF UpdateBusinessConfig
  <2> HIDE DEF b
  <2> QED BY <1>2, <2>3, <2>4 DEF UpdateBusinessConfig, TypeOK
<1>3. ASSUME CloseBusiness(m) PROVE TypeOK'
  BY <1>3 DEF CloseBusiness, TypeOK
<1> QED BY <1>1, <1>2, <1>3

LEMMA ReceiptType ==
  ASSUME TypeOK, NEW m \in Merchants, NEW s \in Secrets
  PROVE  /\ \A relayer \in Relayers : IssueReceipt(m, s, relayer) => TypeOK'
         /\ \A c \in Customers, relayer \in Relayers :
              ClaimReceipt(m, s, c, relayer) => TypeOK'
         /\ ReclaimExpiredReceipt(m, s) => TypeOK'
<1> USE DEF cardNftVars, voucherVars
<1>0. now \in Nat BY DEF TypeOK
<1>1. ASSUME NEW relayer \in Relayers, IssueReceipt(m, s, relayer) PROVE TypeOK'
  <2> DEFINE b == [HourlyWindow(shop[m]) EXCEPT !.receipts_this_window = @ + 1]
             r == [expires_at |-> now + HourlyWindow(shop[m]).receipt_ttl_seconds,
                   rent_payer |-> relayer]
  <2>1. shop[m] \in Business BY <1>1, AccountType DEF IssueReceipt
  <2>2. b \in Business BY <1>0, <2>1, HourlyWindowType
  <2>3. HourlyWindow(shop[m]).receipt_ttl_seconds \in Nat
    BY <1>0, <2>1, HourlyWindowType DEF Business
  <2>4. r \in Receipt BY <1>0, <2>3 DEF Receipt
  <2>5. shop' = [shop EXCEPT ![m] = b] /\ receipt' = [receipt EXCEPT ![m][s] = r]
    BY <1>1 DEF IssueReceipt
  <2> HIDE DEF b, r
  <2>6. receipt' \in [Merchants -> [Secrets -> Receipt \cup {NoAccount}]]
    BY <2>4, <2>5 DEF TypeOK
  <2>7. shop' \in [Merchants -> Business \cup {NoAccount}] BY <2>2, <2>5 DEF TypeOK
  <2> QED BY <1>1, <2>6, <2>7 DEF IssueReceipt, TypeOK
<1>2. ASSUME NEW c \in Customers, NEW relayer \in Relayers, ClaimReceipt(m, s, c, relayer)
      PROVE  TypeOK'
  <2> DEFINE k == DailyWindow(CardAtCounter(m, c, relayer))
             b == CountStamp(shop[m], card[m][c] = NoAccount)
  <2>1. shop[m] \in Business BY <1>2, AccountType DEF ClaimReceipt
  <2>2. CardAtCounter(m, c, relayer) \in LoyaltyCard
    BY <2>1, AccountType, OpenedCardType DEF CardAtCounter
  <2>3. k \in LoyaltyCard BY <1>0, <2>2, DailyWindowType
  <2>4. Stamped(k) \in LoyaltyCard BY <1>0, <1>2, <2>3, StampedType DEF ClaimReceipt, RoomForStamp
  <2>5. b \in Business BY <2>1, CountStampType
  <2>6. /\ shop' = [shop EXCEPT ![m] = b]
        /\ card' = [card EXCEPT ![m][c] = Stamped(k)]
        /\ receipt' = [receipt EXCEPT ![m][s] = NoAccount]
    BY <1>2 DEF ClaimReceipt
  <2> HIDE DEF k, b
  <2> QED BY <1>2, <2>4, <2>5, <2>6 DEF ClaimReceipt, TypeOK
<1>3. ASSUME ReclaimExpiredReceipt(m, s) PROVE TypeOK'
  BY <1>3 DEF ReclaimExpiredReceipt, TypeOK
<1> QED BY <1>1, <1>2, <1>3

LEMMA CardType ==
  ASSUME TypeOK, NEW m \in Merchants, NEW c \in Customers
  PROVE  /\ \A to \in Customers, amount \in 1..U8Max :
              TransferStamps(m, c, to, amount) => TypeOK'
         /\ MintCardNft(m, c) => TypeOK'
         /\ RetireIdleCardNft(m, c) => TypeOK'
         /\ CloseDeadCard(m, c) => TypeOK'
<1> USE DEF cardNftVars, voucherVars
<1>1. ASSUME NEW to \in Customers, NEW amount \in 1..U8Max,
             TransferStamps(m, c, to, amount)
      PROVE  TypeOK'
  <2> DEFINE sender == Passed(card[m][c], amount)
             receiver == Received(card[m][to], amount)
  <2>1. card[m][c] \in LoyaltyCard /\ card[m][to] \in LoyaltyCard
    BY <1>1, AccountType DEF TransferStamps
  <2>2. sender \in LoyaltyCard BY <1>1, <2>1, PassedType DEF TransferStamps
  <2>3. receiver \in LoyaltyCard BY <1>1, <2>1, ReceivedType DEF TransferStamps
  <2>4. card' = [card EXCEPT ![m] = [card[m] EXCEPT ![c] = sender, ![to] = receiver]]
    BY <1>1, <2>1 DEF TransferStamps, TypeOK
  <2> HIDE DEF sender, receiver
  <2>5. card' \in [Merchants -> [Customers -> LoyaltyCard \cup {NoAccount}]]
    BY <2>2, <2>3, <2>4 DEF TypeOK
  <2> QED BY <1>1, <2>5 DEF TransferStamps, TypeOK
<1>2. ASSUME MintCardNft(m, c) PROVE TypeOK'
  <2>1. card[m][c] \in LoyaltyCard BY <1>2, AccountType DEF MintCardNft
  <2>2. CardNftId(m, c) \in Merchants \X Customers \X Nat
    BY <2>1 DEF CardNftId, LoyaltyCard
  <2> QED BY <1>2, <2>2 DEF MintCardNft, TypeOK
<1>3. ASSUME RetireIdleCardNft(m, c) PROVE TypeOK'
  <2> DEFINE k == [card[m][c] EXCEPT !.nft_cycle = @ + 1]
  <2>1. card[m][c] \in LoyaltyCard BY <1>3, AccountType DEF RetireIdleCardNft
  <2>2. card[m][c].nft_cycle + 1 \in Nat BY <2>1 DEF LoyaltyCard
  <2>3. k \in LoyaltyCard BY <2>1, <2>2, CardField
  <2>4. card' = [card EXCEPT ![m][c] = k] BY <1>3 DEF RetireIdleCardNft
  <2> HIDE DEF k
  <2>5. card' \in [Merchants -> [Customers -> LoyaltyCard \cup {NoAccount}]]
    BY <2>3, <2>4 DEF TypeOK
  <2> QED BY <1>3, <2>5 DEF RetireIdleCardNft, BurnAndCloseCardNft, TypeOK
<1>4. ASSUME CloseDeadCard(m, c) PROVE TypeOK'
  <2> DEFINE b == CountClosedCard(shop[m])
  <2>1. shop[m] \in Business BY <1>4, AccountType DEF CloseDeadCard
  <2>2. b \in Business BY <2>1, CountersType
  <2>3. shop' = [shop EXCEPT ![m] = b] BY <1>4 DEF CloseDeadCard
  <2> HIDE DEF b
  <2> QED BY <1>4, <2>2, <2>3 DEF CloseDeadCard, TypeOK
<1> QED BY <1>1, <1>2, <1>3, <1>4

LEMMA MintVoucherType ==
  ASSUME TypeOK, NEW m \in Merchants, NEW c \in Customers, NEW relayer \in Relayers,
         MintVoucher(m, c, relayer)
  PROVE  TypeOK'
<1> USE DEF voucherVars
<1> DEFINE i == shop[m].total_vouchers_issued
           burned == CardNftId(m, c) \in cardMint
           k == CashedIn(card[m][c], shop[m], burned)
           b == CountMinted(shop[m])
           v == [owner |-> c, rent_payer |-> relayer,
                 expires_at |-> now + VoucherValidSeconds]
           t == [amount |-> 1, state |-> "Initialized", closer |-> "voucher"]
<1>1. shop[m] \in Business /\ card[m][c] \in LoyaltyCard
  BY AccountType DEF MintVoucher
<1>2. i \in VoucherIds BY DEF MintVoucher
<1>3. card[m][c].stamps >= card[m][c].stamps_required_snapshot BY DEF MintVoucher
<1>4. burned \in BOOLEAN OBVIOUS
<1>5. /\ card' = [card EXCEPT ![m][c] = k]
      /\ shop' = [shop EXCEPT ![m] = b]
      /\ voucher' = [voucher EXCEPT ![m][i] = v]
      /\ voucherMint' = voucherMint \cup {<<m, i>>}
      /\ voucherToken' = [voucherToken EXCEPT ![m][i][c] = t]
      /\ now' = now /\ receipt' = receipt
  BY DEF MintVoucher
<1>6. cardMint' \subseteq cardMint /\ cardToken' \subseteq cardToken
      /\ cardHeld' \subseteq cardHeld
  BY DEF MintVoucher, BurnAndCloseCardNft, cardNftVars
<1> HIDE DEF burned
<1>7. k \in LoyaltyCard BY <1>1, <1>3, <1>4, CashedInType
<1>8. b \in Business BY <1>1, CountersType
<1>9. v \in Voucher BY LimitsAssumption DEF Voucher, TypeOK
<1>10. t \in TokenAccount BY DEF TokenAccount, Closers
<1> HIDE DEF i, k, b, v, t
<1>11. shop' \in [Merchants -> Business \cup {NoAccount}] BY <1>5, <1>8 DEF TypeOK
<1>12. card' \in [Merchants -> [Customers -> LoyaltyCard \cup {NoAccount}]]
  BY <1>5, <1>7 DEF TypeOK
<1>13. voucher' \in [Merchants -> [VoucherIds -> Voucher \cup {NoAccount}]]
  BY <1>2, <1>5, <1>9 DEF TypeOK
<1>14. voucherToken' \in
         [Merchants -> [VoucherIds -> [Customers -> TokenAccount \cup {NoAccount}]]]
  BY <1>2, <1>5, <1>10 DEF TypeOK
<1>15. voucherMint' \subseteq Merchants \X VoucherIds BY <1>2, <1>5 DEF TypeOK
<1> QED BY <1>5, <1>6, <1>11, <1>12, <1>13, <1>14, <1>15 DEF TypeOK

VoucherTokens ==
  [Merchants -> [VoucherIds -> [Customers -> TokenAccount \cup {NoAccount}]]]

\* Writing one token account of a voucher, or two, keeps them token accounts.
LEMMA TokenWrite ==
  ASSUME TypeOK, NEW m \in Merchants, NEW i \in VoucherIds, NEW w \in Customers,
         NEW x \in TokenAccount \cup {NoAccount}
  PROVE  [voucherToken EXCEPT ![m][i][w] = x] \in VoucherTokens
BY DEF TypeOK, VoucherTokens

LEMMA TokenMove ==
  ASSUME TypeOK, NEW m \in Merchants, NEW i \in VoucherIds,
         NEW w \in Customers, NEW to \in Customers,
         NEW x \in TokenAccount \cup {NoAccount}, NEW y \in TokenAccount
  PROVE  [voucherToken EXCEPT ![m][i][w] = x, ![m][i][to] = y] \in VoucherTokens
<1> DEFINE one == [voucherToken EXCEPT ![m][i][w] = x]
<1>1. one \in VoucherTokens BY TokenWrite
<1>2. [voucherToken EXCEPT ![m][i][w] = x, ![m][i][to] = y] = [one EXCEPT ![m][i][to] = y]
  OBVIOUS
<1> HIDE DEF one
<1>3. [one EXCEPT ![m][i][to] = y] \in VoucherTokens BY <1>1 DEF VoucherTokens
<1> QED BY <1>2, <1>3 DEF one

\* The steps that leave voucher records and mints alone.
LEMMA TokenStepType ==
  ASSUME TypeOK, NEW m \in Merchants, NEW i \in VoucherIds, NEW w \in Customers
  PROVE  /\ PresentVoucher(m, i, w) => TypeOK'
         /\ CancelPresentation(m, i, w) => TypeOK'
         /\ \A to \in Customers : WalletMovesVoucher(m, i, w, to) => TypeOK'
         /\ WalletBurnsVoucher(m, i, w) => TypeOK'
         /\ WalletOpensToken(m, i, w) => TypeOK'
         /\ WalletClosesToken(m, i, w) => TypeOK'
         /\ WalletGrantsClose(m, i, w) => TypeOK'
<1> USE DEF cardNftVars
<1> DEFINE t == voucherToken[m][i][w]
<1>0. t # NoAccount => t \in TokenAccount BY AccountType
<1>7. ASSUME voucherToken' \in VoucherTokens,
             UNCHANGED <<now, shop, receipt, card, cardNftVars, voucher, voucherMint>>
      PROVE  TypeOK'
  BY <1>7 DEF VoucherTokens, TypeOK
<1>1. ASSUME PresentVoucher(m, i, w) PROVE TypeOK'
  <2>1. Presented(t) \in TokenAccount
    BY <1>0, <1>1, TokenType DEF PresentVoucher, Movable, Holds
  <2>2. voucherToken' = [voucherToken EXCEPT ![m][i][w] = Presented(t)]
    BY <1>1 DEF PresentVoucher
  <2>9. voucherToken' \in VoucherTokens BY <1>1, <2>1, <2>2, TokenWrite
  <2> QED BY <1>7, <2>9, <1>1 DEF PresentVoucher
<1>2. ASSUME CancelPresentation(m, i, w) PROVE TypeOK'
  <2>1. Thawed(t) \in TokenAccount
    BY <1>0, <1>2, TokenType DEF CancelPresentation, Holds
  <2>2. voucherToken' = [voucherToken EXCEPT ![m][i][w] = Thawed(t)]
    BY <1>2 DEF CancelPresentation
  <2>9. voucherToken' \in VoucherTokens BY <1>2, <2>1, <2>2, TokenWrite
  <2> QED BY <1>7, <2>9, <1>2 DEF CancelPresentation
<1>3. ASSUME NEW to \in Customers, WalletMovesVoucher(m, i, w, to) PROVE TypeOK'
  <2> DEFINE x == Debited(t)
             y == Credited(voucherToken[m][i][to])
  <2>1. x \in TokenAccount
    BY <1>0, <1>3, TokenType DEF WalletMovesVoucher, Movable, Holds
  <2>2. y \in TokenAccount BY AccountType, CreditedType
  <2>3. voucherToken' = [voucherToken EXCEPT ![m][i][w] = x, ![m][i][to] = y]
    BY <1>3 DEF WalletMovesVoucher, TypeOK
  <2> HIDE DEF x, y
  <2>9. voucherToken' \in VoucherTokens BY <2>1, <2>2, <2>3, TokenMove
  <2> QED BY <1>7, <2>9, <1>3 DEF WalletMovesVoucher
<1>4. ASSUME WalletBurnsVoucher(m, i, w) PROVE TypeOK'
  <2>1. Debited(t) \in TokenAccount
    BY <1>0, <1>4, TokenType DEF WalletBurnsVoucher, Movable, Holds
  <2>2. voucherToken' = [voucherToken EXCEPT ![m][i][w] = Debited(t)]
    BY <1>4 DEF WalletBurnsVoucher
  <2>9. voucherToken' \in VoucherTokens BY <1>4, <2>1, <2>2, TokenWrite
  <2> QED BY <1>7, <2>9, <1>4 DEF WalletBurnsVoucher
<1>5. ASSUME WalletClosesToken(m, i, w) PROVE TypeOK'
  <2>1. voucherToken' = [voucherToken EXCEPT ![m][i][w] = NoAccount]
    BY <1>5 DEF WalletClosesToken
  <2>9. voucherToken' \in VoucherTokens BY <1>0, <1>5, <2>1, TokenWrite
  <2> QED BY <1>7, <2>9, <1>5 DEF WalletClosesToken
<1>6. ASSUME WalletGrantsClose(m, i, w) PROVE TypeOK'
  <2> DEFINE x == [t EXCEPT !.closer = "other"]
  <2>1. x \in TokenAccount BY <1>0, <1>6, TokenType DEF WalletGrantsClose
  <2>2. voucherToken' = [voucherToken EXCEPT ![m][i][w] = x]
    BY <1>6 DEF WalletGrantsClose
  <2> HIDE DEF x
  <2>9. voucherToken' \in VoucherTokens BY <1>6, <2>1, <2>2, TokenWrite
  <2> QED BY <1>7, <2>9, <1>6 DEF WalletGrantsClose
<1>8. ASSUME WalletOpensToken(m, i, w) PROVE TypeOK'
  <2>1. EmptyToken \in TokenAccount BY DEF EmptyToken, TokenAccount, Closers
  <2>2. voucherToken' = [voucherToken EXCEPT ![m][i][w] = EmptyToken]
    BY <1>8 DEF WalletOpensToken
  <2>9. voucherToken' \in VoucherTokens BY <2>1, <2>2, TokenWrite
  <2> QED BY <1>7, <2>9, <1>8 DEF WalletOpensToken
<1> QED BY <1>1, <1>2, <1>3, <1>4, <1>5, <1>6, <1>8

\* The steps that hand a voucher over or end it.
LEMMA VoucherStepType ==
  ASSUME TypeOK, NEW m \in Merchants, NEW i \in VoucherIds, NEW w \in Customers
  PROVE  /\ \A to \in Customers : TransferVoucher(m, i, w, to) => TypeOK'
         /\ RedeemVoucher(m, i, w) => TypeOK'
         /\ CloseExpiredVoucher(m, i, w) => TypeOK'
<1> USE DEF cardNftVars
<1> DEFINE t == voucherToken[m][i][w]
<1>0. t # NoAccount => t \in TokenAccount BY AccountType
<1>1. ASSUME NEW to \in Customers, TransferVoucher(m, i, w, to) PROVE TypeOK'
  <2> DEFINE x == ClosedBy(t, {"owner", "voucher"})
             y == Credited(voucherToken[m][i][to])
             v == [voucher[m][i] EXCEPT !.owner = to]
  <2>1. x \in TokenAccount \cup {NoAccount}
    BY <1>0, <1>1, ClosedByType DEF TransferVoucher, Giftable, Movable, Holds
  <2>2. y \in TokenAccount BY AccountType, CreditedType
  <2>3. voucher[m][i] \in Voucher
    BY <1>1, AccountType DEF TransferVoucher, Giftable, VoucherLive
  <2>4. v \in Voucher BY <2>3 DEF Voucher
  <2>5. voucherToken' = [voucherToken EXCEPT ![m][i][w] = x, ![m][i][to] = y]
    BY <1>1 DEF TransferVoucher, TypeOK
  <2>6. voucher' = [voucher EXCEPT ![m][i] = v] BY <1>1 DEF TransferVoucher
  <2> HIDE DEF x, y, v
  <2>7. voucherToken' \in VoucherTokens BY <2>1, <2>2, <2>5, TokenMove
  <2>8. voucher' \in [Merchants -> [VoucherIds -> Voucher \cup {NoAccount}]]
    BY <2>4, <2>6 DEF TypeOK
  <2> QED BY <1>1, <2>7, <2>8 DEF TransferVoucher, VoucherTokens, TypeOK
<1>2. ASSUME NEW b \in Business,
             voucherToken' \in VoucherTokens,
             shop' = [shop EXCEPT ![m] = b],
             EndVoucher(m, i),
             UNCHANGED <<now, receipt, card, cardNftVars>>
      PROVE  TypeOK'
  <2>1. voucher' \in [Merchants -> [VoucherIds -> Voucher \cup {NoAccount}]]
    BY <1>2 DEF EndVoucher, TypeOK
  <2>2. shop' \in [Merchants -> Business \cup {NoAccount}] BY <1>2 DEF TypeOK
  <2> QED BY <1>2, <2>1, <2>2 DEF EndVoucher, VoucherTokens, TypeOK
<1>3. ASSUME RedeemVoucher(m, i, w) PROVE TypeOK'
  <2>1. ClosedBy(t, {"voucher"}) \in TokenAccount \cup {NoAccount}
    BY <1>0, <1>3, ClosedByType DEF RedeemVoucher, Holds
  <2>2. voucherToken' \in VoucherTokens BY <1>3, <2>1, TokenWrite DEF RedeemVoucher
  <2>3. CountRedeemed(shop[m]) \in Business
    BY <1>3, AccountType, CountersType DEF RedeemVoucher
  <2> QED BY <1>2, <1>3, <2>2, <2>3 DEF RedeemVoucher
<1>4. ASSUME CloseExpiredVoucher(m, i, w) PROVE TypeOK'
  <2>1. t # NoAccount => ClosedBy(t, {"voucher"}) \in TokenAccount \cup {NoAccount}
    BY <1>0, ClosedByType
  <2>2. ASSUME UNCHANGED voucherToken PROVE voucherToken' \in VoucherTokens
    BY <2>2 DEF TypeOK, VoucherTokens
  <2>3. ASSUME t # NoAccount,
               voucherToken' = [voucherToken EXCEPT ![m][i][w] = ClosedBy(@, {"voucher"})]
        PROVE  voucherToken' \in VoucherTokens
    BY <2>1, <2>3, TokenWrite
  <2>4. voucherToken' \in VoucherTokens BY <1>4, <2>2, <2>3 DEF CloseExpiredVoucher
  <2>5. CountClosedVoucher(shop[m]) \in Business
    BY <1>4, AccountType, CountersType DEF CloseExpiredVoucher
  <2> QED BY <1>2, <1>4, <2>4, <2>5 DEF CloseExpiredVoucher
<1> QED BY <1>1, <1>3, <1>4

LEMMA WalletBurnsCardTokenType ==
  TypeOK /\ (\E id \in cardHeld : WalletBurnsCardToken(id)) => TypeOK'
BY DEF WalletBurnsCardToken, voucherVars, TypeOK

LEMMA NextType == TypeOK /\ [Next]_vars => TypeOK'
<1> SUFFICES ASSUME TypeOK, [Next]_vars PROVE TypeOK'
  OBVIOUS
<1>1. CASE ShopNext BY <1>1, ShopType DEF ShopNext
<1>2. CASE ReceiptNext BY <1>2, ReceiptType DEF ReceiptNext
<1>3. CASE CardNext BY <1>3, CardType, MintVoucherType DEF CardNext
<1>4. CASE VoucherNext BY <1>4, TokenStepType, VoucherStepType DEF VoucherNext
<1>5. CASE WalletNext
  BY <1>5, TokenStepType, WalletBurnsCardTokenType DEF WalletNext
<1>6. CASE Tick BY <1>6, TickType
<1>7. CASE UNCHANGED vars
  BY <1>7 DEF vars, cardNftVars, voucherVars, TypeOK
<1> QED BY <1>1, <1>2, <1>3, <1>4, <1>5, <1>6, <1>7 DEF Next

\* Every account always holds what state.rs declares for it: no counter goes
\* below zero and no card exceeds a u8 of stamps.
THEOREM TypeCorrect == Spec => []TypeOK
BY InitType, NextType, PTL DEF Spec
-----------------------------------------------------------------------------
(* The counters close_business decides by.                                  *)

\* What the argument says of one shop: its counters are exact while it exists,
\* and nothing is left of it once it is gone.
ShopSettled(m) ==
  IF shop[m] = NoAccount
  THEN OpenCards(m) = {} /\ LiveVouchers(m) = {}
  ELSE /\ shop[m].open_cards = Cardinality(OpenCards(m))
       /\ shop[m].open_vouchers = Cardinality(LiveVouchers(m))

\* Stronger than either property alone: a new shop's zero counters are exact
\* only because an earlier shop at the address left nothing behind, and a shop
\* leaves nothing behind only because its counters were exact.
Settled == TypeOK /\ \A m \in Merchants : ShopSettled(m)

-----------------------------------------------------------------------------
LEMMA SettledMeans == Settled <=> TypeOK /\ CountersExact /\ NoOrphans
BY DEF Settled, ShopSettled, CountersExact, NoOrphans

LEMMA InitSettled == Init => Settled
<1> SUFFICES ASSUME Init PROVE Settled
  OBVIOUS
<1>1. \A m \in Merchants : ShopSettled(m)
  BY DEF Init, ShopSettled, OpenCards, LiveVouchers
<1> QED BY <1>1, InitType DEF Settled

\* Customers and voucher ids are finite, so what is counted is.
LEMMA CountedFinite ==
  \A m : IsFiniteSet(OpenCards(m)) /\ IsFiniteSet(LiveVouchers(m))
<1> TAKE m
<1>1. IsFiniteSet(VoucherIds) BY WalletsAssumption, FS_Interval DEF VoucherIds
<1>2. OpenCards(m) \subseteq Customers BY DEF OpenCards
<1>3. LiveVouchers(m) \subseteq VoucherIds BY DEF LiveVouchers
<1> QED BY <1>1, <1>2, <1>3, WalletsAssumption, FS_Subset

LEMMA RemoveOne ==
  ASSUME NEW S, IsFiniteSet(S), NEW x \in S
  PROVE  Cardinality(S) > 0 /\ Cardinality(S \ {x}) = Cardinality(S) - 1
<1>1. Cardinality(S) \in Nat BY FS_CardinalityType
<1>2. Cardinality(S) # 0 BY FS_EmptySet
<1>3. Cardinality(S \ {x}) = Cardinality(S) - 1 BY FS_RemoveElement
<1> QED BY <1>1, <1>2, <1>3

\* What a handler writes to the two counters.
LEMMA CounterWrites ==
  ASSUME NEW b \in Business
  PROVE  /\ HourlyWindow(b).open_cards = b.open_cards
         /\ HourlyWindow(b).open_vouchers = b.open_vouchers
         /\ \A opening \in BOOLEAN :
              /\ CountStamp(b, opening).open_cards =
                   IF opening THEN b.open_cards + 1 ELSE b.open_cards
              /\ CountStamp(b, opening).open_vouchers = b.open_vouchers
         /\ CountMinted(b).open_cards = b.open_cards
         /\ CountMinted(b).open_vouchers = b.open_vouchers + 1
         /\ CountClosedCard(b).open_vouchers = b.open_vouchers
         /\ b.open_cards > 0 => CountClosedCard(b).open_cards = b.open_cards - 1
         /\ CountClosedVoucher(b).open_cards = b.open_cards
         /\ b.open_vouchers > 0 => CountClosedVoucher(b).open_vouchers = b.open_vouchers - 1
         /\ CountRedeemed(b).open_cards = b.open_cards
         /\ CountRedeemed(b).open_vouchers = CountClosedVoucher(b).open_vouchers
<1>1. /\ HourlyWindow(b).open_cards = b.open_cards
      /\ HourlyWindow(b).open_vouchers = b.open_vouchers
  BY DEF HourlyWindow, Business
<1>2. ASSUME NEW opening \in BOOLEAN
      PROVE  /\ CountStamp(b, opening).open_cards =
                  IF opening THEN b.open_cards + 1 ELSE b.open_cards
             /\ CountStamp(b, opening).open_vouchers = b.open_vouchers
  BY DEF CountStamp, Business
<1>3. /\ CountMinted(b).open_cards = b.open_cards
      /\ CountMinted(b).open_vouchers = b.open_vouchers + 1
  BY DEF CountMinted, Business
<1>4. /\ CountClosedCard(b).open_vouchers = b.open_vouchers
      /\ b.open_cards > 0 => CountClosedCard(b).open_cards = b.open_cards - 1
  BY DEF CountClosedCard, Business
<1>5. /\ CountClosedVoucher(b).open_cards = b.open_cards
      /\ b.open_vouchers > 0 => CountClosedVoucher(b).open_vouchers = b.open_vouchers - 1
  BY DEF CountClosedVoucher, Business
<1>6. CountClosedVoucher(b) \in Business BY CountersType
<1>7. /\ CountRedeemed(b).open_cards = b.open_cards
      /\ CountRedeemed(b).open_vouchers = CountClosedVoucher(b).open_vouchers
  BY <1>5, <1>6 DEF CountRedeemed, Business
<1> QED BY <1>1, <1>2, <1>3, <1>4, <1>5, <1>7

\* A step that leaves a shop's accounts alone leaves it settled; so does one
\* that writes them but moves neither a counter nor what it counts.
LEMMA SettledQuietly ==
  ASSUME NEW m \in Merchants, ShopSettled(m),
         OpenCards(m)' = OpenCards(m), LiveVouchers(m)' = LiveVouchers(m),
         shop'[m] = NoAccount <=> shop[m] = NoAccount,
         shop[m] # NoAccount => /\ shop'[m].open_cards = shop[m].open_cards
                                /\ shop'[m].open_vouchers = shop[m].open_vouchers
  PROVE  ShopSettled(m)'
BY DEF ShopSettled

\* A step at one shop concerns no other.
LEMMA OneShop ==
  ASSUME Settled, TypeOK', NEW m \in Merchants, ShopSettled(m)',
         \A x \in Merchants \ {m} :
           shop'[x] = shop[x] /\ card'[x] = card[x] /\ voucher'[x] = voucher[x]
  PROVE  Settled'
<1>1. ASSUME NEW x \in Merchants, x # m PROVE ShopSettled(x)'
  <2>1. shop'[x] = shop[x] /\ card'[x] = card[x] /\ voucher'[x] = voucher[x]
    BY <1>1
  <2>2. OpenCards(x)' = OpenCards(x) /\ LiveVouchers(x)' = LiveVouchers(x)
    BY <2>1 DEF OpenCards, LiveVouchers
  <2> QED BY <2>1, <2>2, SettledQuietly DEF Settled
<1> QED BY <1>1 DEF Settled
-----------------------------------------------------------------------------
(* One lemma per component: each of its steps leaves every shop settled.    *)

LEMMA ShopSettles ==
  ASSUME Settled, TypeOK', NEW m \in Merchants
  PROVE  /\ \A stamps \in StampGoals, ttl \in ReceiptTtls, lock \in LockDates :
              /\ \A relayer \in Relayers :
                   RegisterBusiness(m, stamps, ttl, lock, relayer) => Settled'
              /\ UpdateBusinessConfig(m, stamps, ttl, lock) => Settled'
         /\ CloseBusiness(m) => Settled'
<1> USE DEF voucherVars
<1>0. TypeOK /\ ShopSettled(m) BY DEF Settled
<1>1. ASSUME NEW stamps \in StampGoals, NEW ttl \in ReceiptTtls, NEW lock \in LockDates,
             NEW relayer \in Relayers,
             RegisterBusiness(m, stamps, ttl, lock, relayer)
      PROVE  Settled'
  <2> DEFINE b == NewBusiness(stamps, ttl, lock, relayer)
  <2>1. b.open_cards = 0 /\ b.open_vouchers = 0 BY DEF NewBusiness
  <2>2. b \in Business
    BY <1>1, SettingsFit, NewBusinessType, ArgumentsAssumption DEF RegisterBusiness
  <2>3. shop' = [shop EXCEPT ![m] = b] /\ card' = card /\ voucher' = voucher
    BY <1>1 DEF RegisterBusiness
  <2>4. OpenCards(m) = {} /\ LiveVouchers(m) = {}
    BY <1>0, <1>1 DEF RegisterBusiness, ShopSettled
  <2>5. OpenCards(m)' = {} /\ LiveVouchers(m)' = {}
    BY <2>3, <2>4 DEF OpenCards, LiveVouchers
  <2> HIDE DEF b
  <2>6. shop'[m] = b BY <1>0, <2>3 DEF TypeOK
  <2>7. ShopSettled(m)'
    BY <2>1, <2>2, <2>5, <2>6, FS_EmptySet, NoAccountAssumption DEF ShopSettled
  <2> QED BY <1>0, <2>3, <2>7, OneShop DEF TypeOK
<1>2. ASSUME NEW stamps \in StampGoals, NEW ttl \in ReceiptTtls, NEW lock \in LockDates,
             UpdateBusinessConfig(m, stamps, ttl, lock)
      PROVE  Settled'
  <2>1. shop[m] # NoAccount /\ shop[m] \in Business
    BY <1>0, <1>2, AccountType DEF UpdateBusinessConfig, UpdateAllowed
  <2>2. /\ shop'[m].open_cards = shop[m].open_cards
        /\ shop'[m].open_vouchers = shop[m].open_vouchers
    BY <1>0, <1>2, <2>1 DEF UpdateBusinessConfig, TypeOK, Business
  <2>3. shop'[m] \in Business
    <3>1. stamps \in 0..U8Max
      BY <1>2, SettingsFit DEF UpdateBusinessConfig, UpdateAllowed
    <3> DEFINE b == [shop[m] EXCEPT !.terms_locked_until = lock,
                                    !.stamps_required = stamps,
                                    !.receipt_ttl_seconds = ttl]
    <3>2. b \in Business BY <2>1, <3>1, ArgumentsAssumption, NewTermsType
    <3>3. shop' = [shop EXCEPT ![m] = b] BY <1>2 DEF UpdateBusinessConfig
    <3> HIDE DEF b
    <3> QED BY <1>0, <3>2, <3>3 DEF TypeOK
  <2>4. card' = card /\ voucher' = voucher
        /\ \A x \in Merchants \ {m} : shop'[x] = shop[x]
    BY <1>0, <1>2 DEF UpdateBusinessConfig, TypeOK
  <2>5. ShopSettled(m)'
    BY <1>0, <2>1, <2>2, <2>3, <2>4, SettledQuietly, NoAccountAssumption
    DEF OpenCards, LiveVouchers
  <2> QED BY <2>4, <2>5, OneShop
<1>3. ASSUME CloseBusiness(m) PROVE Settled'
  <2>1. shop' = [shop EXCEPT ![m] = NoAccount] /\ card' = card /\ voucher' = voucher
    BY <1>3 DEF CloseBusiness
  <2>2. Cardinality(OpenCards(m)) = 0 /\ Cardinality(LiveVouchers(m)) = 0
    BY <1>0, <1>3 DEF CloseBusiness, MayClose, ShopSettled
  <2>3. OpenCards(m) = {} /\ LiveVouchers(m) = {}
    BY <2>2, CountedFinite, FS_EmptySet
  <2>4. shop'[m] = NoAccount BY <1>0, <2>1 DEF TypeOK
  <2>5. ShopSettled(m)' BY <2>1, <2>3, <2>4 DEF ShopSettled, OpenCards, LiveVouchers
  <2> QED BY <1>0, <2>1, <2>5, OneShop DEF TypeOK
<1> QED BY <1>1, <1>2, <1>3

LEMMA ReceiptSettles ==
  ASSUME Settled, TypeOK', NEW m \in Merchants, NEW s \in Secrets
  PROVE  /\ \A relayer \in Relayers : IssueReceipt(m, s, relayer) => Settled'
         /\ \A c \in Customers, relayer \in Relayers :
              ClaimReceipt(m, s, c, relayer) => Settled'
         /\ ReclaimExpiredReceipt(m, s) => Settled'
<1> USE DEF voucherVars
<1>0. TypeOK /\ ShopSettled(m) /\ now \in Nat BY DEF Settled, TypeOK
<1>1. ASSUME NEW relayer \in Relayers, IssueReceipt(m, s, relayer) PROVE Settled'
  <2> DEFINE h == HourlyWindow(shop[m])
             b == [h EXCEPT !.receipts_this_window = @ + 1]
  <2>1. shop[m] # NoAccount /\ shop[m] \in Business
    BY <1>0, <1>1, AccountType DEF IssueReceipt
  <2>2. h \in Business /\ b \in Business BY <1>0, <2>1, HourlyWindowType
  <2>3. h.open_cards = shop[m].open_cards /\ h.open_vouchers = shop[m].open_vouchers
    BY <2>1, CounterWrites
  <2>4. shop' = [shop EXCEPT ![m] = b] /\ card' = card /\ voucher' = voucher
    BY <1>1 DEF IssueReceipt
  <2> HIDE DEF h
  <2>5. b.open_cards = shop[m].open_cards /\ b.open_vouchers = shop[m].open_vouchers
    BY <2>2, <2>3 DEF Business
  <2> HIDE DEF b
  <2>6. shop'[m] = b BY <1>0, <2>4 DEF TypeOK
  <2>7. ShopSettled(m)'
    BY <1>0, <2>1, <2>2, <2>4, <2>5, <2>6, SettledQuietly, NoAccountAssumption
    DEF OpenCards, LiveVouchers
  <2> QED BY <1>0, <2>4, <2>7, OneShop DEF TypeOK
<1>2. ASSUME NEW c \in Customers, NEW relayer \in Relayers, ClaimReceipt(m, s, c, relayer)
      PROVE  Settled'
  <2> DEFINE opening == card[m][c] = NoAccount
             b == CountStamp(shop[m], opening)
             k == Stamped(DailyWindow(CardAtCounter(m, c, relayer)))
  <2>1. shop[m] # NoAccount /\ shop[m] \in Business
    BY <1>0, <1>2, AccountType DEF ClaimReceipt
  <2>2. /\ shop' = [shop EXCEPT ![m] = b]
        /\ card' = [card EXCEPT ![m][c] = k]
        /\ voucher' = voucher
    BY <1>2 DEF ClaimReceipt
  <2>3. b \in Business BY <2>1, CountStampType
  <2>4. b.open_vouchers = shop[m].open_vouchers BY <2>1, CounterWrites
  <2>5. b.open_cards = IF opening THEN shop[m].open_cards + 1 ELSE shop[m].open_cards
    BY <2>1, CounterWrites
  <2>6. k \in LoyaltyCard
    <3>1. CardAtCounter(m, c, relayer) \in LoyaltyCard
      BY <1>0, <2>1, AccountType, OpenedCardType DEF CardAtCounter
    <3>2. DailyWindow(CardAtCounter(m, c, relayer)) \in LoyaltyCard
      BY <1>0, <3>1, DailyWindowType
    <3> QED BY <1>0, <1>2, <3>2, StampedType DEF ClaimReceipt, RoomForStamp
  <2> HIDE DEF b, k
  <2>7. shop'[m] = b BY <1>0, <2>2 DEF TypeOK
  <2>8. OpenCards(m)' = OpenCards(m) \cup {c}
    BY <1>0, <2>2, <2>6, NoAccountAssumption DEF OpenCards, TypeOK
  <2>9. LiveVouchers(m)' = LiveVouchers(m) BY <2>2 DEF LiveVouchers
  <2>10. opening <=> c \notin OpenCards(m) BY DEF OpenCards
  <2>11. Cardinality(OpenCards(m)') = b.open_cards
    BY <1>0, <2>1, <2>5, <2>8, <2>10, CountedFinite, FS_AddElement DEF ShopSettled
  <2>12. ShopSettled(m)'
    BY <1>0, <2>1, <2>3, <2>4, <2>7, <2>9, <2>11, NoAccountAssumption DEF ShopSettled
  <2> QED BY <1>0, <2>2, <2>12, OneShop DEF TypeOK
<1>3. ASSUME ReclaimExpiredReceipt(m, s) PROVE Settled'
  <2>1. shop' = shop /\ card' = card /\ voucher' = voucher
    BY <1>3 DEF ReclaimExpiredReceipt
  <2>2. ShopSettled(m)' BY <1>0, <2>1 DEF ShopSettled, OpenCards, LiveVouchers
  <2> QED BY <2>1, <2>2, OneShop
<1> QED BY <1>1, <1>2, <1>3

\* A step that leaves shops alone, and the accounts that exist in existence.
LEMMA SettledBookless ==
  ASSUME Settled, TypeOK', shop' = shop,
         \A m \in Merchants : OpenCards(m)' = OpenCards(m),
         \A m \in Merchants : LiveVouchers(m)' = LiveVouchers(m)
  PROVE  Settled'
<1>1. ASSUME NEW m \in Merchants PROVE ShopSettled(m)'
  BY <1>1, SettledQuietly DEF Settled
<1> QED BY <1>1 DEF Settled

LEMMA CardSettles ==
  ASSUME Settled, TypeOK', NEW m \in Merchants, NEW c \in Customers
  PROVE  /\ \A to \in Customers, amount \in 1..U8Max :
              TransferStamps(m, c, to, amount) => Settled'
         /\ MintCardNft(m, c) => Settled'
         /\ RetireIdleCardNft(m, c) => Settled'
         /\ CloseDeadCard(m, c) => Settled'
<1> USE DEF voucherVars
<1>0. TypeOK /\ ShopSettled(m) BY DEF Settled
<1>1. ASSUME NEW to \in Customers, NEW amount \in 1..U8Max,
             TransferStamps(m, c, to, amount)
      PROVE  Settled'
  <2> DEFINE sender == Passed(card[m][c], amount)
             receiver == Received(card[m][to], amount)
  <2>1. card[m][c] \in LoyaltyCard /\ card[m][to] \in LoyaltyCard
    BY <1>0, <1>1, AccountType DEF TransferStamps
  <2>2. sender \in LoyaltyCard /\ receiver \in LoyaltyCard
    BY <1>1, <2>1, PassedType, ReceivedType DEF TransferStamps
  <2>3. card' = [card EXCEPT ![m] = [card[m] EXCEPT ![c] = sender, ![to] = receiver]]
        /\ shop' = shop /\ voucher' = voucher
    BY <1>0, <1>1, <2>1 DEF TransferStamps, TypeOK
  <2> HIDE DEF sender, receiver
  <2>4. \A x \in Merchants, y \in Customers :
          card'[x][y] = NoAccount <=> card[x][y] = NoAccount
    BY <1>0, <2>1, <2>2, <2>3, NoAccountAssumption DEF TypeOK
  <2>5. \A x \in Merchants : OpenCards(x)' = OpenCards(x) BY <2>4 DEF OpenCards
  <2>6. \A x \in Merchants : LiveVouchers(x)' = LiveVouchers(x)
    BY <2>3 DEF LiveVouchers
  <2> QED BY <2>3, <2>5, <2>6, SettledBookless
<1>2. ASSUME MintCardNft(m, c) PROVE Settled'
  BY <1>2, SettledBookless DEF MintCardNft, OpenCards, LiveVouchers
<1>3. ASSUME RetireIdleCardNft(m, c) PROVE Settled'
  <2> DEFINE k == [card[m][c] EXCEPT !.nft_cycle = @ + 1]
  <2>1. card[m][c] \in LoyaltyCard BY <1>0, <1>3, AccountType DEF RetireIdleCardNft
  <2>2. card[m][c].nft_cycle + 1 \in Nat BY <2>1 DEF LoyaltyCard
  <2>3. k \in LoyaltyCard BY <2>1, <2>2, CardField
  <2>4. card' = [card EXCEPT ![m][c] = k] /\ shop' = shop /\ voucher' = voucher
    BY <1>3 DEF RetireIdleCardNft
  <2> HIDE DEF k
  <2>5. \A x \in Merchants, y \in Customers :
          card'[x][y] = NoAccount <=> card[x][y] = NoAccount
    BY <1>0, <2>1, <2>3, <2>4, NoAccountAssumption DEF TypeOK
  <2>6. \A x \in Merchants : OpenCards(x)' = OpenCards(x) BY <2>5 DEF OpenCards
  <2>7. \A x \in Merchants : LiveVouchers(x)' = LiveVouchers(x)
    BY <2>4 DEF LiveVouchers
  <2> QED BY <2>4, <2>6, <2>7, SettledBookless
<1>4. ASSUME CloseDeadCard(m, c) PROVE Settled'
  <2> DEFINE b == CountClosedCard(shop[m])
  <2>1. shop[m] # NoAccount /\ shop[m] \in Business
    BY <1>0, <1>4, AccountType DEF CloseDeadCard
  <2>2. /\ shop' = [shop EXCEPT ![m] = b]
        /\ card' = [card EXCEPT ![m][c] = NoAccount]
        /\ voucher' = voucher
        /\ c \in OpenCards(m)
    BY <1>4 DEF CloseDeadCard, OpenCards
  <2>3. b \in Business BY <2>1, CountersType
  <2>4. OpenCards(m)' = OpenCards(m) \ {c}
    BY <1>0, <2>2 DEF OpenCards, TypeOK
  <2>5. /\ Cardinality(OpenCards(m)') = Cardinality(OpenCards(m)) - 1
        /\ Cardinality(OpenCards(m)) > 0
    BY <2>2, <2>4, CountedFinite, RemoveOne
  <2>6. shop[m].open_cards = Cardinality(OpenCards(m)) BY <1>0, <2>1 DEF ShopSettled
  <2>7. b.open_cards = shop[m].open_cards - 1 /\ b.open_vouchers = shop[m].open_vouchers
    BY <2>1, <2>5, <2>6, CounterWrites
  <2> HIDE DEF b
  <2>8. shop'[m] = b /\ LiveVouchers(m)' = LiveVouchers(m)
    BY <1>0, <2>2 DEF LiveVouchers, TypeOK
  <2>9. ShopSettled(m)'
    BY <1>0, <2>1, <2>3, <2>5, <2>6, <2>7, <2>8, NoAccountAssumption DEF ShopSettled
  <2> QED BY <1>0, <2>2, <2>9, OneShop DEF TypeOK
<1> QED BY <1>1, <1>2, <1>3, <1>4

LEMMA MintVoucherSettles ==
  ASSUME Settled, TypeOK', NEW m \in Merchants, NEW c \in Customers,
         NEW relayer \in Relayers, MintVoucher(m, c, relayer)
  PROVE  Settled'
<1> DEFINE i == shop[m].total_vouchers_issued
           burned == CardNftId(m, c) \in cardMint
           k == CashedIn(card[m][c], shop[m], burned)
           b == CountMinted(shop[m])
           v == [owner |-> c, rent_payer |-> relayer,
                 expires_at |-> now + VoucherValidSeconds]
<1>0. TypeOK /\ ShopSettled(m) BY DEF Settled
<1>1. /\ shop[m] # NoAccount /\ shop[m] \in Business
      /\ card[m][c] \in LoyaltyCard
      /\ card[m][c].stamps >= card[m][c].stamps_required_snapshot
      /\ i \in VoucherIds
      /\ i \notin LiveVouchers(m)
  BY <1>0, AccountType DEF MintVoucher, AddressesFree, LiveVouchers
<1>2. /\ card' = [card EXCEPT ![m][c] = k]
      /\ shop' = [shop EXCEPT ![m] = b]
      /\ voucher' = [voucher EXCEPT ![m][i] = v]
  BY DEF MintVoucher
<1>3. burned \in BOOLEAN OBVIOUS
<1> HIDE DEF burned
<1>4. k \in LoyaltyCard BY <1>1, <1>3, CashedInType
<1>5. b \in Business BY <1>1, CountersType
<1>6. v \in Voucher BY <1>0, LimitsAssumption DEF Voucher, TypeOK
<1>7. b.open_cards = shop[m].open_cards /\ b.open_vouchers = shop[m].open_vouchers + 1
  BY <1>1, CounterWrites
<1> HIDE DEF i, k, b, v
<1>8. OpenCards(m)' = OpenCards(m)
  BY <1>0, <1>1, <1>2, <1>4, NoAccountAssumption DEF OpenCards, TypeOK
<1>9. LiveVouchers(m)' = LiveVouchers(m) \cup {i}
  BY <1>0, <1>1, <1>2, <1>6, NoAccountAssumption DEF LiveVouchers, TypeOK
<1>10. Cardinality(LiveVouchers(m)') = Cardinality(LiveVouchers(m)) + 1
  BY <1>1, <1>9, CountedFinite, FS_AddElement
<1>11. shop'[m] = b BY <1>0, <1>2 DEF TypeOK
<1>12. ShopSettled(m)'
  BY <1>0, <1>1, <1>5, <1>7, <1>8, <1>10, <1>11, NoAccountAssumption DEF ShopSettled
<1> QED BY <1>0, <1>2, <1>12, OneShop DEF TypeOK

LEMMA TokenStepSettles ==
  ASSUME Settled, TypeOK', NEW m \in Merchants, NEW i \in VoucherIds, NEW w \in Customers
  PROVE  /\ PresentVoucher(m, i, w) => Settled'
         /\ CancelPresentation(m, i, w) => Settled'
         /\ \A to \in Customers : WalletMovesVoucher(m, i, w, to) => Settled'
         /\ WalletBurnsVoucher(m, i, w) => Settled'
         /\ WalletOpensToken(m, i, w) => Settled'
         /\ WalletClosesToken(m, i, w) => Settled'
         /\ WalletGrantsClose(m, i, w) => Settled'
<1>1. UNCHANGED <<shop, card, voucher>> => Settled'
  BY SettledBookless DEF OpenCards, LiveVouchers
<1> QED
  BY <1>1 DEF PresentVoucher, CancelPresentation, WalletMovesVoucher, WalletBurnsVoucher,
              WalletOpensToken, WalletClosesToken, WalletGrantsClose

LEMMA VoucherSettles ==
  ASSUME Settled, TypeOK', NEW m \in Merchants, NEW i \in VoucherIds, NEW w \in Customers
  PROVE  /\ \A to \in Customers : TransferVoucher(m, i, w, to) => Settled'
         /\ RedeemVoucher(m, i, w) => Settled'
         /\ CloseExpiredVoucher(m, i, w) => Settled'
<1>0. TypeOK /\ ShopSettled(m) BY DEF Settled
<1>1. ASSUME NEW to \in Customers, TransferVoucher(m, i, w, to) PROVE Settled'
  <2> DEFINE v == [voucher[m][i] EXCEPT !.owner = to]
  <2>1. voucher[m][i] \in Voucher
    BY <1>0, <1>1, AccountType DEF TransferVoucher, Giftable, VoucherLive
  <2>2. v \in Voucher BY <2>1 DEF Voucher
  <2>3. voucher' = [voucher EXCEPT ![m][i] = v] /\ shop' = shop /\ card' = card
    BY <1>1 DEF TransferVoucher
  <2> HIDE DEF v
  <2>4. \A x \in Merchants, y \in VoucherIds :
          voucher'[x][y] = NoAccount <=> voucher[x][y] = NoAccount
    BY <1>0, <2>1, <2>2, <2>3, NoAccountAssumption DEF TypeOK
  <2>5. \A x \in Merchants : LiveVouchers(x)' = LiveVouchers(x)
    BY <2>4 DEF LiveVouchers
  <2>6. \A x \in Merchants : OpenCards(x)' = OpenCards(x) BY <2>3 DEF OpenCards
  <2> QED BY <2>3, <2>5, <2>6, SettledBookless
<1>2. ASSUME NEW b \in Business,
             shop[m] # NoAccount, VoucherLive(m, i), EndVoucher(m, i),
             card' = card,
             shop' = [shop EXCEPT ![m] = b],
             b.open_cards = shop[m].open_cards,
             shop[m].open_vouchers > 0 => b.open_vouchers = shop[m].open_vouchers - 1
      PROVE  Settled'
  <2>1. voucher' = [voucher EXCEPT ![m][i] = NoAccount] /\ i \in LiveVouchers(m)
    BY <1>2 DEF EndVoucher, VoucherLive, LiveVouchers
  <2>2. LiveVouchers(m)' = LiveVouchers(m) \ {i}
    BY <1>0, <2>1 DEF LiveVouchers, TypeOK
  <2>3. /\ Cardinality(LiveVouchers(m)') = Cardinality(LiveVouchers(m)) - 1
        /\ Cardinality(LiveVouchers(m)) > 0
    BY <2>1, <2>2, CountedFinite, RemoveOne
  <2>4. shop'[m] = b /\ OpenCards(m)' = OpenCards(m)
    BY <1>0, <1>2 DEF OpenCards, TypeOK
  <2>5. ShopSettled(m)'
    BY <1>0, <1>2, <2>3, <2>4, NoAccountAssumption DEF ShopSettled
  <2> QED BY <1>0, <1>2, <2>1, <2>5, OneShop DEF TypeOK
<1>3. ASSUME RedeemVoucher(m, i, w) PROVE Settled'
  <2> DEFINE b == CountRedeemed(shop[m])
  <2>1. shop[m] \in Business BY <1>0, <1>3, AccountType DEF RedeemVoucher
  <2>2. /\ b \in Business
        /\ b.open_cards = shop[m].open_cards
        /\ shop[m].open_vouchers > 0 => b.open_vouchers = shop[m].open_vouchers - 1
    BY <2>1, CountersType, CounterWrites
  <2>3. shop' = [shop EXCEPT ![m] = b] BY <1>3 DEF RedeemVoucher
  <2> HIDE DEF b
  <2> QED BY <1>2, <1>3, <2>2, <2>3 DEF RedeemVoucher
<1>4. ASSUME CloseExpiredVoucher(m, i, w) PROVE Settled'
  <2> DEFINE b == CountClosedVoucher(shop[m])
  <2>1. shop[m] \in Business BY <1>0, <1>4, AccountType DEF CloseExpiredVoucher
  <2>2. /\ b \in Business
        /\ b.open_cards = shop[m].open_cards
        /\ shop[m].open_vouchers > 0 => b.open_vouchers = shop[m].open_vouchers - 1
    BY <2>1, CountersType, CounterWrites
  <2>3. shop' = [shop EXCEPT ![m] = b] BY <1>4 DEF CloseExpiredVoucher
  <2> HIDE DEF b
  <2> QED BY <1>2, <1>4, <2>2, <2>3 DEF CloseExpiredVoucher
<1> QED BY <1>1, <1>3, <1>4

-----------------------------------------------------------------------------
LEMMA NextSettles == Settled /\ [Next]_vars => Settled'
<1> SUFFICES ASSUME Settled, [Next]_vars PROVE Settled'
  OBVIOUS
<1>1. TypeOK' BY NextType DEF Settled
<1>2. CASE ShopNext BY <1>1, <1>2, ShopSettles DEF ShopNext
<1>3. CASE ReceiptNext BY <1>1, <1>3, ReceiptSettles DEF ReceiptNext
<1>4. CASE CardNext BY <1>1, <1>4, CardSettles, MintVoucherSettles DEF CardNext
<1>5. CASE VoucherNext BY <1>1, <1>5, TokenStepSettles, VoucherSettles DEF VoucherNext
<1>6. ASSUME UNCHANGED <<shop, card, voucher>> PROVE Settled'
  BY <1>1, <1>6, SettledBookless DEF OpenCards, LiveVouchers
<1>7. CASE WalletNext
  BY <1>1, <1>6, <1>7, TokenStepSettles DEF WalletNext, WalletBurnsCardToken, voucherVars
<1>8. CASE Tick BY <1>6, <1>8 DEF Tick, voucherVars
<1>9. CASE UNCHANGED vars BY <1>6, <1>9 DEF vars, voucherVars
<1> QED BY <1>2, <1>3, <1>4, <1>5, <1>7, <1>8, <1>9 DEF Next

\* The figures close_business decides by are exact in every state the program
\* can reach: each is how many cards, or vouchers, are live at the shop.
THEOREM CountersAreExact == Spec => []CountersExact
<1>1. Settled => CountersExact BY SettledMeans
<1> QED BY <1>1, InitSettled, NextSettles, PTL DEF Spec

\* So a shop that is closed leaves nobody with a card or a voucher of a shop
\* that does not exist, however it was closed and whoever closed it.
THEOREM NobodyOrphaned == Spec => []NoOrphans
<1>1. Settled => NoOrphans BY SettledMeans
<1> QED BY <1>1, InitSettled, NextSettles, PTL DEF Spec
=============================================================================
