-------------------------- MODULE MigrationProofs --------------------------
(***************************************************************************)
(* The upgrade, for any old shop with any old cards and vouchers and any   *)
(* goals, zero included, trading and migrating in any order: cards         *)
(* remember their rewards and their rent payers.  And as long as nothing   *)
(* was left where an old shop's rent payer is read, rebuilt counters never *)
(* understate, and no card or voucher is orphaned.                         *)
(***************************************************************************)
EXTENDS VoucherProofs, CardProofs, SumProofs, Migrations

\* What the argument says of one shop: once it is gone nothing of it is left;
\* while it is there its totals cover what is open, and from its migration on
\* so do its counters.  Until then it has no rent payer that could sign, and
\* so it cannot close by counters that were never kept.
BooksSafe(m) ==
  IF shop[m] = NoAccount
  THEN OpenCards(m) = {} /\ LiveVouchers(m) = {} /\ shopLayout[m] = "current"
  ELSE /\ shop[m].total_cards >= Cardinality(OpenCards(m))
       /\ shop[m].total_redemptions + Cardinality(LiveVouchers(m))
            <= shop[m].total_vouchers_issued
       /\ IF shopLayout[m] = "current"
          THEN /\ shop[m].open_cards >= Cardinality(OpenCards(m))
               /\ shop[m].open_vouchers >= Cardinality(LiveVouchers(m))
          ELSE shop[m].rent_payer = Blank

\* A readable card counts its rewards but the free ones.  Of one nobody can read,
\* the stamps it has spent say how many there were, because its goal cannot have
\* moved; if the goal is zero they were all free.
CardSafe(m, c) ==
  IF card[m][c] = NoAccount
  THEN CardReadable(m, c) /\ earned[m][c] = 0 /\ free[m][c] = 0
  ELSE IF CardReadable(m, c)
  THEN card[m][c].rewards_earned + free[m][c] = earned[m][c]
  ELSE /\ card[m][c].lifetime_stamps - card[m][c].stamps
            = earned[m][c] * card[m][c].stamps_required_snapshot
       /\ free[m][c] = IF card[m][c].stamps_required_snapshot = 0
                       THEN earned[m][c] ELSE 0

\* The cards' part holds whatever an old shop's fields read as, the books' part
\* only of one whose rent payer reads as blank.
CardInv ==
  /\ MigrationTypeOK
  /\ \A m \in Merchants, c \in Customers : CardSafe(m, c)

BooksInv == Sound /\ \A m \in Merchants : BooksSafe(m)

LEMMA CardInvMeans == CardInv => MigrationTypeOK /\ RewardsRemembered
BY DEF CardInv, CardSafe, RewardsRemembered, OpenCards

LEMMA BooksInvMeans == BooksInv => CountersNeverUnderstate /\ NoOrphans
BY DEF BooksInv, BooksSafe, CountersNeverUnderstate, NoOrphans
-----------------------------------------------------------------------------
(* What today's instructions do to a shop's figures about cards, and to its *)
(* cards.                                                                   *)

SameCardFigures(b, bb) ==
  /\ bb.total_cards = b.total_cards
  /\ bb.open_cards = b.open_cards
  /\ bb.rent_payer = b.rent_payer

LEMMA CardFiguresWritten ==
  ASSUME NEW b \in Business
  PROVE  /\ \A lock, stamps, ttl :
              SameCardFigures(b, [b EXCEPT !.terms_locked_until = lock,
                                           !.stamps_required = stamps,
                                           !.receipt_ttl_seconds = ttl])
         /\ SameCardFigures(b, [HourlyWindow(b) EXCEPT !.receipts_this_window = @ + 1])
         /\ SameCardFigures(b, CountMinted(b))
         /\ SameCardFigures(b, CountClosedVoucher(b))
         /\ SameCardFigures(b, CountRedeemed(b))
         /\ \A opening \in BOOLEAN :
              /\ CountStamp(b, opening).total_cards =
                   IF opening THEN b.total_cards + 1 ELSE b.total_cards
              /\ CountStamp(b, opening).open_cards =
                   IF opening THEN b.open_cards + 1 ELSE b.open_cards
              /\ CountStamp(b, opening).rent_payer = b.rent_payer
         /\ CountClosedCard(b).total_cards = b.total_cards
         /\ CountClosedCard(b).open_cards =
              IF b.open_cards = 0 THEN 0 ELSE b.open_cards - 1
         /\ CountClosedCard(b).rent_payer = b.rent_payer
<1>1. \A lock, stamps, ttl :
        SameCardFigures(b, [b EXCEPT !.terms_locked_until = lock,
                                     !.stamps_required = stamps,
                                     !.receipt_ttl_seconds = ttl])
  BY DEF SameCardFigures, Business
<1>2. SameCardFigures(b, [HourlyWindow(b) EXCEPT !.receipts_this_window = @ + 1])
  BY DEF SameCardFigures, HourlyWindow, Business
<1>3. SameCardFigures(b, CountMinted(b)) BY DEF SameCardFigures, CountMinted, Business
<1>4. SameCardFigures(b, CountClosedVoucher(b))
  BY DEF SameCardFigures, CountClosedVoucher, Business
<1>5. SameCardFigures(b, CountRedeemed(b))
  BY <1>4 DEF SameCardFigures, CountRedeemed, CountClosedVoucher, Business
<1>6. ASSUME NEW opening \in BOOLEAN
      PROVE  /\ CountStamp(b, opening).total_cards =
                  IF opening THEN b.total_cards + 1 ELSE b.total_cards
             /\ CountStamp(b, opening).open_cards =
                  IF opening THEN b.open_cards + 1 ELSE b.open_cards
             /\ CountStamp(b, opening).rent_payer = b.rent_payer
  BY DEF CountStamp, Business
<1>7. /\ CountClosedCard(b).total_cards = b.total_cards
      /\ CountClosedCard(b).open_cards = IF b.open_cards = 0 THEN 0 ELSE b.open_cards - 1
      /\ CountClosedCard(b).rent_payer = b.rent_payer
  BY DEF CountClosedCard, Business
<1> QED BY <1>1, <1>2, <1>3, <1>4, <1>5, <1>6, <1>7

CardsSame(m) ==
  /\ OpenCards(m)' = OpenCards(m)
  /\ shop[m] # NoAccount => SameCardFigures(shop[m], shop'[m])

CardOpens(m) ==
  /\ shop[m] # NoAccount
  /\ shop'[m].rent_payer = shop[m].rent_payer
  /\ shop'[m].total_cards = shop[m].total_cards + 1
  /\ shop'[m].open_cards = shop[m].open_cards + 1
  /\ \E c \in Customers \ OpenCards(m) : OpenCards(m)' = OpenCards(m) \cup {c}

CardCloses(m) ==
  /\ shop[m] # NoAccount
  /\ shop'[m].rent_payer = shop[m].rent_payer
  /\ shop'[m].total_cards = shop[m].total_cards
  /\ shop'[m].open_cards = IF shop[m].open_cards = 0 THEN 0 ELSE shop[m].open_cards - 1
  /\ \E c \in OpenCards(m) : OpenCards(m)' = OpenCards(m) \ {c}

\* What a step that neither opens nor closes a shop may do to its cards.
CardBooks(m) ==
  /\ shop'[m] = NoAccount <=> shop[m] = NoAccount
  /\ CardsSame(m) \/ CardOpens(m) \/ CardCloses(m)

LEMMA CardBooksQuiet ==
  ASSUME shop' = shop, \A m \in Merchants : OpenCards(m)' = OpenCards(m)
  PROVE  \A m \in Merchants : CardBooks(m)
BY DEF CardBooks, CardsSame, SameCardFigures

LEMMA CardBooksWritten ==
  ASSUME TypeOK, NEW m \in Merchants, shop[m] # NoAccount,
         NEW b \in Business, shop' = [shop EXCEPT ![m] = b], SameCardFigures(shop[m], b),
         \A x \in Merchants : OpenCards(x)' = OpenCards(x)
  PROVE  \A x \in Merchants : CardBooks(x)
<1>1. shop'[m] = b /\ \A x \in Merchants : x # m => shop'[x] = shop[x] BY DEF TypeOK
<1>2. CardBooks(m) BY <1>1, NoAccountAssumption DEF CardBooks, CardsSame
<1>3. ASSUME NEW x \in Merchants, x # m PROVE CardBooks(x)
  BY <1>1, <1>3 DEF CardBooks, CardsSame, SameCardFigures
<1> QED BY <1>2, <1>3

\* A card that stays a card.
LEMMA OpenCardsSame ==
  ASSUME TypeOK, NEW m \in Merchants, NEW c \in Customers, card[m][c] # NoAccount,
         NEW k \in LoyaltyCard, card' = [card EXCEPT ![m][c] = k]
  PROVE  \A x \in Merchants : OpenCards(x)' = OpenCards(x)
<1>1. \A x \in Merchants, y \in Customers :
        card'[x][y] = NoAccount <=> card[x][y] = NoAccount
  BY NoAccountAssumption DEF TypeOK
<1> QED BY <1>1 DEF OpenCards

LEMMA OtherCardBooks ==
  ASSUME TypeOK, NEW m \in Merchants, NEW c \in Customers, NEW b, NEW k,
         shop' = [shop EXCEPT ![m] = b], card' = [card EXCEPT ![m][c] = k]
  PROVE  /\ shop'[m] = b
         /\ card'[m][c] = k /\ \A y \in Customers \ {c} : card'[m][y] = card[m][y]
         /\ \A x \in Merchants \ {m} : CardBooks(x)
<1>1. shop'[m] = b /\ \A x \in Merchants \ {m} : shop'[x] = shop[x] BY DEF TypeOK
<1>2. /\ card'[m][c] = k /\ \A y \in Customers \ {c} : card'[m][y] = card[m][y]
      /\ \A x \in Merchants \ {m} : card'[x] = card[x]
  BY DEF TypeOK
<1>3. ASSUME NEW x \in Merchants \ {m} PROVE CardBooks(x)
  BY <1>1, <1>2 DEF CardBooks, CardsSame, SameCardFigures, OpenCards
<1> QED BY <1>1, <1>2, <1>3

LEMMA ClaimCardBooks ==
  ASSUME TypeOK, NEW m \in Merchants, NEW s \in Secrets, NEW c \in Customers,
         NEW relayer \in Relayers, ClaimReceipt(m, s, c, relayer)
  PROVE  \A x \in Merchants : CardBooks(x)
<1> DEFINE k == DailyWindow(CardAtCounter(m, c, relayer))
           opening == card[m][c] = NoAccount
           b == CountStamp(shop[m], opening)
<1>1. /\ card' = [card EXCEPT ![m][c] = Stamped(k)] /\ k.stamps < U8Max
      /\ shop' = [shop EXCEPT ![m] = b] /\ shop[m] # NoAccount
  BY DEF ClaimReceipt, RoomForStamp
<1>2. shop[m] \in Business /\ now \in Nat BY <1>1, AccountType DEF TypeOK
<1>3. CardAtCounter(m, c, relayer) \in LoyaltyCard
  BY <1>2, AccountType, OpenedCardType DEF CardAtCounter
<1>4. Stamped(k) \in LoyaltyCard
  <2>1. k \in LoyaltyCard BY <1>2, <1>3, DailyWindowType
  <2> HIDE DEF k
  <2> QED BY <1>1, <1>2, <2>1, StampedType
<1>5. b \in Business BY <1>2, CountStampType
<1>6. /\ b.total_cards = IF opening THEN shop[m].total_cards + 1 ELSE shop[m].total_cards
      /\ b.open_cards = IF opening THEN shop[m].open_cards + 1 ELSE shop[m].open_cards
      /\ b.rent_payer = shop[m].rent_payer
  BY <1>2, CardFiguresWritten
<1> HIDE DEF b, k
<1>7. /\ shop'[m] = b
      /\ card'[m][c] = Stamped(k) /\ \A y \in Customers \ {c} : card'[m][y] = card[m][y]
      /\ \A x \in Merchants \ {m} : CardBooks(x)
  BY <1>1, OtherCardBooks
<1>8. OpenCards(m)' = OpenCards(m) \cup {c}
  BY <1>4, <1>7, NoAccountAssumption DEF OpenCards
<1>9. CardBooks(m)
  <2>0. shop'[m] # NoAccount BY <1>5, <1>7, NoAccountAssumption
  <2>1. CASE opening
    <3>1. c \in Customers \ OpenCards(m) BY <2>1 DEF OpenCards
    <3> QED BY <1>1, <1>6, <1>7, <1>8, <2>0, <2>1, <3>1 DEF CardBooks, CardOpens
  <2>2. CASE ~opening
    <3>1. OpenCards(m)' = OpenCards(m) BY <1>8, <2>2 DEF OpenCards
    <3> QED BY <1>1, <1>6, <1>7, <2>0, <2>2, <3>1
            DEF CardBooks, CardsSame, SameCardFigures
  <2> QED BY <2>1, <2>2
<1> QED BY <1>7, <1>9

LEMMA CloseCardBooks ==
  ASSUME TypeOK, NEW m \in Merchants, NEW c \in Customers, CloseDeadCard(m, c)
  PROVE  \A x \in Merchants : CardBooks(x)
<1> DEFINE b == CountClosedCard(shop[m])
<1>1. /\ card' = [card EXCEPT ![m][c] = NoAccount]
      /\ shop' = [shop EXCEPT ![m] = b]
      /\ shop[m] # NoAccount /\ card[m][c] # NoAccount
  BY DEF CloseDeadCard
<1>2. shop[m] \in Business BY <1>1, AccountType
<1>3. b \in Business BY <1>2, CountersType
<1>4. /\ b.total_cards = shop[m].total_cards
      /\ b.open_cards = IF shop[m].open_cards = 0 THEN 0 ELSE shop[m].open_cards - 1
      /\ b.rent_payer = shop[m].rent_payer
  BY <1>2, CardFiguresWritten
<1> HIDE DEF b
<1>5. /\ shop'[m] = b
      /\ card'[m][c] = NoAccount /\ \A y \in Customers \ {c} : card'[m][y] = card[m][y]
      /\ \A x \in Merchants \ {m} : CardBooks(x)
  BY <1>1, OtherCardBooks
<1>6. c \in OpenCards(m) /\ OpenCards(m)' = OpenCards(m) \ {c}
  BY <1>1, <1>5 DEF OpenCards
<1>7. shop'[m] # NoAccount BY <1>3, <1>5, NoAccountAssumption
<1>8. CardBooks(m) BY <1>1, <1>4, <1>5, <1>6, <1>7 DEF CardBooks, CardCloses
<1> QED BY <1>5, <1>8

\* Everything but opening, changing and closing a shop.
Trade == ReceiptNext \/ CardNext \/ VoucherNext \/ WalletNext \/ Tick

LEMMA TradeCardBooks ==
  ASSUME TypeOK, Trade
  PROVE  \A x \in Merchants : CardBooks(x)
<1> DEFINE Books == \A x \in Merchants : CardBooks(x)
<1> SUFFICES Books
  OBVIOUS
<1>1. ASSUME card' = card, shop' = shop PROVE Books
  BY <1>1, CardBooksQuiet DEF OpenCards
<1>2. ASSUME NEW m \in Merchants, shop[m] # NoAccount, card' = card,
             NEW b \in Business, shop' = [shop EXCEPT ![m] = b],
             SameCardFigures(shop[m], b)
      PROVE  Books
  <2>1. \A x \in Merchants : OpenCards(x)' = OpenCards(x) BY <1>2 DEF OpenCards
  <2> QED BY <1>2, <2>1, CardBooksWritten
<1>3. CASE ReceiptNext
  <2>1. ASSUME NEW m \in Merchants, NEW s \in Secrets, NEW relayer \in Relayers,
               IssueReceipt(m, s, relayer)
        PROVE  Books
    <3> DEFINE b == [HourlyWindow(shop[m]) EXCEPT !.receipts_this_window = @ + 1]
    <3>1. /\ shop[m] # NoAccount /\ shop[m] \in Business /\ now \in Nat
          /\ shop' = [shop EXCEPT ![m] = b] /\ card' = card
      BY <2>1, AccountType DEF IssueReceipt, TypeOK
    <3>2. b \in Business /\ SameCardFigures(shop[m], b)
      BY <3>1, HourlyWindowType, CardFiguresWritten
    <3> HIDE DEF b
    <3> QED BY <1>2, <3>1, <3>2
  <2>2. ASSUME NEW m \in Merchants, NEW s \in Secrets, NEW c \in Customers,
               NEW relayer \in Relayers, ClaimReceipt(m, s, c, relayer)
        PROVE  Books
    BY <2>2, ClaimCardBooks
  <2>3. ASSUME NEW m \in Merchants, NEW s \in Secrets, ReclaimExpiredReceipt(m, s)
        PROVE  Books
    BY <1>1, <2>3 DEF ReclaimExpiredReceipt
  <2> QED BY <1>3, <2>1, <2>2, <2>3 DEF ReceiptNext
<1>4. CASE CardNext
  <2>1. ASSUME NEW m \in Merchants, NEW c \in Customers, NEW to \in Customers,
               NEW amount \in 1..U8Max, TransferStamps(m, c, to, amount)
        PROVE  Books
    <3> DEFINE sender == Passed(card[m][c], amount)
               receiver == Received(card[m][to], amount)
    <3>1. card[m][c] \in LoyaltyCard /\ card[m][to] \in LoyaltyCard /\ shop' = shop
      BY <2>1, AccountType DEF TransferStamps
    <3>2. sender \in LoyaltyCard /\ receiver \in LoyaltyCard
      BY <2>1, <3>1, PassedType, ReceivedType DEF TransferStamps
    <3>3. card' = [card EXCEPT ![m] = [card[m] EXCEPT ![c] = sender, ![to] = receiver]]
      BY <2>1, <3>1 DEF TransferStamps, TypeOK
    <3> HIDE DEF sender, receiver
    <3>4. \A x \in Merchants, y \in Customers :
            card'[x][y] = NoAccount <=> card[x][y] = NoAccount
      BY <3>1, <3>2, <3>3, NoAccountAssumption DEF TypeOK
    <3>5. \A x \in Merchants : OpenCards(x)' = OpenCards(x) BY <3>4 DEF OpenCards
    <3> QED BY <3>1, <3>5, CardBooksQuiet
  <2>2. ASSUME NEW m \in Merchants, NEW c \in Customers, MintCardNft(m, c) PROVE Books
    BY <1>1, <2>2 DEF MintCardNft
  <2>3. ASSUME NEW m \in Merchants, NEW c \in Customers, RetireIdleCardNft(m, c)
        PROVE  Books
    <3> DEFINE k == [card[m][c] EXCEPT !.nft_cycle = @ + 1]
    <3>1. /\ card[m][c] # NoAccount /\ card[m][c] \in LoyaltyCard
          /\ card' = [card EXCEPT ![m][c] = k] /\ shop' = shop
      BY <2>3, AccountType DEF RetireIdleCardNft
    <3>2. k \in LoyaltyCard
      <4>1. card[m][c].nft_cycle + 1 \in Nat BY <3>1 DEF LoyaltyCard
      <4> QED BY <3>1, <4>1, CardField
    <3> HIDE DEF k
    <3> QED BY <3>1, <3>2, OpenCardsSame, CardBooksQuiet
  <2>4. ASSUME NEW m \in Merchants, NEW c \in Customers, NEW relayer \in Relayers,
               MintVoucher(m, c, relayer)
        PROVE  Books
    <3> DEFINE burned == CardNftId(m, c) \in cardMint
               k == CashedIn(card[m][c], shop[m], burned)
               b == CountMinted(shop[m])
    <3>1. /\ card[m][c] # NoAccount /\ card[m][c] \in LoyaltyCard
          /\ shop[m] # NoAccount /\ shop[m] \in Business
          /\ card[m][c].stamps >= card[m][c].stamps_required_snapshot
          /\ card' = [card EXCEPT ![m][c] = k] /\ shop' = [shop EXCEPT ![m] = b]
      BY <2>4, AccountType DEF MintVoucher
    <3>2. burned \in BOOLEAN OBVIOUS
    <3> HIDE DEF burned
    <3>3. k \in LoyaltyCard BY <3>1, <3>2, CashedInType
    <3>4. b \in Business /\ SameCardFigures(shop[m], b)
      BY <3>1, CountersType, CardFiguresWritten
    <3> HIDE DEF k, b
    <3> QED BY <3>1, <3>3, <3>4, OpenCardsSame, CardBooksWritten
  <2> QED BY <1>4, <2>1, <2>2, <2>3, <2>4, CloseCardBooks DEF CardNext
<1>5. CASE VoucherNext
  <2>1. ASSUME NEW m \in Merchants, NEW i \in VoucherIds, NEW w \in Customers,
               RedeemVoucher(m, i, w)
        PROVE  Books
    <3> DEFINE b == CountRedeemed(shop[m])
    <3>1. /\ shop[m] # NoAccount /\ shop[m] \in Business
          /\ shop' = [shop EXCEPT ![m] = b] /\ card' = card
      BY <2>1, AccountType DEF RedeemVoucher
    <3>2. b \in Business /\ SameCardFigures(shop[m], b)
      BY <3>1, CountersType, CardFiguresWritten
    <3> HIDE DEF b
    <3> QED BY <1>2, <3>1, <3>2
  <2>2. ASSUME NEW m \in Merchants, NEW i \in VoucherIds, NEW w \in Customers,
               CloseExpiredVoucher(m, i, w)
        PROVE  Books
    <3> DEFINE b == CountClosedVoucher(shop[m])
    <3>1. /\ shop[m] # NoAccount /\ shop[m] \in Business
          /\ shop' = [shop EXCEPT ![m] = b] /\ card' = card
      BY <2>2, AccountType DEF CloseExpiredVoucher
    <3>2. b \in Business /\ SameCardFigures(shop[m], b)
      BY <3>1, CountersType, CardFiguresWritten
    <3> HIDE DEF b
    <3> QED BY <1>2, <3>1, <3>2
  <2>3. ASSUME NEW m \in Merchants, NEW i \in VoucherIds, NEW w \in Customers,
               \/ PresentVoucher(m, i, w)
               \/ CancelPresentation(m, i, w)
               \/ \E to \in Customers : TransferVoucher(m, i, w, to)
        PROVE  Books
    BY <1>1, <2>3 DEF PresentVoucher, CancelPresentation, TransferVoucher
  <2> QED BY <1>5, <2>1, <2>2, <2>3 DEF VoucherNext
<1>6. CASE WalletNext BY <1>1, <1>6, WalletKeepsAccounts
<1>7. CASE Tick BY <1>1, <1>7 DEF Tick
<1> HIDE DEF Books
<1> QED BY <1>3, <1>4, <1>5, <1>6, <1>7 DEF Trade
-----------------------------------------------------------------------------
(* What they do to its figures about vouchers, and to its vouchers.         *)

VouchersSame(m) ==
  LiveVouchers(m)' = LiveVouchers(m) /\ (shop[m] # NoAccount => SameFigures(shop[m], shop'[m]))

VoucherGiven(m) ==
  /\ shop[m] # NoAccount
  /\ shop'[m].total_redemptions = shop[m].total_redemptions
  /\ shop'[m].total_vouchers_issued = shop[m].total_vouchers_issued + 1
  /\ shop'[m].open_vouchers = shop[m].open_vouchers + 1
  /\ \E i \in VoucherIds \ LiveVouchers(m) : LiveVouchers(m)' = LiveVouchers(m) \cup {i}

VoucherEnds(m) ==
  /\ shop[m] # NoAccount
  /\ shop'[m].total_redemptions
       \in {shop[m].total_redemptions, shop[m].total_redemptions + 1}
  /\ shop'[m].total_vouchers_issued = shop[m].total_vouchers_issued
  /\ shop'[m].open_vouchers =
       IF shop[m].open_vouchers = 0 THEN 0 ELSE shop[m].open_vouchers - 1
  /\ \E i \in LiveVouchers(m) : LiveVouchers(m)' = LiveVouchers(m) \ {i}

VoucherBooks(m) == VouchersSame(m) \/ VoucherGiven(m) \/ VoucherEnds(m)

LEMMA UntouchedBooks ==
  ASSUME NEW m \in Merchants, SameBooks(m), \A i \in VoucherIds : Untouched(m, i)
  PROVE  VoucherBooks(m)
BY DEF VoucherBooks, VouchersSame, SameBooks, SameFigures, Untouched, SameVoucher, LiveVouchers

\* An event that neither opens nor closes a shop.
LEMMA EventVoucherBooks ==
  ASSUME TypeOK, Event,
         \A m \in Merchants : shop'[m] = NoAccount <=> shop[m] = NoAccount
  PROVE  \A m \in Merchants : VoucherBooks(m)
<1>1. CASE Quiet BY <1>1, UntouchedBooks DEF Quiet
<1>2. ~ \E m \in Merchants : ShopEvent(m) BY DEF ShopEvent, IsOpened, IsLeft
<1>3. ASSUME NEW m \in Merchants, NEW i \in VoucherIds, NEW w \in Customers,
             VoucherEvent(m, i, w), OthersUntouched(m, i)
      PROVE  \A n \in Merchants : VoucherBooks(n)
  <2>1. \A n \in Merchants \ {m} : VoucherBooks(n)
    BY <1>3, UntouchedBooks DEF OthersUntouched
  <2>2. \A j \in VoucherIds \ {i} : voucher'[m][j] = NoAccount <=> voucher[m][j] = NoAccount
    BY <1>3 DEF OthersUntouched, Untouched, SameVoucher
  <2>3. ASSUME SameBooks(m), SameVoucher(m, i) PROVE VoucherBooks(m)
    <3>1. LiveVouchers(m)' = LiveVouchers(m) BY <2>2, <2>3 DEF SameVoucher, LiveVouchers
    <3> QED BY <2>3, <3>1 DEF VoucherBooks, VouchersSame, SameBooks, SameFigures
  <2>4. ASSUME IsGiven(m, i, w) PROVE VoucherBooks(m)
    <3>1. i \notin LiveVouchers(m) /\ LiveVouchers(m)' = LiveVouchers(m) \cup {i}
      BY <2>2, <2>4 DEF IsGiven, LiveVouchers
    <3> QED BY <2>4, <3>1 DEF VoucherBooks, VoucherGiven, IsGiven
  <2>5. ASSUME IsHonoured(m, i, w) \/ IsSwept(m, i, w) PROVE VoucherBooks(m)
    <3>1. i \in LiveVouchers(m) /\ LiveVouchers(m)' = LiveVouchers(m) \ {i}
      BY <2>2, <2>5 DEF IsHonoured, IsSwept, Ends, VoucherLive, LiveVouchers
    <3> QED BY <2>5, <3>1 DEF VoucherBooks, VoucherEnds, IsHonoured, IsSwept, Ends
  <2>6. VoucherBooks(m)
    BY <1>3, <2>3, <2>4, <2>5
    DEF VoucherEvent, IsShown, IsTakenBack, IsLost, IsHandedOn
  <2> QED BY <2>1, <2>6
<1> QED BY <1>1, <1>2, <1>3 DEF Event
-----------------------------------------------------------------------------
(* Whatever happens, a shop's figures cover what is open.                   *)

LEMMA AddOne ==
  ASSUME NEW S, IsFiniteSet(S), NEW x, x \notin S
  PROVE  Cardinality(S \cup {x}) = Cardinality(S) + 1
BY FS_AddElement

LEMMA TradeKeepsBooks ==
  ASSUME TypeOK, NEW m \in Merchants, BooksSafe(m), CardBooks(m), VoucherBooks(m),
         shopLayout' = shopLayout
  PROVE  BooksSafe(m)'
<1>1. CASE shop[m] = NoAccount
  BY <1>1 DEF BooksSafe, CardBooks, CardsSame, CardOpens, CardCloses,
              VoucherBooks, VouchersSame, VoucherGiven, VoucherEnds
<1>2. CASE shop[m] # NoAccount
  <2> DEFINE cards == Cardinality(OpenCards(m))
             ncards == Cardinality(OpenCards(m)')
             live == Cardinality(LiveVouchers(m))
             nlive == Cardinality(LiveVouchers(m)')
  <2>1. /\ shop[m].total_cards \in Nat /\ shop[m].open_cards \in Nat
        /\ shop[m].total_redemptions \in Nat /\ shop[m].total_vouchers_issued \in Nat
        /\ shop[m].open_vouchers \in Nat
    BY <1>2, AccountType DEF Business
  <2>2. /\ IsFiniteSet(OpenCards(m)) /\ IsFiniteSet(LiveVouchers(m))
        /\ cards \in Nat /\ live \in Nat
    BY CountedFinite, FS_CardinalityType
  <2>3. /\ shop'[m].rent_payer = shop[m].rent_payer
        /\ shop[m].total_cards >= cards => shop'[m].total_cards >= ncards
        /\ shop[m].open_cards >= cards => shop'[m].open_cards >= ncards
    <3>1. CASE CardsSame(m) BY <1>2, <3>1 DEF CardsSame, SameCardFigures
    <3>2. CASE CardOpens(m)
      <4>1. ncards = cards + 1 BY <2>2, <3>2, AddOne DEF CardOpens
      <4> QED BY <2>1, <2>2, <3>2, <4>1 DEF CardOpens
    <3>3. CASE CardCloses(m)
      <4>1. cards > 0 /\ ncards = cards - 1 BY <2>2, <3>3, RemoveOne DEF CardCloses
      <4> QED BY <2>1, <2>2, <3>3, <4>1 DEF CardCloses
    <3> QED BY <3>1, <3>2, <3>3 DEF CardBooks
  <2>4. /\ shop[m].total_redemptions + live <= shop[m].total_vouchers_issued
             => shop'[m].total_redemptions + nlive <= shop'[m].total_vouchers_issued
        /\ shop[m].open_vouchers >= live => shop'[m].open_vouchers >= nlive
    <3>1. CASE VouchersSame(m) BY <1>2, <3>1 DEF VouchersSame, SameFigures
    <3>2. CASE VoucherGiven(m)
      <4>1. nlive = live + 1 BY <2>2, <3>2, AddOne DEF VoucherGiven
      <4> QED BY <2>1, <2>2, <3>2, <4>1 DEF VoucherGiven
    <3>3. CASE VoucherEnds(m)
      <4>1. live > 0 /\ nlive = live - 1 BY <2>2, <3>3, RemoveOne DEF VoucherEnds
      <4> QED BY <2>1, <2>2, <3>3, <4>1 DEF VoucherEnds
    <3> QED BY <3>1, <3>2, <3>3 DEF VoucherBooks
  <2>5. shop'[m] # NoAccount BY <1>2 DEF CardBooks
  <2>6. cards = Cardinality(OpenCards(m)) /\ ncards = Cardinality(OpenCards(m))'
        /\ live = Cardinality(LiveVouchers(m)) /\ nlive = Cardinality(LiveVouchers(m))'
    OBVIOUS
  <2> HIDE DEF cards, ncards, live, nlive
  <2> QED BY <1>2, <2>3, <2>4, <2>5, <2>6 DEF BooksSafe
<1> QED BY <1>1, <1>2

\* A shop nothing happens to.
LEMMA BooksSafeSame ==
  ASSUME NEW m, BooksSafe(m), shop'[m] = shop[m], shopLayout'[m] = shopLayout[m],
         OpenCards(m)' = OpenCards(m), LiveVouchers(m)' = LiveVouchers(m)
  PROVE  BooksSafe(m)'
BY DEF BooksSafe

LEMMA RegisterKeepsBooks ==
  ASSUME TypeOK, NEW m \in Merchants, BooksSafe(m),
         NEW stamps, NEW ttl, NEW lock \in Nat, NEW relayer \in Relayers,
         RegisterBusiness(m, stamps, ttl, lock, relayer), shopLayout' = shopLayout
  PROVE  BooksSafe(m)'
<1> DEFINE b == NewBusiness(stamps, ttl, lock, relayer)
<1>1. b \in Business BY SettingsFit, NewBusinessType DEF RegisterBusiness
<1>2. /\ b.total_cards = 0 /\ b.open_cards = 0 /\ b.total_redemptions = 0
      /\ b.total_vouchers_issued = 0 /\ b.open_vouchers = 0
  BY DEF NewBusiness
<1>3. shop' = [shop EXCEPT ![m] = b] /\ card' = card /\ voucher' = voucher
  BY DEF RegisterBusiness, voucherVars
<1>4. OpenCards(m) = {} /\ LiveVouchers(m) = {} /\ shopLayout[m] = "current"
  BY DEF RegisterBusiness, BooksSafe
<1> HIDE DEF b
<1>5. shop'[m] = b /\ b # NoAccount BY <1>1, <1>3, NoAccountAssumption DEF TypeOK
<1>6. OpenCards(m)' = {} /\ LiveVouchers(m)' = {}
  BY <1>3, <1>4 DEF OpenCards, LiveVouchers
<1>7. Cardinality(OpenCards(m))' = 0 /\ Cardinality(LiveVouchers(m))' = 0
  BY <1>6, FS_EmptySet
<1> QED BY <1>2, <1>4, <1>5, <1>7 DEF BooksSafe

LEMMA NoneCounted ==
  ASSUME NEW S, IsFiniteSet(S), 0 >= Cardinality(S)
  PROVE  S = {}
<1>1. Cardinality(S) = 0 BY FS_CardinalityType
<1> QED BY <1>1, FS_EmptySet

\* Only a shop whose counters are kept can close, and they are never too low.
LEMMA CloseKeepsBooks ==
  ASSUME TypeOK, shopLayout \in [Merchants -> {"current", "V1 short", "V1 long"}],
         NEW m \in Merchants, BooksSafe(m), CloseReadableShop(m)
  PROVE  BooksSafe(m)'
<1>1. /\ shop[m] # NoAccount /\ shop[m].open_cards = 0 /\ shop[m].open_vouchers = 0
      /\ shop' = [shop EXCEPT ![m] = NoAccount] /\ card' = card /\ voucher' = voucher
  BY DEF CloseReadableShop, CloseBusiness, MayClose, voucherVars
<1>2. 0 >= Cardinality(OpenCards(m)) /\ 0 >= Cardinality(LiveVouchers(m))
  BY <1>1 DEF CloseReadableShop, BooksSafe
<1>3. OpenCards(m) = {} /\ LiveVouchers(m) = {}
  BY <1>2, CountedFinite, NoneCounted
<1>4. shop'[m] = NoAccount /\ shopLayout'[m] = "current"
  BY <1>1 DEF TypeOK, CloseReadableShop
<1>5. OpenCards(m)' = {} /\ LiveVouchers(m)' = {}
  BY <1>1, <1>3 DEF OpenCards, LiveVouchers
<1> QED BY <1>4, <1>5 DEF BooksSafe

\* What migrating a shop writes.
LEMMA MigratedFacts ==
  ASSUME NEW b \in Business, now \in Nat, NEW relayer \in Relayers
  PROVE  /\ Migrated(b, relayer) \in Business
         /\ Migrated(b, relayer).total_cards = b.total_cards
         /\ Migrated(b, relayer).total_redemptions = b.total_redemptions
         /\ Migrated(b, relayer).total_vouchers_issued = b.total_vouchers_issued
         /\ Migrated(b, relayer).open_cards = b.total_cards
         /\ Migrated(b, relayer).open_vouchers =
              IF b.total_vouchers_issued < b.total_redemptions THEN 0
              ELSE b.total_vouchers_issued - b.total_redemptions
<1> DEFINE owed == IF b.total_vouchers_issued < b.total_redemptions THEN 0
                   ELSE b.total_vouchers_issued - b.total_redemptions
           b1 == [b EXCEPT !.terms_locked_until = now]
           b2 == [b1 EXCEPT !.open_cards = b.total_cards]
           b3 == [b2 EXCEPT !.rent_payer = relayer]
           b4 == [b3 EXCEPT !.open_vouchers = owed]
<1>1. owed \in Nat /\ b.total_cards \in Nat BY DEF Business
<1>2. Migrated(b, relayer) = b4 BY DEF Migrated
<1> HIDE DEF owed
<1>3. b1 \in Business BY BusinessField
<1>4. /\ b1.total_cards = b.total_cards /\ b1.total_redemptions = b.total_redemptions
      /\ b1.total_vouchers_issued = b.total_vouchers_issued
  BY DEF Business
<1> HIDE DEF b1
<1>5. b2 \in Business BY <1>1, <1>3, BusinessField
<1>6. /\ b2.total_cards = b.total_cards /\ b2.total_redemptions = b.total_redemptions
      /\ b2.total_vouchers_issued = b.total_vouchers_issued
      /\ b2.open_cards = b.total_cards
  BY <1>3, <1>4 DEF Business
<1> HIDE DEF b2
<1>7. b3 \in Business BY <1>5 DEF Business
<1>8. /\ b3.total_cards = b.total_cards /\ b3.total_redemptions = b.total_redemptions
      /\ b3.total_vouchers_issued = b.total_vouchers_issued
      /\ b3.open_cards = b.total_cards
  BY <1>5, <1>6 DEF Business
<1> HIDE DEF b3
<1>9. b4 \in Business BY <1>1, <1>7, BusinessField
<1>10. /\ b4.total_cards = b.total_cards /\ b4.total_redemptions = b.total_redemptions
       /\ b4.total_vouchers_issued = b.total_vouchers_issued
       /\ b4.open_cards = b.total_cards /\ b4.open_vouchers = owed
  BY <1>7, <1>8 DEF Business
<1> HIDE DEF b4
<1> QED BY <1>2, <1>9, <1>10 DEF owed

LEMMA WhatIsOwed ==
  ASSUME NEW issued \in Nat, NEW redeemed \in Nat, NEW live \in Nat,
         redeemed + live <= issued
  PROVE  (IF issued < redeemed THEN 0 ELSE issued - redeemed) >= live
OBVIOUS

LEMMA MigrateKeepsBooks ==
  ASSUME TypeOK, shopLayout \in [Merchants -> {"current", "V1 short", "V1 long"}],
         NEW m \in Merchants, BooksSafe(m), NEW relayer \in Relayers,
         MigrateBusiness(m, relayer)
  PROVE  BooksSafe(m)'
<1> DEFINE b == Migrated(shop[m], relayer)
<1>1. /\ shop[m] # NoAccount /\ shop[m] \in Business /\ now \in Nat
      /\ shop' = [shop EXCEPT ![m] = b] /\ card' = card /\ voucher' = voucher
      /\ shopLayout' = [shopLayout EXCEPT ![m] = "current"]
  BY AccountType DEF MigrateBusiness, voucherVars, TypeOK
<1>2. /\ b \in Business
      /\ b.total_cards = shop[m].total_cards
      /\ b.total_redemptions = shop[m].total_redemptions
      /\ b.total_vouchers_issued = shop[m].total_vouchers_issued
      /\ b.open_cards = shop[m].total_cards
      /\ b.open_vouchers =
           IF shop[m].total_vouchers_issued < shop[m].total_redemptions THEN 0
           ELSE shop[m].total_vouchers_issued - shop[m].total_redemptions
  BY <1>1, MigratedFacts
<1> HIDE DEF b
<1>3. shop'[m] = b /\ b # NoAccount /\ shopLayout'[m] = "current"
  BY <1>1, <1>2, NoAccountAssumption DEF TypeOK
<1>4. OpenCards(m)' = OpenCards(m) /\ LiveVouchers(m)' = LiveVouchers(m)
  BY <1>1 DEF OpenCards, LiveVouchers
<1>5. /\ shop[m].total_redemptions \in Nat /\ shop[m].total_vouchers_issued \in Nat
      /\ Cardinality(LiveVouchers(m)) \in Nat
  BY <1>1, CountedFinite, FS_CardinalityType DEF Business
<1>6. /\ shop[m].total_cards >= Cardinality(OpenCards(m))
      /\ shop[m].total_redemptions + Cardinality(LiveVouchers(m))
           <= shop[m].total_vouchers_issued
  BY <1>1 DEF BooksSafe
<1>7. b.open_vouchers >= Cardinality(LiveVouchers(m))
  <2> DEFINE n == Cardinality(LiveVouchers(m))
  <2>1. n \in Nat /\ shop[m].total_redemptions + n <= shop[m].total_vouchers_issued
    BY <1>5, <1>6
  <2> HIDE DEF n
  <2>2. b.open_vouchers >= n BY <1>2, <1>5, <2>1, WhatIsOwed
  <2> QED BY <2>2 DEF n
<1> QED BY <1>2, <1>3, <1>4, <1>6, <1>7 DEF BooksSafe
-----------------------------------------------------------------------------
(* A step is a migration, the end of a shop, or another of today's          *)
(* instructions.                                                            *)

MigratesNothing == UNCHANGED <<shopLayout, cardLayout, record>>

\* Those of today's instructions that an upgrade leaves possible, but for
\* closing a shop, which changes what layout its address holds.
Today ==
  /\ MigratesNothing
  /\ \/ Trade
     \/ \E m \in Merchants, stamps \in StampGoals, ttl \in ReceiptTtls, lock \in LockDates :
          \/ \E relayer \in Signers : RegisterBusiness(m, stamps, ttl, lock, relayer)
          \/ UpdateBusinessConfig(m, stamps, ttl, lock)

LEMMA StepCases ==
  ASSUME MigrationNext
  PROVE  \/ \E m \in Merchants, relayer \in Signers : MigrateBusiness(m, relayer)
         \/ \E m \in Merchants, c \in Customers, relayer \in Signers :
              MigrateCard(m, c, relayer)
         \/ \E m \in Merchants : CloseReadableShop(m)
         \/ Today
<1> DEFINE Goal ==
         \/ \E m \in Merchants, relayer \in Signers : MigrateBusiness(m, relayer)
         \/ \E m \in Merchants, c \in Customers, relayer \in Signers :
              MigrateCard(m, c, relayer)
         \/ \E m \in Merchants : CloseReadableShop(m)
         \/ Today
<1> SUFFICES Goal
  OBVIOUS
<1>0. Signers \subseteq Relayers BY OldAssumption
<1>1. CASE \E m \in Merchants, relayer \in Signers :
             \/ MigrateBusiness(m, relayer)
             \/ \E c \in Customers : MigrateCard(m, c, relayer)
  BY <1>1
<1>2. ASSUME Trade, MigratesNothing PROVE Goal BY <1>2 DEF Today
<1>3. ASSUME NEW m \in Merchants, ReadableShopNext(m), MigratesNothing PROVE Goal
  <2>1. CASE \E s \in Secrets, relayer \in Signers : IssueReceipt(m, s, relayer)
    BY <1>0, <1>2, <1>3, <2>1 DEF Trade, ReceiptNext
  <2>2. CASE \E i \in VoucherIds, w \in Customers :
               RedeemVoucher(m, i, w) \/ CloseExpiredVoucher(m, i, w)
    BY <1>2, <1>3, <2>2 DEF Trade, VoucherNext
  <2>3. CASE \E stamps \in StampGoals, ttl \in ReceiptTtls, lock \in LockDates :
               \/ \E relayer \in Signers : RegisterBusiness(m, stamps, ttl, lock, relayer)
               \/ UpdateBusinessConfig(m, stamps, ttl, lock)
    BY <1>3, <2>3 DEF Today
  <2> QED BY <1>3, <2>1, <2>2, <2>3 DEF ReadableShopNext
<1>4. ASSUME NEW m \in Merchants, NEW c \in Customers, ReadableCardNext(m, c),
             MigratesNothing
      PROVE  Goal
  <2>1. CASE \E s \in Secrets, relayer \in Signers : ClaimReceipt(m, s, c, relayer)
    BY <1>0, <1>2, <1>4, <2>1 DEF Trade, ReceiptNext
  <2>2. CASE \/ \E to \in Customers, amount \in 1..U8Max : TransferStamps(m, c, to, amount)
             \/ MintCardNft(m, c)
             \/ RetireIdleCardNft(m, c)
             \/ CloseDeadCard(m, c)
             \/ \E relayer \in Signers : MintVoucher(m, c, relayer)
    BY <1>0, <1>2, <1>4, <2>2 DEF Trade, CardNext
  <2> QED BY <1>4, <2>1, <2>2 DEF ReadableCardNext
<1>5. ASSUME UnreadNext, MigratesNothing PROVE Goal
  <2>1. CASE \E m \in Merchants, s \in Secrets : ReclaimExpiredReceipt(m, s)
    BY <1>2, <1>5, <2>1 DEF Trade, ReceiptNext
  <2>2. CASE \E m \in Merchants, i \in VoucherIds, w \in Customers :
               \/ PresentVoucher(m, i, w)
               \/ CancelPresentation(m, i, w)
               \/ \E to \in Customers : TransferVoucher(m, i, w, to)
    BY <1>2, <1>5, <2>2 DEF Trade, VoucherNext
  <2>3. CASE \E id \in cardHeld : WalletBurnsCardToken(id)
    BY <1>2, <1>5, <2>3 DEF Trade, WalletNext
  <2>4. CASE Tick BY <1>2, <1>5, <2>4 DEF Trade
  <2> QED BY <1>5, <2>1, <2>2, <2>3, <2>4 DEF UnreadNext
<1>6. CASE \E m \in Merchants : CloseReadableShop(m) BY <1>6
<1> HIDE DEF Goal
<1> QED BY <1>1, <1>3, <1>4, <1>5, <1>6 DEF MigrationNext, MigratesNothing

LEMMA TodayIsNext == Today => Next
<1> SUFFICES ASSUME Today PROVE Next
  OBVIOUS
<1>0. Signers \subseteq Relayers BY OldAssumption
<1>1. CASE Trade BY <1>1 DEF Trade, Next
<1>2. CASE \E m \in Merchants, stamps \in StampGoals, ttl \in ReceiptTtls, lock \in LockDates :
             \/ \E relayer \in Signers : RegisterBusiness(m, stamps, ttl, lock, relayer)
             \/ UpdateBusinessConfig(m, stamps, ttl, lock)
  BY <1>0, <1>2 DEF ShopNext, Next
<1> QED BY <1>1, <1>2 DEF Today

LEMMA CloseIsNext == ASSUME NEW m \in Merchants, CloseReadableShop(m) PROVE Next
BY DEF CloseReadableShop, ShopNext, Next

LEMMA TodayKeepsBooks ==
  ASSUME TypeOK, Sound, \A m \in Merchants : BooksSafe(m), Today
  PROVE  \A m \in Merchants : BooksSafe(m)'
<1> DEFINE Goal == \A x \in Merchants : BooksSafe(x)'
<1> SUFFICES Goal
  OBVIOUS
<1>0. shopLayout' = shopLayout BY DEF Today, MigratesNothing
<1>1. CASE Trade
  <2>1. \A m \in Merchants : CardBooks(m) BY <1>1, TradeCardBooks
  <2>2. Event
    <3>1. VoucherNftSound /\ Next BY SoundMeans, TodayIsNext
    <3> QED BY <3>1, StepIsEvent
  <2>3. \A m \in Merchants : shop'[m] = NoAccount <=> shop[m] = NoAccount
    BY <2>1 DEF CardBooks
  <2>4. \A m \in Merchants : VoucherBooks(m) BY <2>2, <2>3, EventVoucherBooks
  <2> QED BY <1>0, <2>1, <2>4, TradeKeepsBooks
<1>2. ASSUME NEW m \in Merchants, NEW b, shop' = [shop EXCEPT ![m] = b],
             card' = card, voucher' = voucher, BooksSafe(m)'
      PROVE  Goal
  <2>1. ASSUME NEW x \in Merchants, x # m PROVE BooksSafe(x)'
    <3>1. shop'[x] = shop[x] BY <1>2, <2>1 DEF TypeOK
    <3>2. OpenCards(x)' = OpenCards(x) /\ LiveVouchers(x)' = LiveVouchers(x)
      BY <1>2 DEF OpenCards, LiveVouchers
    <3> QED BY <1>0, <3>1, <3>2, BooksSafeSame
  <2> QED BY <1>2, <2>1
<1>3. ASSUME NEW m \in Merchants, NEW stamps \in StampGoals, NEW ttl \in ReceiptTtls,
             NEW lock \in LockDates, NEW relayer \in Signers,
             RegisterBusiness(m, stamps, ttl, lock, relayer)
      PROVE  Goal
  <2>1. relayer \in Relayers /\ lock \in Nat BY OldAssumption, ArgumentsAssumption
  <2>2. BooksSafe(m)' BY <1>0, <1>3, <2>1, RegisterKeepsBooks
  <2> QED BY <1>2, <1>3, <2>2 DEF RegisterBusiness, voucherVars
<1>4. ASSUME NEW m \in Merchants, NEW stamps \in StampGoals, NEW ttl \in ReceiptTtls,
             NEW lock \in LockDates, UpdateBusinessConfig(m, stamps, ttl, lock)
      PROVE  Goal
  <2> DEFINE b == [shop[m] EXCEPT !.terms_locked_until = lock,
                                  !.stamps_required = stamps,
                                  !.receipt_ttl_seconds = ttl]
  <2>1. /\ shop[m] # NoAccount /\ shop[m] \in Business /\ stamps \in 0..U8Max /\ ttl \in Nat
        /\ shop' = [shop EXCEPT ![m] = b] /\ card' = card /\ voucher' = voucher
    BY <1>4, AccountType, SettingsFit
    DEF UpdateBusinessConfig, UpdateAllowed, voucherVars
  <2>2. b \in Business BY <2>1, ArgumentsAssumption, NewTermsType
  <2>3. SameCardFigures(shop[m], b) BY <2>1, CardFiguresWritten
  <2>4. SameFigures(shop[m], b) BY <2>1, FigureWrites
  <2> HIDE DEF b
  <2>5. \A x \in Merchants : OpenCards(x)' = OpenCards(x) /\ LiveVouchers(x)' = LiveVouchers(x)
    BY <2>1 DEF OpenCards, LiveVouchers
  <2>6. CardBooks(m) BY <2>1, <2>2, <2>3, <2>5, CardBooksWritten
  <2>7. shop'[m] = b BY <2>1 DEF TypeOK
  <2>8. VoucherBooks(m) BY <2>4, <2>5, <2>7 DEF VoucherBooks, VouchersSame
  <2>9. BooksSafe(m)' BY <1>0, <2>6, <2>8, TradeKeepsBooks
  <2> QED BY <1>2, <2>1, <2>9
<1> HIDE DEF Goal
<1> QED BY <1>1, <1>3, <1>4 DEF Today
-----------------------------------------------------------------------------
(* Whatever happens, a card remembers its rewards and its rent payer.       *)

CardKept(m, c) ==
  CardSafe(m, c)' /\ (card[m][c] # NoAccount => KeepsPayer(m, c))

LEMMA CardUntouched ==
  ASSUME NEW m, NEW c, CardSafe(m, c), card'[m][c] = card[m][c],
         cardLayout'[m][c] = cardLayout[m][c], record'[m][c] = record[m][c],
         earned'[m][c] = earned[m][c], free'[m][c] = free[m][c]
  PROVE  CardKept(m, c)
BY DEF CardKept, CardSafe, CardReadable, KeepsPayer, KnownPayer

\* A card that can be read is written.
LEMMA CardWritten ==
  ASSUME NEW m, NEW c, CardReadable(m, c), MigratesNothing,
         IF card'[m][c] = NoAccount THEN earned'[m][c] = 0 /\ free'[m][c] = 0
         ELSE card'[m][c].rewards_earned + free'[m][c] = earned'[m][c],
         card[m][c] # NoAccount /\ card'[m][c] # NoAccount
           => card'[m][c].rent_payer = card[m][c].rent_payer
  PROVE  CardKept(m, c)
BY DEF CardKept, CardSafe, CardReadable, KeepsPayer, KnownPayer, MigratesNothing

\* A step that writes one card, of those that can be read.
LEMMA OneCardKept ==
  ASSUME TypeOK, \A x \in Merchants, y \in Customers : CardSafe(x, y),
         MigratesNothing,
         NEW m \in Merchants, NEW c \in Customers, CardReadable(m, c),
         NEW k, card' = [card EXCEPT ![m][c] = k],
         \A x \in Merchants, y \in Customers :
           x # m \/ y # c => earned'[x][y] = earned[x][y] /\ free'[x][y] = free[x][y],
         IF k = NoAccount THEN earned'[m][c] = 0 /\ free'[m][c] = 0
         ELSE k.rewards_earned + free'[m][c] = earned'[m][c],
         card[m][c] # NoAccount /\ k # NoAccount => k.rent_payer = card[m][c].rent_payer
  PROVE  \A x \in Merchants, y \in Customers : CardKept(x, y)
<1>1. card'[m][c] = k BY DEF TypeOK
<1>2. CardKept(m, c) BY <1>1, CardWritten
<1>3. ASSUME NEW x \in Merchants, NEW y \in Customers, x # m \/ y # c
      PROVE  CardKept(x, y)
  <2>1. card'[x][y] = card[x][y] BY <1>3 DEF TypeOK
  <2> QED BY <1>3, <2>1, CardUntouched DEF MigratesNothing
<1> QED BY <1>2, <1>3

\* What the handlers write there.
LEMMA CardRewards ==
  ASSUME NEW k \in LoyaltyCard
  PROVE  /\ Stamped(DailyWindow(k)).rewards_earned = k.rewards_earned
         /\ Stamped(DailyWindow(k)).rent_payer = k.rent_payer
         /\ \A amount : /\ Passed(k, amount).rewards_earned = k.rewards_earned
                        /\ Passed(k, amount).rent_payer = k.rent_payer
                        /\ Received(k, amount).rewards_earned = k.rewards_earned
                        /\ Received(k, amount).rent_payer = k.rent_payer
         /\ [k EXCEPT !.nft_cycle = @ + 1].rewards_earned = k.rewards_earned
         /\ [k EXCEPT !.nft_cycle = @ + 1].rent_payer = k.rent_payer
         /\ \A b, burned :
              /\ CashedIn(k, b, burned).rewards_earned = k.rewards_earned + 1
              /\ CashedIn(k, b, burned).rent_payer = k.rent_payer
<1> DEFINE d == DailyWindow(k)
<1>1. /\ DOMAIN d = DOMAIN k
      /\ d.rewards_earned = k.rewards_earned /\ d.rent_payer = k.rent_payer
  BY DEF DailyWindow, LoyaltyCard
<1>2. DOMAIN k = {"stamps", "last_stamp_ts", "claims_window_start", "claims_this_window",
                  "lifetime_stamps", "nft_cycle", "stamps_required_snapshot",
                  "rent_payer", "rewards_earned"}
  BY DEF LoyaltyCard
<1> HIDE DEF d
<1>3. /\ Stamped(d).rewards_earned = d.rewards_earned
      /\ Stamped(d).rent_payer = d.rent_payer
  BY <1>1, <1>2 DEF Stamped
<1>4. ASSUME NEW amount
      PROVE  /\ Passed(k, amount).rewards_earned = k.rewards_earned
             /\ Passed(k, amount).rent_payer = k.rent_payer
             /\ Received(k, amount).rewards_earned = k.rewards_earned
             /\ Received(k, amount).rent_payer = k.rent_payer
  BY <1>2 DEF Passed, Received, LoyaltyCard
<1>5. /\ [k EXCEPT !.nft_cycle = @ + 1].rewards_earned = k.rewards_earned
      /\ [k EXCEPT !.nft_cycle = @ + 1].rent_payer = k.rent_payer
  BY DEF LoyaltyCard
<1>6. ASSUME NEW b, NEW burned
      PROVE  /\ CashedIn(k, b, burned).rewards_earned = k.rewards_earned + 1
             /\ CashedIn(k, b, burned).rent_payer = k.rent_payer
  BY DEF CashedIn, LoyaltyCard
<1> QED BY <1>1, <1>3, <1>4, <1>5, <1>6 DEF d

LEMMA ReadableCardKept ==
  ASSUME TypeOK, earned \in [Merchants -> [Customers -> Nat]],
         free \in [Merchants -> [Customers -> Nat]],
         \A x \in Merchants, y \in Customers : CardSafe(x, y), MigratesNothing,
         NEW m \in Merchants, NEW c \in Customers, ReadableCardNext(m, c)
  PROVE  \A x \in Merchants, y \in Customers : CardKept(x, y)
<1> DEFINE Kept == \A x \in Merchants, y \in Customers : CardKept(x, y)
<1> SUFFICES Kept
  OBVIOUS
<1>0. /\ CardReadable(m, c) /\ earned[m][c] \in Nat /\ free[m][c] \in Nat
      /\ card[m][c] # NoAccount =>
           /\ card[m][c] \in LoyaltyCard
           /\ card[m][c].rewards_earned + free[m][c] = earned[m][c]
      /\ card[m][c] = NoAccount => earned[m][c] = 0 /\ free[m][c] = 0
  BY AccountType DEF ReadableCardNext, CardSafe
<1>1. ASSUME NEW s \in Secrets, NEW relayer \in Signers, ClaimReceipt(m, s, c, relayer),
             UNCHANGED rewardVars
      PROVE  Kept
  <2> DEFINE k == CardAtCounter(m, c, relayer)
             kk == Stamped(DailyWindow(k))
  <2>1. relayer \in Relayers BY OldAssumption
  <2>2. k \in LoyaltyCard
    BY <1>1, <2>1, AccountType, OpenedCardType DEF ClaimReceipt, CardAtCounter
  <2>3. kk.rewards_earned = k.rewards_earned /\ kk.rent_payer = k.rent_payer
    BY <2>2, CardRewards
  <2>4. k.rewards_earned + free[m][c] = earned[m][c]
    BY <1>0 DEF CardAtCounter, OpenedCard
  <2>5. card[m][c] # NoAccount => k = card[m][c] BY DEF CardAtCounter
  <2>6. card' = [card EXCEPT ![m][c] = kk] BY <1>1 DEF ClaimReceipt
  <2>7. kk # NoAccount
    <3>1. DailyWindow(k) \in LoyaltyCard BY <2>2, DailyWindowType DEF TypeOK
    <3>2. Stamped(DailyWindow(k)) \in LoyaltyCard
      <4> DEFINE d == DailyWindow(k)
      <4>1. d.stamps < U8Max BY <1>1 DEF ClaimReceipt, RoomForStamp
      <4> HIDE DEF d
      <4> QED BY <3>1, <4>1, StampedType DEF TypeOK, d
    <3> QED BY <3>2, NoAccountAssumption
  <2> HIDE DEF k, kk
  <2> QED BY <1>0, <1>1, <2>3, <2>4, <2>5, <2>6, <2>7, OneCardKept DEF rewardVars
<1>2. ASSUME NEW to \in Customers, NEW amount \in 1..U8Max, CardReadable(m, to),
             TransferStamps(m, c, to, amount), UNCHANGED rewardVars
      PROVE  Kept
  <2> DEFINE sender == Passed(card[m][c], amount)
             receiver == Received(card[m][to], amount)
  <2>1. card[m][c] \in LoyaltyCard /\ card[m][to] \in LoyaltyCard /\ c # to
    BY <1>2, AccountType DEF TransferStamps
  <2>2. /\ sender.rewards_earned + free[m][c] = earned[m][c]
        /\ sender.rent_payer = card[m][c].rent_payer
        /\ receiver.rewards_earned = card[m][to].rewards_earned
        /\ receiver.rent_payer = card[m][to].rent_payer
    BY <1>0, <2>1, NoAccountAssumption, CardRewards
  <2>3. card[m][to].rewards_earned + free[m][to] = earned[m][to]
    BY <1>2, <2>1, NoAccountAssumption DEF CardSafe
  <2>4. card' = [card EXCEPT ![m] = [card[m] EXCEPT ![c] = sender, ![to] = receiver]]
    BY <1>2, <2>1 DEF TransferStamps, TypeOK
  <2>5. sender # NoAccount /\ receiver # NoAccount
    BY <1>2, <2>1, PassedType, ReceivedType, NoAccountAssumption DEF TransferStamps
  <2> HIDE DEF sender, receiver
  <2>6. /\ card'[m][c] = sender /\ card'[m][to] = receiver
        /\ \A x \in Merchants, y \in Customers :
             x # m \/ (y # c /\ y # to) => card'[x][y] = card[x][y]
    BY <2>1, <2>4 DEF TypeOK
  <2>7. CardKept(m, c) /\ CardKept(m, to)
    BY <1>0, <1>2, <2>2, <2>3, <2>5, <2>6, CardWritten DEF rewardVars
  <2>8. ASSUME NEW x \in Merchants, NEW y \in Customers, x # m \/ (y # c /\ y # to)
        PROVE  CardKept(x, y)
    BY <1>2, <2>6, <2>8, CardUntouched DEF MigratesNothing, rewardVars
  <2> QED BY <2>7, <2>8
<1>3. ASSUME MintCardNft(m, c), UNCHANGED rewardVars PROVE Kept
  BY <1>3, CardUntouched DEF MintCardNft, MigratesNothing, rewardVars
<1>4. ASSUME RetireIdleCardNft(m, c), UNCHANGED rewardVars PROVE Kept
  <2> DEFINE k == [card[m][c] EXCEPT !.nft_cycle = @ + 1]
  <2>1. /\ card[m][c] # NoAccount /\ card[m][c] \in LoyaltyCard
        /\ card' = [card EXCEPT ![m][c] = k]
    BY <1>0, <1>4 DEF RetireIdleCardNft
  <2>2. /\ k.rewards_earned + free[m][c] = earned[m][c]
        /\ k.rent_payer = card[m][c].rent_payer
    BY <1>0, <2>1, CardRewards
  <2>3. k # NoAccount
    <3>1. card[m][c].nft_cycle + 1 \in Nat BY <2>1 DEF LoyaltyCard
    <3> QED BY <2>1, <3>1, CardField, NoAccountAssumption
  <2> HIDE DEF k
  <2> QED BY <1>0, <1>4, <2>1, <2>2, <2>3, OneCardKept DEF rewardVars
<1>5. ASSUME CloseDeadCard(m, c), earned' = [earned EXCEPT ![m][c] = 0],
             free' = [free EXCEPT ![m][c] = 0]
      PROVE  Kept
  <2>1. card' = [card EXCEPT ![m][c] = NoAccount] BY <1>5 DEF CloseDeadCard
  <2>2. /\ earned'[m][c] = 0 /\ free'[m][c] = 0
        /\ \A x \in Merchants, y \in Customers :
             x # m \/ y # c => earned'[x][y] = earned[x][y] /\ free'[x][y] = free[x][y]
    BY <1>5
  <2> QED BY <1>0, <2>1, <2>2, OneCardKept
<1>6. ASSUME NEW relayer \in Signers, MintVoucher(m, c, relayer),
             earned' = [earned EXCEPT ![m][c] = @ + 1], free' = free
      PROVE  Kept
  <2> DEFINE burned == CardNftId(m, c) \in cardMint
             k == CashedIn(card[m][c], shop[m], burned)
  <2>1. /\ card[m][c] # NoAccount /\ card[m][c] \in LoyaltyCard
        /\ shop[m] \in Business
        /\ card[m][c].stamps >= card[m][c].stamps_required_snapshot
        /\ card' = [card EXCEPT ![m][c] = k]
    BY <1>0, <1>6, AccountType DEF MintVoucher
  <2>2. burned \in BOOLEAN OBVIOUS
  <2> HIDE DEF burned
  <2>3. k # NoAccount BY <2>1, <2>2, CashedInType, NoAccountAssumption
  <2>4. k.rewards_earned = card[m][c].rewards_earned + 1 /\ k.rent_payer = card[m][c].rent_payer
    BY <1>0, <2>1, CardRewards
  <2> HIDE DEF k
  <2>5. /\ earned'[m][c] = earned[m][c] + 1
        /\ \A x \in Merchants, y \in Customers :
             x # m \/ y # c => earned'[x][y] = earned[x][y] /\ free'[x][y] = free[x][y]
    BY <1>6
  <2>6. k.rewards_earned + free'[m][c] = earned'[m][c]
    <3>1. card[m][c].rewards_earned \in Nat BY <2>1 DEF LoyaltyCard
    <3>2. free'[m][c] = free[m][c] BY <1>6
    <3> QED BY <1>0, <2>1, <2>4, <2>5, <3>1, <3>2
  <2> QED BY <1>0, <2>1, <2>3, <2>4, <2>5, <2>6, OneCardKept
<1> HIDE DEF Kept
<1> QED BY <1>1, <1>2, <1>3, <1>4, <1>5, <1>6 DEF ReadableCardNext

\* A whole number of goals was spent, one for each reward that was not free.
LEMMA GoalsSpent ==
  ASSUME NEW life \in Nat, NEW stamps \in Nat, NEW rewards \in Nat, NEW goal \in Nat,
         life - stamps = rewards * goal
  PROVE  (IF goal = 0 \/ life < stamps THEN 0 ELSE (life - stamps) \div goal)
           + (IF goal = 0 THEN rewards ELSE 0) = rewards
<1>1. CASE goal = 0 BY <1>1
<1>2. CASE goal # 0
  <2>1. rewards * goal >= 0 /\ rewards * goal \in Nat OBVIOUS
  <2>2. ~ life < stamps BY <2>1
  <2>3. (rewards * goal) \div goal = rewards BY <1>2
  <2> QED BY <1>2, <2>2, <2>3
<1> QED BY <1>1, <1>2

\* What migrating a card writes.
CardAfter(k, payer, rewards) == [k EXCEPT !.rent_payer = payer, !.rewards_earned = rewards]

LEMMA MigratedCard ==
  ASSUME NEW k \in LoyaltyCard, NEW payer \in Relayers, NEW rewards \in Nat
  PROVE  /\ CardAfter(k, payer, rewards) \in LoyaltyCard
         /\ CardAfter(k, payer, rewards).rent_payer = payer
         /\ CardAfter(k, payer, rewards).rewards_earned = rewards
<1> DEFINE k1 == [k EXCEPT !.rent_payer = payer]
<1>1. k1 \in LoyaltyCard /\ k1.rent_payer = payer BY DEF LoyaltyCard
<1> HIDE DEF k1
<1>2. /\ [k1 EXCEPT !.rewards_earned = rewards] \in LoyaltyCard
      /\ [k1 EXCEPT !.rewards_earned = rewards].rent_payer = payer
      /\ [k1 EXCEPT !.rewards_earned = rewards].rewards_earned = rewards
  BY <1>1 DEF LoyaltyCard
<1> QED BY <1>2 DEF k1, CardAfter

LEMMA MigrateCardWrites ==
  ASSUME MigrationTypeOK, NEW m \in Merchants, NEW c \in Customers, CardSafe(m, c),
         NEW relayer \in Signers, MigrateCard(m, c, relayer)
  PROVE  \E k \in LoyaltyCard :
           /\ card' = [card EXCEPT ![m][c] = k]
           /\ k.rewards_earned + free[m][c] = earned[m][c]
           /\ k.rent_payer = PayerAfter(m, c, relayer)
<1> DEFINE payer == PayerAfter(m, c, relayer)
           rewards == RewardsRebuilt(m, c)
           k == CardAfter(card[m][c], payer, rewards)
<1>1. /\ card[m][c] # NoAccount /\ card[m][c] \in LoyaltyCard /\ earned[m][c] \in Nat
      /\ ~CardReadable(m, c)
  BY AccountType DEF MigrateCard, MigrationTypeOK
<1>2. card' = [card EXCEPT ![m][c].rent_payer = payer, ![m][c].rewards_earned = rewards]
  BY DEF MigrateCard
<1>3. rewards \in Nat /\ rewards + free[m][c] = earned[m][c]
  <2> DEFINE life == card[m][c].lifetime_stamps
             stamps == card[m][c].stamps
             goal == card[m][c].stamps_required_snapshot
  <2>1. /\ life - stamps = earned[m][c] * goal
        /\ free[m][c] = IF goal = 0 THEN earned[m][c] ELSE 0
    BY <1>1 DEF CardSafe
  <2>2. life \in Nat /\ stamps \in Nat /\ goal \in Nat
    BY <1>1, LimitsAssumption DEF LoyaltyCard
  <2>3. rewards = IF goal = 0 \/ life < stamps THEN 0 ELSE (life - stamps) \div goal
    BY DEF RewardsRebuilt, GoalsIn
  <2> HIDE DEF life, stamps, goal, rewards
  <2>4. rewards \in Nat BY <2>2, <2>3
  <2>5. rewards + free[m][c] = earned[m][c] BY <1>1, <2>1, <2>2, <2>3, GoalsSpent
  <2> QED BY <2>4, <2>5
<1>4. payer \in Relayers
  <2>1. card[m][c].rent_payer \in Relayers BY <1>1 DEF LoyaltyCard
  <2>2. record[m][c] # NoAccount => record[m][c] \in Relayers
    <3>1. record[m][c] \in OldPayers \cup {NoAccount} BY DEF MigrationTypeOK
    <3> QED BY <3>1, OldAssumption
  <2> QED BY <2>1, <2>2, OldAssumption DEF PayerAfter
<1> HIDE DEF payer, rewards
<1>5. k \in LoyaltyCard /\ k.rent_payer = payer /\ k.rewards_earned = rewards
  BY <1>1, <1>3, <1>4, MigratedCard
<1>6. card' = [card EXCEPT ![m][c] = k] BY <1>2 DEF CardAfter, MigrationTypeOK, TypeOK
<1> HIDE DEF k
<1> QED BY <1>3, <1>5, <1>6 DEF payer

LEMMA MigrateCardKeeps ==
  ASSUME MigrationTypeOK, \A x \in Merchants, y \in Customers : CardSafe(x, y),
         NEW m \in Merchants, NEW c \in Customers, NEW relayer \in Signers,
         MigrateCard(m, c, relayer)
  PROVE  \A x \in Merchants, y \in Customers : CardKept(x, y)
<1>1. PICK k \in LoyaltyCard :
        /\ card' = [card EXCEPT ![m][c] = k]
        /\ k.rewards_earned + free[m][c] = earned[m][c]
        /\ k.rent_payer = PayerAfter(m, c, relayer)
  BY MigrateCardWrites
<1>2. /\ card'[m][c] = k /\ k # NoAccount
      /\ cardLayout'[m][c] = "current" /\ earned' = earned /\ free' = free
      /\ card[m][c] # NoAccount /\ cardLayout[m][c] \in {"V1", "V2"}
  <2>1. card'[m][c] = k /\ k # NoAccount
    BY <1>1, NoAccountAssumption DEF MigrationTypeOK, TypeOK
  <2>2. cardLayout'[m][c] = "current" /\ earned' = earned /\ free' = free
    BY DEF MigrateCard, MigrationTypeOK, rewardVars
  <2>3. card[m][c] # NoAccount /\ cardLayout[m][c] \in {"V1", "V2"}
    BY DEF MigrateCard, MigrationTypeOK, CardReadable
  <2> QED BY <2>1, <2>2, <2>3
<1>3. CardSafe(m, c)' BY <1>1, <1>2 DEF CardSafe, CardReadable
<1>4. KeepsPayer(m, c) BY <1>1, <1>2 DEF KeepsPayer, KnownPayer, PayerAfter
<1>5. ASSUME NEW x \in Merchants, NEW y \in Customers, x # m \/ y # c
      PROVE  CardKept(x, y)
  <2>1. card'[x][y] = card[x][y] BY <1>1, <1>5 DEF MigrationTypeOK, TypeOK
  <2>2. cardLayout'[x][y] = cardLayout[x][y] /\ record'[x][y] = record[x][y]
    BY <1>5 DEF MigrateCard, MigrationTypeOK
  <2> QED BY <1>2, <2>1, <2>2, CardUntouched
<1> QED BY <1>3, <1>4, <1>5 DEF CardKept

LEMMA StepKeepsCards ==
  ASSUME CardInv, [MigrationNext]_mvars
  PROVE  \A m \in Merchants, c \in Customers : CardKept(m, c)
<1> DEFINE Kept == \A x \in Merchants, y \in Customers : CardKept(x, y)
<1> SUFFICES Kept
  OBVIOUS
<1>0. /\ MigrationTypeOK /\ TypeOK
      /\ earned \in [Merchants -> [Customers -> Nat]]
      /\ free \in [Merchants -> [Customers -> Nat]]
      /\ \A x \in Merchants, y \in Customers : CardSafe(x, y)
  BY DEF CardInv, MigrationTypeOK
<1>1. ASSUME card' = card, UNCHANGED <<cardLayout, record, rewardVars>> PROVE Kept
  BY <1>0, <1>1, CardUntouched DEF rewardVars
<1>2. ASSUME NEW m \in Merchants, NEW relayer \in Signers, MigrateBusiness(m, relayer)
      PROVE  Kept
  BY <1>1, <1>2 DEF MigrateBusiness
<1>3. ASSUME NEW m \in Merchants, NEW relayer \in Signers, NEW c \in Customers,
             MigrateCard(m, c, relayer)
      PROVE  Kept
  BY <1>0, <1>3, MigrateCardKeeps
<1>4. ASSUME MigratesNothing, NEW m \in Merchants, ReadableShopNext(m) PROVE Kept
  <2>1. card' = card
    BY <1>4 DEF ReadableShopNext, RegisterBusiness, UpdateBusinessConfig, IssueReceipt,
                RedeemVoucher, CloseExpiredVoucher
  <2>2. UNCHANGED rewardVars BY <1>4 DEF ReadableShopNext
  <2> QED BY <1>1, <1>4, <2>1, <2>2 DEF MigratesNothing
<1>5. ASSUME MigratesNothing, NEW m \in Merchants, NEW c \in Customers,
             ReadableCardNext(m, c)
      PROVE  Kept
  BY <1>0, <1>5, ReadableCardKept
<1>6. ASSUME MigratesNothing, UnreadNext PROVE Kept
  <2>1. card' = card
    <3>1. ASSUME NEW m \in Merchants, NEW s \in Secrets, ReclaimExpiredReceipt(m, s)
          PROVE  card' = card
      BY <3>1 DEF ReclaimExpiredReceipt
    <3>2. ASSUME NEW m \in Merchants, NEW i \in VoucherIds, NEW w \in Customers,
                 \/ PresentVoucher(m, i, w)
                 \/ CancelPresentation(m, i, w)
                 \/ \E to \in Customers : TransferVoucher(m, i, w, to)
          PROVE  card' = card
      BY <3>2 DEF PresentVoucher, CancelPresentation, TransferVoucher
    <3>3. ASSUME NEW id \in cardHeld, WalletBurnsCardToken(id) PROVE card' = card
      BY <3>3 DEF WalletBurnsCardToken
    <3>4. CASE Tick BY <3>4 DEF Tick
    <3> QED BY <1>6, <3>1, <3>2, <3>3, <3>4 DEF UnreadNext
  <2>2. UNCHANGED rewardVars BY <1>6 DEF UnreadNext
  <2> QED BY <1>1, <1>6, <2>1, <2>2 DEF MigratesNothing
<1>7. CASE UNCHANGED mvars BY <1>1, <1>7 DEF mvars, vars
<1>8. ASSUME NEW m \in Merchants, CloseReadableShop(m) PROVE Kept
  BY <1>1, <1>8 DEF CloseReadableShop, CloseBusiness
<1> HIDE DEF Kept
<1> QED BY <1>2, <1>3, <1>4, <1>5, <1>6, <1>7, <1>8 DEF MigrationNext, MigratesNothing
-----------------------------------------------------------------------------
(* Every step keeps the cards' part.                                        *)

LEMMA EarnedType ==
  ASSUME MigrationTypeOK, MigrationNext
  PROVE  /\ earned' \in [Merchants -> [Customers -> Nat]]
         /\ free' \in [Merchants -> [Customers -> Nat]]
<1> DEFINE Counts == [Merchants -> [Customers -> Nat]]
<1>1. earned \in Counts /\ free \in Counts BY DEF MigrationTypeOK
<1>2. CASE UNCHANGED rewardVars BY <1>1, <1>2 DEF rewardVars
<1>3. ASSUME NEW f \in Counts, NEW m \in Merchants, NEW c \in Customers, NEW n \in Nat
      PROVE  [f EXCEPT ![m][c] = n] \in Counts
  OBVIOUS
<1>4. ASSUME NEW m \in Merchants, NEW c \in Customers, ReadableCardNext(m, c)
      PROVE  earned' \in Counts /\ free' \in Counts
  <2>1. earned[m][c] + 1 \in Nat BY <1>1
  <2>2. \/ UNCHANGED rewardVars
        \/ /\ earned' = [earned EXCEPT ![m][c] = 0]
           /\ free' = [free EXCEPT ![m][c] = 0]
        \/ earned' = [earned EXCEPT ![m][c] = earned[m][c] + 1] /\ free' = free
    BY <1>4 DEF ReadableCardNext
  <2> HIDE DEF Counts
  <2> QED BY <1>1, <1>3, <2>1, <2>2 DEF rewardVars
<1> HIDE DEF Counts
<1> QED
  BY <1>1, <1>2, <1>4
  DEF MigrationNext, MigrateBusiness, MigrateCard, CloseReadableShop, ReadableShopNext,
      UnreadNext, rewardVars, Counts

LEMMA MigrationType ==
  ASSUME CardInv, [MigrationNext]_mvars
  PROVE  MigrationTypeOK'
<1> USE DEF MigrationTypeOK
<1>0. MigrationTypeOK /\ TypeOK /\ \A m \in Merchants, c \in Customers : CardSafe(m, c)
  BY DEF CardInv
<1>1. ASSUME NEW m \in Merchants, NEW relayer \in Signers, MigrateBusiness(m, relayer)
      PROVE  MigrationTypeOK'
  <2> DEFINE b == Migrated(shop[m], relayer)
  <2>1. shop[m] \in Business /\ now \in Nat /\ relayer \in Relayers
    BY <1>0, <1>1, AccountType, OldAssumption DEF MigrateBusiness, TypeOK
  <2>2. b \in Business BY <2>1, MigratedFacts
  <2>3. shop' = [shop EXCEPT ![m] = b] BY <1>1 DEF MigrateBusiness
  <2> HIDE DEF b
  <2>4. shop' \in [Merchants -> Business \cup {NoAccount}] BY <1>0, <2>2, <2>3 DEF TypeOK
  <2>5. TypeOK' BY <1>0, <1>1, <2>4 DEF MigrateBusiness, cardNftVars, voucherVars, TypeOK
  <2> QED BY <1>0, <1>1, <2>5 DEF MigrateBusiness, rewardVars
<1>2. ASSUME NEW m \in Merchants, NEW c \in Customers, NEW relayer \in Signers,
             MigrateCard(m, c, relayer)
      PROVE  MigrationTypeOK'
  <2>0. CardSafe(m, c) BY <1>0
  <2>1. PICK k \in LoyaltyCard : /\ card' = [card EXCEPT ![m][c] = k]
                                 /\ k.rewards_earned + free[m][c] = earned[m][c]
                                 /\ k.rent_payer = PayerAfter(m, c, relayer)
    BY <1>0, <1>2, <2>0, MigrateCardWrites
  <2>2. card' \in [Merchants -> [Customers -> LoyaltyCard \cup {NoAccount}]]
    BY <1>0, <2>1 DEF TypeOK
  <2>3. TypeOK' BY <1>0, <1>2, <2>2 DEF MigrateCard, cardNftVars, voucherVars, TypeOK
  <2>4. cardLayout' \in [Merchants -> [Customers -> {"current", "V1", "V2"}]]
    BY <1>0, <1>2 DEF MigrateCard
  <2>5. record' \in [Merchants -> [Customers -> OldPayers \cup {NoAccount}]]
    BY <1>0, <1>2 DEF MigrateCard
  <2> QED BY <1>0, <1>2, <2>3, <2>4, <2>5 DEF MigrateCard, rewardVars
<1>3. ASSUME MigrationNext, Today PROVE MigrationTypeOK'
  <2>1. TypeOK' BY <1>0, <1>3, TodayIsNext, NextType
  <2>2. /\ earned' \in [Merchants -> [Customers -> Nat]]
        /\ free' \in [Merchants -> [Customers -> Nat]]
    BY <1>0, <1>3, EarnedType
  <2> QED BY <1>0, <1>3, <2>1, <2>2 DEF Today, MigratesNothing
<1>4. ASSUME NEW m \in Merchants, CloseReadableShop(m) PROVE MigrationTypeOK'
  <2>1. TypeOK' BY <1>0, <1>4, CloseIsNext, NextType
  <2>2. shopLayout' \in [Merchants -> {"current", "V1 short", "V1 long"}]
    BY <1>0, <1>4 DEF CloseReadableShop
  <2> QED BY <1>0, <1>4, <2>1, <2>2 DEF CloseReadableShop, rewardVars
<1>5. CASE UNCHANGED mvars
  <2>1. TypeOK' BY <1>0, <1>5, NextType DEF mvars
  <2> QED BY <1>0, <1>5, <2>1 DEF mvars, rewardVars
<1> QED BY <1>1, <1>2, <1>3, <1>4, <1>5, StepCases

LEMMA CardInvKept == CardInv /\ [MigrationNext]_mvars => CardInv'
BY MigrationType, StepKeepsCards DEF CardInv, CardKept
-----------------------------------------------------------------------------
(* And the books' part.                                                     *)

\* The books of a shop that a step does not touch.
LEMMA BooksSafeElsewhere ==
  ASSUME NEW x \in Merchants, BooksSafe(x), shop'[x] = shop[x],
         shopLayout'[x] = shopLayout[x], card' = card, voucher' = voucher
  PROVE  BooksSafe(x)'
<1>1. OpenCards(x)' = OpenCards(x) /\ LiveVouchers(x)' = LiveVouchers(x)
  BY DEF OpenCards, LiveVouchers
<1> QED BY <1>1, BooksSafeSame

LEMMA BooksInvKept == CardInv /\ BooksInv /\ [MigrationNext]_mvars => BooksInv'
<1> SUFFICES ASSUME CardInv, BooksInv, [MigrationNext]_mvars PROVE BooksInv'
  OBVIOUS
<1>0. /\ MigrationTypeOK /\ TypeOK /\ Sound /\ \A m \in Merchants : BooksSafe(m)
      /\ shopLayout \in [Merchants -> {"current", "V1 short", "V1 long"}]
  BY DEF CardInv, BooksInv, MigrationTypeOK
<1>1. ASSUME UNCHANGED <<voucher, voucherMint, voucherToken>> PROVE Sound'
  <2>1. \A m \in Merchants, i \in VoucherIds : Untouched(m, i) BY <1>1, VouchersUntouched
  <2> QED BY <1>0, <2>1, UntouchedSound DEF Sound
<1>2. ASSUME NEW m \in Merchants, NEW relayer \in Signers, MigrateBusiness(m, relayer)
      PROVE  BooksInv'
  <2>1. Sound' BY <1>1, <1>2 DEF MigrateBusiness, voucherVars
  <2>2. BooksSafe(m)' BY <1>0, <1>2, OldAssumption, MigrateKeepsBooks
  <2>3. /\ \A x \in Merchants \ {m} : shop'[x] = shop[x] /\ shopLayout'[x] = shopLayout[x]
        /\ card' = card /\ voucher' = voucher
    BY <1>0, <1>2 DEF MigrateBusiness, voucherVars, TypeOK
  <2>4. ASSUME NEW x \in Merchants, x # m PROVE BooksSafe(x)'
    BY <1>0, <2>3, <2>4, BooksSafeElsewhere
  <2> QED BY <2>1, <2>2, <2>4 DEF BooksInv
<1>3. ASSUME NEW m \in Merchants, NEW c \in Customers, NEW relayer \in Signers,
             MigrateCard(m, c, relayer)
      PROVE  BooksInv'
  <2>1. Sound' BY <1>1, <1>3 DEF MigrateCard, voucherVars
  <2>2. CardSafe(m, c) BY DEF CardInv
  <2>3. PICK k \in LoyaltyCard : /\ card' = [card EXCEPT ![m][c] = k]
                                 /\ k.rewards_earned + free[m][c] = earned[m][c]
                                 /\ k.rent_payer = PayerAfter(m, c, relayer)
    BY <1>0, <1>3, <2>2, MigrateCardWrites
  <2>4. \A x \in Merchants : OpenCards(x)' = OpenCards(x)
    <3>1. card[m][c] # NoAccount BY <1>3 DEF MigrateCard
    <3> QED BY <1>0, <2>3, <3>1, OpenCardsSame
  <2>5. ASSUME NEW x \in Merchants PROVE BooksSafe(x)'
    <3>1. shop'[x] = shop[x] /\ shopLayout'[x] = shopLayout[x]
      BY <1>3 DEF MigrateCard
    <3>2. LiveVouchers(x)' = LiveVouchers(x)
      BY <1>3 DEF MigrateCard, voucherVars, LiveVouchers
    <3> QED BY <1>0, <2>4, <3>1, <3>2, BooksSafeSame
  <2> QED BY <2>1, <2>5 DEF BooksInv
<1>4. ASSUME NEW m \in Merchants, CloseReadableShop(m) PROVE BooksInv'
  <2>1. Sound' BY <1>0, <1>4, CloseIsNext, NextSound
  <2>2. BooksSafe(m)' BY <1>0, <1>4, CloseKeepsBooks
  <2>3. /\ \A x \in Merchants \ {m} : shop'[x] = shop[x] /\ shopLayout'[x] = shopLayout[x]
        /\ card' = card /\ voucher' = voucher
    BY <1>0, <1>4 DEF CloseReadableShop, CloseBusiness, voucherVars, TypeOK
  <2>4. ASSUME NEW x \in Merchants, x # m PROVE BooksSafe(x)'
    BY <1>0, <2>3, <2>4, BooksSafeElsewhere
  <2> QED BY <2>1, <2>2, <2>4 DEF BooksInv
<1>5. CASE Today
  BY <1>0, <1>5, TodayIsNext, NextSound, TodayKeepsBooks DEF BooksInv
<1>6. CASE UNCHANGED mvars
  <2>1. Sound' BY <1>1, <1>6 DEF mvars, vars, voucherVars
  <2>2. ASSUME NEW x \in Merchants PROVE BooksSafe(x)'
    BY <1>0, <1>6, BooksSafeSame DEF mvars, vars, voucherVars, OpenCards, LiveVouchers
  <2> QED BY <2>1, <2>2 DEF BooksInv
<1> QED BY <1>2, <1>3, <1>4, <1>5, <1>6, StepCases
-----------------------------------------------------------------------------
(* The day of the upgrade.                                                  *)

IsOldBusiness(b, cards, issued, redeemed, payer) ==
  /\ b \in Business
  /\ b.total_cards = cards
  /\ b.total_vouchers_issued = issued
  /\ b.total_redemptions = redeemed
  /\ b.rent_payer = payer

LEMMA OldBusinessFacts ==
  ASSUME NEW stamps_required \in OldGoals, NEW ttl \in ReceiptTtls, NEW tail \in Tails,
         NEW cards \in Nat, NEW stamps \in Nat, NEW issued \in Nat, NEW redeemed \in Nat
  PROVE  IsOldBusiness(
           OldBusiness(stamps_required, ttl, cards, stamps, issued, redeemed, tail),
           cards, issued, redeemed, tail.payer)
<1> DEFINE b0 == NewBusiness(stamps_required, ttl, tail.date, tail.payer)
           b1 == [b0 EXCEPT !.total_cards = cards]
           b2 == [b1 EXCEPT !.total_stamps_issued = stamps]
           b3 == [b2 EXCEPT !.total_vouchers_issued = issued]
           b4 == [b3 EXCEPT !.total_redemptions = redeemed]
           b5 == [b4 EXCEPT !.open_cards = tail.cards]
<1>1. b5 = OldBusiness(stamps_required, ttl, cards, stamps, issued, redeemed, tail)
  BY DEF OldBusiness
<1>2. b0 \in Business /\ b0.rent_payer = tail.payer
  <2>1. stamps_required \in 0..U8Max /\ ttl \in Nat BY OldAssumption, ArgumentsAssumption
  <2>2. tail.date \in Nat /\ tail.payer \in Relayers BY OldAssumption DEF Tails
  <2>3. b0 \in Business BY <2>1, <2>2, NewBusinessType
  <2> QED BY <2>3 DEF NewBusiness
<1> HIDE DEF b0
<1>3. b1 \in Business /\ b1.total_cards = cards /\ b1.rent_payer = tail.payer
  BY <1>2, BusinessField DEF Business
<1> HIDE DEF b1
<1>4. b2 \in Business /\ b2.total_cards = cards /\ b2.rent_payer = tail.payer
  BY <1>3, BusinessField DEF Business
<1> HIDE DEF b2
<1>5. /\ b3 \in Business /\ b3.total_cards = cards /\ b3.rent_payer = tail.payer
      /\ b3.total_vouchers_issued = issued
  BY <1>4, BusinessField DEF Business
<1> HIDE DEF b3
<1>6. /\ b4 \in Business /\ b4.total_cards = cards /\ b4.rent_payer = tail.payer
      /\ b4.total_vouchers_issued = issued /\ b4.total_redemptions = redeemed
  BY <1>5, BusinessField DEF Business
<1> HIDE DEF b4
<1>7. tail.cards \in Nat BY OldAssumption DEF Tails
<1>8. /\ b5 \in Business /\ b5.total_cards = cards /\ b5.rent_payer = tail.payer
      /\ b5.total_vouchers_issued = issued /\ b5.total_redemptions = redeemed
  BY <1>6, <1>7, BusinessField DEF Business
<1> HIDE DEF b5
<1> QED BY <1>1, <1>8 DEF IsOldBusiness

LEMMA OldCardFacts ==
  ASSUME NEW o \in OldCards, NEW payer \in Relayers
  PROVE  LET k == OldCard(o.goal, o.stamps, o.rewards, payer) IN
         /\ k \in LoyaltyCard
         /\ k.lifetime_stamps - k.stamps = o.rewards * k.stamps_required_snapshot
         /\ k.stamps_required_snapshot = o.goal
         /\ o.rewards \in Nat
         /\ o.stamps + o.rewards * o.goal \in Nat
<1> DEFINE goal == o.goal
           stamps == o.stamps
           rewards == o.rewards
           life == stamps + rewards * goal
<1>1. /\ goal \in 0..U8Max /\ goal \in Nat
      /\ stamps \in 0..U8Max /\ stamps \in Nat
      /\ rewards \in Nat
  <2>1. o.goal \in OldGoals /\ o.stamps \in 0..U8Max /\ o.rewards \in 0..MaxVouchers
    BY DEF OldCards
  <2>2. goal \in 0..U8Max /\ stamps \in 0..U8Max BY <2>1, OldAssumption
  <2>3. U8Max \in Nat /\ MaxVouchers \in Nat BY WalletsAssumption, LimitsAssumption
  <2> HIDE DEF goal, stamps
  <2> QED BY <2>1, <2>2, <2>3
<1> HIDE DEF goal, stamps, rewards
<1>2. life \in Nat /\ life - stamps = rewards * goal
  <2>1. rewards * goal \in Nat BY <1>1
  <2> QED BY <1>1, <2>1
<1>3. Epoch \in Nat BY ClockAssumption
<1> DEFINE k == OldCard(goal, stamps, rewards, payer)
<1>4. k.lifetime_stamps = life /\ k.stamps = stamps /\ k.stamps_required_snapshot = goal
  BY DEF OldCard
<1>5. k \in LoyaltyCard
  <2>1. k = [stamps |-> stamps, last_stamp_ts |-> Epoch,
             claims_window_start |-> Epoch, claims_this_window |-> 1,
             lifetime_stamps |-> life, nft_cycle |-> 0,
             stamps_required_snapshot |-> goal,
             rent_payer |-> payer, rewards_earned |-> 0]
    BY DEF OldCard
  <2> HIDE DEF k, life
  <2> QED BY <1>1, <1>2, <1>3, <2>1 DEF LoyaltyCard
<1> HIDE DEF k, life
<1>6. k.lifetime_stamps - k.stamps = rewards * k.stamps_required_snapshot
  BY <1>2, <1>4
<1> QED BY <1>1, <1>2, <1>4, <1>5, <1>6 DEF k, goal, stamps, rewards, life

LEMMA VoucherIdsFinite == IsFiniteSet(VoucherIds)
BY WalletsAssumption, FS_Interval DEF VoucherIds

LEMMA RedeemedIsNat == \A r \in 0..MaxVouchers : r \in Nat
BY WalletsAssumption

LEMMA SameNat ==
  ASSUME NEW n \in Nat, NEW x, NEW y, x = n, y = n
  PROVE  x >= y
OBVIOUS

LEMMA AtMost ==
  ASSUME NEW r \in Nat, NEW live \in Nat, NEW n \in Nat, NEW issued \in Nat,
         live <= n, r + n <= issued
  PROVE  r + live <= issued
OBVIOUS

\* A voucher still out on the day of the upgrade, and its token.
OldVoucher(w, payer) ==
  [owner |-> w, rent_payer |-> payer, expires_at |-> Epoch + VoucherValidSeconds]
LiveToken == [EmptyToken EXCEPT !.amount = 1, !.closer = "voucher"]

LEMMA OldVoucherFacts ==
  ASSUME NEW w \in Customers, NEW payer \in OldPayers
  PROVE  OldVoucher(w, payer) \in Voucher /\ OldVoucher(w, payer) # NoAccount
<1>1. Epoch + VoucherValidSeconds \in Nat BY ClockAssumption, LimitsAssumption
<1>2. payer \in Relayers BY OldAssumption
<1>3. OldVoucher(w, payer) \in Voucher BY <1>1, <1>2 DEF OldVoucher, Voucher
<1> QED BY <1>3, NoAccountAssumption

LEMMA LiveTokenFacts ==
  LiveToken \in TokenAccount /\ Holds(LiveToken) /\ ~Frozen(LiveToken)
<1> DEFINE t == [EmptyToken EXCEPT !.amount = 1]
<1>1. LiveToken = [amount |-> 1, state |-> "Initialized", closer |-> "voucher"]
  <2>1. t = [amount |-> 1, state |-> "Initialized", closer |-> "owner"] BY DEF EmptyToken
  <2>2. LiveToken = [t EXCEPT !.closer = "voucher"] BY DEF LiveToken
  <2> HIDE DEF t
  <2> QED BY <2>1, <2>2
<1>2. LiveToken \in TokenAccount BY <1>1 DEF TokenAccount, Closers
<1>3. LiveToken # NoAccount BY <1>2, NoAccountAssumption
<1> QED BY <1>1, <1>2, <1>3 DEF Holds, Frozen

LEMMA UpgradeIsSafe ==
  ASSUME now = Epoch, receipt = [n \in Merchants |-> [s \in Secrets |-> NoAccount]],
         cardToken = cardMint, cardHeld = cardMint,
         NEW m \in Merchants, NEW layout \in {"V1 short", "V1 long"},
         NEW olds \in [OldCustomers -> OldCards \cup {NoAccount}],
         NEW ids \in SUBSET VoucherIds, NEW redeemed \in 0..MaxVouchers,
         NEW live \in [ids -> Customers],
         UpgradeOf(m, olds, layout, live, redeemed)
  PROVE  CardInv /\ (TailClean => BooksInv)
<1> DEFINE had == {c \in OldCustomers : olds[c] # NoAccount}
           rewards == [c \in had |-> olds[c].rewards]
           stamps == [c \in had |-> olds[c].stamps + olds[c].rewards * olds[c].goal]
           issued == SumFunction(rewards)
           lifetime == SumFunction(stamps)
           PayerOf(c) == IF olds[c].layout = "V1" THEN Blank ELSE olds[c].payer
           CardOf(c) == OldCard(olds[c].goal, olds[c].stamps, olds[c].rewards, PayerOf(c))
<1>1. PICK stamps_required \in OldGoals, ttl \in ReceiptTtls, tail \in Tails :
        shop = [n \in Merchants |-> IF n # m THEN NoAccount ELSE
          OldBusiness(stamps_required, ttl, Cardinality(had), lifetime, issued, redeemed, tail)]
  BY DEF UpgradeOf
<1>2. PICK payer \in OldPayers :
        voucher = [n \in Merchants |-> [i \in VoucherIds |->
          IF n # m \/ i \notin DOMAIN live THEN NoAccount ELSE
            OldVoucher(live[i], payer)]]
  BY DEF UpgradeOf, OldVoucher
<1>3. /\ redeemed + Cardinality(DOMAIN live) <= issued
      /\ shopLayout = [n \in Merchants |-> IF n = m THEN layout ELSE "current"]
      /\ card = [n \in Merchants |-> [c \in Customers |->
           IF n # m \/ c \notin had THEN NoAccount ELSE CardOf(c)]]
      /\ cardLayout = [n \in Merchants |-> [c \in Customers |->
           IF n # m \/ c \notin had THEN "current" ELSE olds[c].layout]]
      /\ record = [n \in Merchants |-> [c \in Customers |->
           IF n = m /\ c \in had /\ olds[c].recorded THEN olds[c].payer ELSE NoAccount]]
      /\ earned = [n \in Merchants |-> [c \in Customers |->
           IF n = m /\ c \in had THEN olds[c].rewards ELSE 0]]
      /\ free = [n \in Merchants |-> [c \in Customers |->
           IF n = m /\ c \in had /\ olds[c].goal = 0 THEN olds[c].rewards ELSE 0]]
  BY DEF UpgradeOf
<1>4. /\ cardMint = {<<m, c, 0>> : c \in {x \in had : olds[x].nft}}
      /\ voucherMint = {<<m, i>> : i \in DOMAIN live}
      /\ voucherToken = [n \in Merchants |-> [i \in VoucherIds |-> [w \in Customers |->
           IF n = m /\ i \in DOMAIN live /\ live[i] = w
           THEN LiveToken ELSE NoAccount]]]
  BY DEF UpgradeOf, LiveToken
<1>5. DOMAIN live = ids /\ \A i \in ids : live[i] \in Customers OBVIOUS
<1>6. had \subseteq Customers /\ \A c \in had : olds[c] \in OldCards BY OldAssumption
<1>7. ASSUME NEW c \in had
      PROVE  /\ CardOf(c) \in LoyaltyCard
             /\ CardOf(c).lifetime_stamps - CardOf(c).stamps
                  = olds[c].rewards * CardOf(c).stamps_required_snapshot
             /\ CardOf(c).stamps_required_snapshot = olds[c].goal
             /\ olds[c].rewards \in Nat
             /\ olds[c].stamps + olds[c].rewards * olds[c].goal \in Nat
             /\ olds[c].layout \in {"V1", "V2"}
             /\ olds[c].payer \in OldPayers
  <2>1. olds[c] \in OldCards BY <1>6
  <2>2. olds[c].layout \in {"V1", "V2"} /\ olds[c].payer \in OldPayers
    BY <2>1 DEF OldCards
  <2>3. PayerOf(c) \in Relayers BY <2>2, OldAssumption
  <2> HIDE DEF PayerOf
  <2> QED BY <2>1, <2>2, <2>3, OldCardFacts
<1> HIDE DEF CardOf
<1>8. IsFiniteSet(had) /\ Cardinality(had) \in Nat
  BY <1>6, WalletsAssumption, FS_Subset, FS_CardinalityType
<1>9. issued \in Nat /\ lifetime \in Nat
  <2>1. \A c \in had : rewards[c] \in Nat /\ stamps[c] \in Nat BY <1>7
  <2>2. DOMAIN rewards = had /\ DOMAIN stamps = had OBVIOUS
  <2> HIDE DEF rewards, stamps, had
  <2> QED BY <1>8, <2>1, <2>2, SumIsNat DEF SumFunction
<1> HIDE DEF had, rewards, stamps, issued, lifetime, PayerOf
<1> DEFINE b == OldBusiness(stamps_required, ttl, Cardinality(had), lifetime, issued,
                            redeemed, tail)
<1>10. IsOldBusiness(b, Cardinality(had), issued, redeemed, tail.payer)
  <2>1. redeemed \in Nat BY RedeemedIsNat
  <2> HIDE DEF b
  <2> QED BY <1>8, <1>9, <2>1, OldBusinessFacts DEF b
<1> HIDE DEF b
<1>11. shop = [n \in Merchants |-> IF n # m THEN NoAccount ELSE b] BY <1>1 DEF b
<1>12. LiveToken \in TokenAccount /\ Holds(LiveToken) /\ ~Frozen(LiveToken)
  BY LiveTokenFacts
<1>13. TypeOK
  <2>1. shop \in [Merchants -> Business \cup {NoAccount}] BY <1>10, <1>11 DEF IsOldBusiness
  <2>2. card \in [Merchants -> [Customers -> LoyaltyCard \cup {NoAccount}]] BY <1>3, <1>7
  <2>3. cardMint \subseteq Merchants \X Customers \X Nat
    <3> SUFFICES ASSUME NEW id \in cardMint PROVE id \in Merchants \X Customers \X Nat
      OBVIOUS
    <3>1. PICK c \in had : id = <<m, c, 0>> BY <1>4
    <3> QED BY <1>6, <3>1
  <2>4. voucher \in [Merchants -> [VoucherIds -> Voucher \cup {NoAccount}]]
    <3>3. \A i \in ids : OldVoucher(live[i], payer) \in Voucher BY <1>5, OldVoucherFacts
    <3> QED BY <1>2, <1>5, <3>3
  <2>5. voucherMint \subseteq Merchants \X VoucherIds
    <3> SUFFICES ASSUME NEW id \in voucherMint PROVE id \in Merchants \X VoucherIds
      OBVIOUS
    <3>1. PICK i \in ids : id = <<m, i>> BY <1>4, <1>5
    <3> QED BY <3>1
  <2>6. voucherToken \in
          [Merchants -> [VoucherIds -> [Customers -> TokenAccount \cup {NoAccount}]]]
    BY <1>4, <1>12
  <2>7. now \in Nat /\ receipt \in [Merchants -> [Secrets -> Receipt \cup {NoAccount}]]
    BY ClockAssumption
  <2> QED BY <2>1, <2>2, <2>3, <2>4, <2>5, <2>6, <2>7 DEF TypeOK
<1>14. MigrationTypeOK
  <2>1. shopLayout \in [Merchants -> {"current", "V1 short", "V1 long"}] BY <1>3
  <2>2. cardLayout \in [Merchants -> [Customers -> {"current", "V1", "V2"}]] BY <1>3, <1>7
  <2>3. record \in [Merchants -> [Customers -> OldPayers \cup {NoAccount}]] BY <1>3, <1>7
  <2>4. earned \in [Merchants -> [Customers -> Nat]] BY <1>3, <1>7
  <2>5. free \in [Merchants -> [Customers -> Nat]] BY <1>3, <1>7
  <2> QED BY <1>13, <2>1, <2>2, <2>3, <2>4, <2>5 DEF MigrationTypeOK
<1>15. Sound
  <2> SUFFICES ASSUME NEW n \in Merchants, NEW i \in VoucherIds PROVE VoucherSound(n, i)
    BY DEF Sound
  <2>1. CASE n = m /\ i \in ids
    <3>1. voucher[n][i] # NoAccount
      <4>1. voucher[n][i] = OldVoucher(live[i], payer) BY <1>2, <1>5, <2>1
      <4> QED BY <1>5, <2>1, <4>1, OldVoucherFacts
    <3>2. <<n, i>> \in voucherMint BY <1>4, <1>5, <2>1
    <3>3. \A w \in Customers : InHand(n, i, w) <=> live[i] = w
      BY <1>4, <1>5, <1>12, <2>1, NothingThere DEF InHand
    <3>4. \A w \in Customers : ~Shown(n, i, w)
      BY <1>4, <1>12, NothingThere DEF Shown
    <3> QED BY <3>1, <3>2, <3>3, <3>4 DEF VoucherSound
  <2>2. CASE ~ (n = m /\ i \in ids)
    <3>1. voucher[n][i] = NoAccount BY <1>2, <1>5, <2>2
    <3>2. <<n, i>> \notin voucherMint BY <1>4, <1>5, <2>2
    <3>3. \A w \in Customers : ~InHand(n, i, w) /\ ~Shown(n, i, w)
      BY <1>4, <1>5, <2>2, NothingThere DEF InHand, Shown
    <3> QED BY <3>1, <3>2, <3>3 DEF VoucherSound
  <2> QED BY <2>1, <2>2
<1>16. ASSUME TailClean, NEW n \in Merchants PROVE BooksSafe(n)
  <2>1. CASE n # m
    <3>1. shop[n] = NoAccount /\ shopLayout[n] = "current" BY <1>3, <1>11, <2>1
    <3>2. OpenCards(n) = {} BY <1>3, <2>1 DEF OpenCards
    <3>3. LiveVouchers(n) = {} BY <1>2, <2>1 DEF LiveVouchers
    <3> QED BY <3>1, <3>2, <3>3 DEF BooksSafe
  <2>2. CASE n = m
    <3>1. shop[m] = b /\ b # NoAccount /\ shopLayout[m] # "current"
      BY <1>3, <1>10, <1>11, NoAccountAssumption DEF IsOldBusiness
    <3>2. OpenCards(m) = had
      <4>1. \A c \in Customers : card[m][c] = IF c \in had THEN CardOf(c) ELSE NoAccount
        BY <1>3
      <4> QED BY <1>6, <1>7, <4>1, NoAccountAssumption DEF OpenCards
    <3>3. LiveVouchers(m) \subseteq ids BY <1>2, <1>5 DEF LiveVouchers
    <3>4. /\ IsFiniteSet(ids) /\ Cardinality(ids) \in Nat
          /\ Cardinality(LiveVouchers(m)) \in Nat
          /\ Cardinality(LiveVouchers(m)) <= Cardinality(ids)
      <4>1. IsFiniteSet(VoucherIds) BY VoucherIdsFinite
      <4>2. IsFiniteSet(ids) BY <4>1, FS_Subset
      <4> QED BY <3>3, <4>2, FS_Subset, FS_CardinalityType
    <3>5. redeemed + Cardinality(LiveVouchers(m)) <= issued
      <4>1. redeemed + Cardinality(ids) <= issued BY <1>3, <1>5
      <4>2. redeemed \in Nat BY RedeemedIsNat
      <4> QED BY <1>9, <3>4, <4>1, <4>2, AtMost
    <3>6. b.total_cards >= Cardinality(OpenCards(m))
      <4>1. b.total_cards = Cardinality(had) BY <1>10 DEF IsOldBusiness
      <4>2. Cardinality(OpenCards(m)) = Cardinality(had) BY <3>2
      <4> QED BY <1>8, <4>1, <4>2, SameNat
    <3>7. b.rent_payer = Blank
      BY <1>10, <1>16 DEF IsOldBusiness, TailClean, Tails
    <3> QED BY <1>10, <2>2, <3>1, <3>5, <3>6, <3>7 DEF BooksSafe, IsOldBusiness
  <2> QED BY <2>1, <2>2
<1>17. ASSUME NEW n \in Merchants, NEW c \in Customers PROVE CardSafe(n, c)
  <2>1. CASE n = m /\ c \in had
    <3>1. /\ card[n][c] = CardOf(c) /\ cardLayout[n][c] = olds[c].layout
          /\ earned[n][c] = olds[c].rewards
          /\ free[n][c] = IF olds[c].goal = 0 THEN olds[c].rewards ELSE 0
      BY <1>3, <1>6, <2>1
    <3>2. card[n][c] # NoAccount /\ ~CardReadable(n, c)
      BY <1>7, <2>1, <3>1, NoAccountAssumption DEF CardReadable
    <3> QED BY <1>7, <2>1, <3>1, <3>2 DEF CardSafe
  <2>2. CASE ~ (n = m /\ c \in had)
    <3>1. /\ card[n][c] = NoAccount /\ cardLayout[n][c] = "current"
          /\ earned[n][c] = 0 /\ free[n][c] = 0
      BY <1>3, <2>2
    <3> QED BY <3>1 DEF CardSafe, CardReadable
  <2> QED BY <2>1, <2>2
<1> QED BY <1>14, <1>15, <1>16, <1>17 DEF CardInv, BooksInv

LEMMA InitIsSafe == MigrationInit => CardInv /\ (TailClean => BooksInv)
BY UpgradeIsSafe DEF MigrationInit

LEMMA CardsAlwaysSafe == MigrationSpec => []CardInv
BY InitIsSafe, CardInvKept, PTL DEF MigrationSpec

LEMMA BooksAlwaysSafe == ASSUME TailClean PROVE MigrationSpec => []BooksInv
<1>1. MigrationInit => BooksInv BY InitIsSafe
<1> QED BY <1>1, CardsAlwaysSafe, BooksInvKept, PTL DEF MigrationSpec

\* Accounts of old and of today's layouts stay what they are, whatever goals the
\* old ones have and whatever the fields an old shop lacks read as.
THEOREM MigrationTypeCorrect == MigrationSpec => []MigrationTypeOK
BY CardsAlwaysSafe, CardInvMeans, PTL

\* From its migration on a shop's counters say at least what is open, whatever
\* was opened, stamped, cashed in, redeemed and swept before anybody migrated
\* it: so it cannot close on anyone.  Until then what keeps it is its rent payer
\* reading as blank, which a reward label made shorter could end.
THEOREM RebuiltCountersCover == ASSUME TailClean PROVE MigrationSpec => []CountersNeverUnderstate
BY BooksAlwaysSafe, BooksInvMeans, PTL

\* And it does not: as long as old shops' rent payers read as blank, through an
\* upgrade, too, no card and no voucher is left of a shop that has closed.
THEOREM UpgradeOrphansNobody == ASSUME TailClean PROVE MigrationSpec => []NoOrphans
BY BooksAlwaysSafe, BooksInvMeans, PTL

\* A card that can be read says how many rewards it has really finished, except
\* for exactly those an old goal of zero gave away: an old card's spent stamps
\* still say so when somebody migrates it, and say nothing of the others.
THEOREM RewardsStayRemembered == MigrationSpec => []RewardsRemembered
BY CardsAlwaysSafe, CardInvMeans, PTL

\* Whoever migrates a card or a shop, the wallet known as a card's rent payer
\* stays the one.
THEOREM PayersStay == MigrationSpec => PayerStays
<1>1. CardInv /\ [MigrationNext]_mvars
        => [\A m \in Merchants : \A c \in OpenCards(m) : KeepsPayer(m, c)]_mvars
  BY StepKeepsCards DEF CardKept, OpenCards
<1> QED BY <1>1, CardsAlwaysSafe, PTL DEF MigrationSpec, PayerStays
=============================================================================
