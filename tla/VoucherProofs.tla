--------------------------- MODULE VoucherProofs ---------------------------
(***************************************************************************)
(* What holders and merchants may rely on, for any number of shops,        *)
(* customers and vouchers and any limits: a voucher is one token in at     *)
(* most one hand, it ends fairly, stays put while it is presented, and the *)
(* next one can always be given out.                                       *)
(*                                                                         *)
(* The argument has two halves.  StepIsEvent says what any step of the     *)
(* program, a wallet or the clock comes to for a voucher and for a shop's  *)
(* books; the theorems then speak of events only.                          *)
(***************************************************************************)
EXTENDS LoyaltyProofs

-----------------------------------------------------------------------------
(* What the token program's operations say about who holds what.           *)

LEMMA NothingThere == ~Holds(NoAccount) /\ ~Frozen(NoAccount)
BY DEF Holds, Frozen

LEMMA TokenFacts ==
  ASSUME NEW t \in TokenAccount
  PROVE  /\ Holds(Presented(t)) <=> Holds(t)
         /\ Frozen(Presented(t))
         /\ Holds(Thawed(t)) <=> Holds(t)
         /\ ~Frozen(Thawed(t))
         /\ ~Holds(Debited(t))
         /\ Frozen(Debited(t)) <=> Frozen(t)
         /\ Holds([t EXCEPT !.closer = "other"]) <=> Holds(t)
         /\ Frozen([t EXCEPT !.closer = "other"]) <=> Frozen(t)
<1>0. /\ t # NoAccount /\ Presented(t) # NoAccount /\ Thawed(t) # NoAccount
      /\ Debited(t) # NoAccount /\ [t EXCEPT !.closer = "other"] # NoAccount
  BY TokenType, NoAccountAssumption
<1>1. /\ Presented(t).amount = t.amount
      /\ Presented(t).state = "Frozen"
  BY DEF Presented, TokenAccount
<1>2. /\ Thawed(t).amount = t.amount
      /\ Thawed(t).state = "Initialized"
  BY DEF Thawed, TokenAccount
<1>3. /\ Debited(t).amount = 0
      /\ Debited(t).state = t.state
  BY DEF Debited, TokenAccount
<1>4. /\ [t EXCEPT !.closer = "other"].amount = t.amount
      /\ [t EXCEPT !.closer = "other"].state = t.state
  BY DEF TokenAccount
<1> QED BY <1>0, <1>1, <1>2, <1>3, <1>4 DEF Holds, Frozen

LEMMA CreditedFacts ==
  ASSUME NEW t \in TokenAccount \cup {NoAccount}
  PROVE  Holds(Credited(t)) /\ (Frozen(Credited(t)) <=> Frozen(t))
<1>0. Credited(t) # NoAccount BY CreditedType, NoAccountAssumption
<1>1. CASE t = NoAccount
  <2>1. Credited(t).amount = 1 /\ Credited(t).state = "Initialized"
    BY <1>1 DEF Credited, EmptyToken
  <2> QED BY <1>0, <1>1, <2>1 DEF Holds, Frozen
<1>2. CASE t # NoAccount
  <2>1. Credited(t).amount = 1 /\ Credited(t).state = t.state
    BY <1>2 DEF Credited, TokenAccount
  <2> QED BY <1>0, <1>2, <2>1 DEF Holds, Frozen
<1> QED BY <1>1, <1>2

\* An account emptied and, if the program may, closed.
LEMMA ClosedFacts ==
  ASSUME NEW t \in TokenAccount, NEW authorities
  PROVE  ~Holds(ClosedBy(t, authorities)) /\ ~Frozen(ClosedBy(t, authorities))
<1>1. Debited(t) \in TokenAccount /\ ~Holds(Debited(t)) BY TokenType, TokenFacts
<1>2. ~Holds(Thawed(Debited(t))) /\ ~Frozen(Thawed(Debited(t))) BY <1>1, TokenFacts
<1> QED BY <1>2, NothingThere DEF ClosedBy

\* Writing one token account of one voucher concerns no other.
LEMMA RowWrite ==
  ASSUME TypeOK, NEW m \in Merchants, NEW i \in VoucherIds, NEW w \in Customers, NEW x,
         voucherToken' = [voucherToken EXCEPT ![m][i][w] = x]
  PROVE  /\ voucherToken'[m][i][w] = x
         /\ \A y \in Customers \ {w} : voucherToken'[m][i][y] = voucherToken[m][i][y]
         /\ \A n \in Merchants, j \in VoucherIds :
              n # m \/ j # i => voucherToken'[n][j] = voucherToken[n][j]
BY DEF TypeOK

RowMoved(m, i, w, to, x, y) == [voucherToken EXCEPT ![m][i][w] = x, ![m][i][to] = y]

LEMMA RowMove ==
  ASSUME TypeOK, NEW m \in Merchants, NEW i \in VoucherIds,
         NEW w \in Customers, NEW to \in Customers \ {w}, NEW x, NEW y,
         voucherToken' = RowMoved(m, i, w, to, x, y)
  PROVE  /\ voucherToken'[m][i][w] = x /\ voucherToken'[m][i][to] = y
         /\ \A z \in Customers \ {w, to} : voucherToken'[m][i][z] = voucherToken[m][i][z]
         /\ \A n \in Merchants, j \in VoucherIds :
              n # m \/ j # i => voucherToken'[n][j] = voucherToken[n][j]
<1> DEFINE one == [voucherToken EXCEPT ![m][i][w] = x]
<1>1. voucherToken' = [one EXCEPT ![m][i][to] = y] BY DEF RowMoved
<1>2. one[m][i][w] = x /\ \A z \in Customers \ {w} : one[m][i][z] = voucherToken[m][i][z]
  BY DEF TypeOK
<1>3. \A n \in Merchants, j \in VoucherIds :
        n # m \/ j # i => one[n][j] = voucherToken[n][j]
  BY DEF TypeOK
<1>4. /\ DOMAIN one = Merchants /\ DOMAIN one[m] = VoucherIds
      /\ DOMAIN one[m][i] = Customers
  BY DEF TypeOK
<1> HIDE DEF one
<1>5. voucherToken'[m][i][to] = y
      /\ \A z \in Customers \ {to} : voucherToken'[m][i][z] = one[m][i][z]
  BY <1>1, <1>4
<1>6. \A n \in Merchants, j \in VoucherIds :
        n # m \/ j # i => voucherToken'[n][j] = one[n][j]
  BY <1>1, <1>4
<1>7. voucherToken'[m][i][w] = x
      /\ \A z \in Customers \ {w, to} : voucherToken'[m][i][z] = voucherToken[m][i][z]
  BY <1>2, <1>5
<1>8. ASSUME NEW n \in Merchants, NEW j \in VoucherIds, n # m \/ j # i
      PROVE  voucherToken'[n][j] = voucherToken[n][j]
  <2>1. one[n][j] = voucherToken[n][j] BY <1>3, <1>8
  <2>2. voucherToken'[n][j] = one[n][j] BY <1>6, <1>8
  <2> QED BY <2>1, <2>2
<1>9. voucherToken'[m][i][to] = y BY <1>5
<1> QED BY <1>7, <1>8, <1>9
-----------------------------------------------------------------------------
(* What a step may do to a voucher and to a shop's books.                  *)

InHand(m, i, w) == Holds(voucherToken[m][i][w])
Shown(m, i, w)  == Frozen(voucherToken[m][i][w])

\* Wallet w has of the voucher what it had; a presented token is as it was.
SameInHand(m, i, w) ==
  /\ InHand(m, i, w)' <=> InHand(m, i, w)
  /\ Shown(m, i, w)' <=> Shown(m, i, w)
  /\ InHand(m, i, w) /\ Shown(m, i, w) => voucherToken'[m][i][w] = voucherToken[m][i][w]

\* The voucher and its mint are there as before, good until the same time.
SameVoucher(m, i) ==
  /\ voucher'[m][i] = NoAccount <=> voucher[m][i] = NoAccount
  /\ voucher[m][i] # NoAccount => voucher'[m][i].expires_at = voucher[m][i].expires_at
  /\ <<m, i>> \in voucherMint' <=> <<m, i>> \in voucherMint

Untouched(m, i) ==
  SameVoucher(m, i) /\ \A w \in Customers : SameInHand(m, i, w)

\* Nothing a voucher depends on changes in shop m's books.
SameBooks(m) ==
  /\ shop'[m] = NoAccount <=> shop[m] = NoAccount
  /\ shop[m] # NoAccount =>
       /\ shop'[m].total_redemptions = shop[m].total_redemptions
       /\ shop'[m].total_vouchers_issued = shop[m].total_vouchers_issued
       /\ shop'[m].open_vouchers = shop[m].open_vouchers

\* Shop m's voucher i is cashed in for by customer w.
IsGiven(m, i, w) ==
  /\ shop[m] # NoAccount /\ i = shop[m].total_vouchers_issued
  /\ shop'[m] # NoAccount
  /\ shop'[m].total_redemptions = shop[m].total_redemptions
  /\ shop'[m].total_vouchers_issued = i + 1
  /\ shop'[m].open_vouchers = shop[m].open_vouchers + 1
  /\ voucher[m][i] = NoAccount /\ voucher'[m][i] # NoAccount
  /\ voucher'[m][i].expires_at = now + VoucherValidSeconds
  /\ <<m, i>> \in voucherMint'
  /\ InHand(m, i, w)' /\ ~Shown(m, i, w)'

IsShown(m, i, w) ==
  /\ SameBooks(m) /\ SameVoucher(m, i)
  /\ VoucherLive(m, i) /\ Usable(m, i)
  /\ InHand(m, i, w) /\ ~Shown(m, i, w)
  /\ InHand(m, i, w)' /\ Shown(m, i, w)'

IsTakenBack(m, i, w) ==
  /\ SameBooks(m) /\ SameVoucher(m, i)
  /\ VoucherLive(m, i)
  /\ InHand(m, i, w) /\ Shown(m, i, w)
  /\ InHand(m, i, w)' /\ ~Shown(m, i, w)'
  /\ voucherToken'[m][i][w] = Thawed(voucherToken[m][i][w])

IsLost(m, i, w) ==
  /\ SameBooks(m) /\ SameVoucher(m, i)
  /\ InHand(m, i, w) /\ ~Shown(m, i, w)
  /\ ~InHand(m, i, w)' /\ ~Shown(m, i, w)'

IsHandedOn(m, i, w, to) ==
  /\ IsLost(m, i, w)
  /\ to # w /\ InHand(m, i, to)' /\ (Shown(m, i, to)' <=> Shown(m, i, to))

\* The voucher ends, and with it its mint and what wallet w had of it.
Ends(m, i, w) ==
  /\ shop[m] # NoAccount /\ shop'[m] # NoAccount
  /\ shop'[m].total_vouchers_issued = shop[m].total_vouchers_issued
  /\ shop'[m].open_vouchers =
       IF shop[m].open_vouchers = 0 THEN 0 ELSE shop[m].open_vouchers - 1
  /\ VoucherLive(m, i)
  /\ voucher'[m][i] = NoAccount /\ <<m, i>> \notin voucherMint'
  /\ ~InHand(m, i, w)' /\ ~Shown(m, i, w)'

IsHonoured(m, i, w) ==
  /\ Ends(m, i, w)
  /\ Usable(m, i) /\ InHand(m, i, w) /\ Shown(m, i, w)
  /\ shop'[m].total_redemptions = shop[m].total_redemptions + 1

IsSwept(m, i, w) ==
  /\ Ends(m, i, w)
  /\ Expired(m, i) /\ Holders(m, i) \subseteq {w}
  /\ shop'[m].total_redemptions = shop[m].total_redemptions

IsOpened(m) ==
  /\ shop[m] = NoAccount
  /\ shop'[m] # NoAccount
  /\ shop'[m].total_redemptions = 0
  /\ shop'[m].total_vouchers_issued = 0
  /\ shop'[m].open_vouchers = 0

IsLeft(m) ==
  /\ shop[m] # NoAccount /\ shop[m].open_vouchers = 0
  /\ shop'[m] = NoAccount

\* Something happens to one voucher, in the hands of one wallet or two.
VoucherEvent(m, i, w) ==
  \/ /\ \A y \in Customers \ {w} : SameInHand(m, i, y)
     /\ \/ IsGiven(m, i, w)
        \/ IsShown(m, i, w)
        \/ IsTakenBack(m, i, w)
        \/ IsLost(m, i, w)
        \/ IsHonoured(m, i, w)
        \/ IsSwept(m, i, w)
  \/ \E to \in Customers :
       /\ \A y \in Customers \ {w, to} : SameInHand(m, i, y)
       /\ IsHandedOn(m, i, w, to)

OthersUntouched(m, i) ==
  /\ \A n \in Merchants \ {m} : SameBooks(n)
  /\ \A n \in Merchants, j \in VoucherIds : n # m \/ j # i => Untouched(n, j)

\* Time may pass, but then that is all.
Quiet ==
  /\ now' = now \/ now' = now + 1
  /\ \A m \in Merchants : SameBooks(m)
  /\ \A m \in Merchants, i \in VoucherIds : Untouched(m, i)

ShopEvent(m) ==
  /\ IsOpened(m) \/ IsLeft(m)
  /\ now' = now
  /\ \A n \in Merchants \ {m} : SameBooks(n)
  /\ \A n \in Merchants, i \in VoucherIds : Untouched(n, i)

Event ==
  \/ Quiet
  \/ \E m \in Merchants : ShopEvent(m)
  \/ \E m \in Merchants, i \in VoucherIds, w \in Customers :
       now' = now /\ VoucherEvent(m, i, w) /\ OthersUntouched(m, i)
-----------------------------------------------------------------------------
(* Every step is an event.  First the shop's books.                        *)

SameFigures(b, bb) ==
  /\ bb.total_redemptions = b.total_redemptions
  /\ bb.total_vouchers_issued = b.total_vouchers_issued
  /\ bb.open_vouchers = b.open_vouchers

LEMMA FigureWrites ==
  ASSUME NEW b \in Business
  PROVE  /\ \A lock, stamps, ttl :
              SameFigures(b, [b EXCEPT !.terms_locked_until = lock,
                                       !.stamps_required = stamps,
                                       !.receipt_ttl_seconds = ttl])
         /\ SameFigures(b, [HourlyWindow(b) EXCEPT !.receipts_this_window = @ + 1])
         /\ \A opening : SameFigures(b, CountStamp(b, opening))
         /\ SameFigures(b, CountClosedCard(b))
<1>1. \A lock, stamps, ttl :
        SameFigures(b, [b EXCEPT !.terms_locked_until = lock,
                                 !.stamps_required = stamps,
                                 !.receipt_ttl_seconds = ttl])
  BY DEF SameFigures, Business
<1>2. SameFigures(b, [HourlyWindow(b) EXCEPT !.receipts_this_window = @ + 1])
  BY DEF SameFigures, HourlyWindow, Business
<1>3. \A opening : SameFigures(b, CountStamp(b, opening))
  BY DEF SameFigures, CountStamp, Business
<1>4. SameFigures(b, CountClosedCard(b))
  BY DEF SameFigures, CountClosedCard, Business
<1> QED BY <1>1, <1>2, <1>3, <1>4

LEMMA VoucherFigureWrites ==
  ASSUME NEW b \in Business
  PROVE  /\ CountMinted(b).total_redemptions = b.total_redemptions
         /\ CountMinted(b).total_vouchers_issued = b.total_vouchers_issued + 1
         /\ CountMinted(b).open_vouchers = b.open_vouchers + 1
         /\ CountClosedVoucher(b).total_redemptions = b.total_redemptions
         /\ CountClosedVoucher(b).total_vouchers_issued = b.total_vouchers_issued
         /\ CountClosedVoucher(b).open_vouchers =
              IF b.open_vouchers = 0 THEN 0 ELSE b.open_vouchers - 1
         /\ CountRedeemed(b).total_redemptions = b.total_redemptions + 1
         /\ CountRedeemed(b).total_vouchers_issued = b.total_vouchers_issued
         /\ CountRedeemed(b).open_vouchers =
              IF b.open_vouchers = 0 THEN 0 ELSE b.open_vouchers - 1
<1> DEFINE bb == CountClosedVoucher(b)
<1>1. /\ CountMinted(b).total_redemptions = b.total_redemptions
      /\ CountMinted(b).total_vouchers_issued = b.total_vouchers_issued + 1
      /\ CountMinted(b).open_vouchers = b.open_vouchers + 1
  BY DEF CountMinted, Business
<1>2. /\ bb.total_redemptions = b.total_redemptions
      /\ bb.total_vouchers_issued = b.total_vouchers_issued
      /\ bb.open_vouchers = IF b.open_vouchers = 0 THEN 0 ELSE b.open_vouchers - 1
  BY DEF CountClosedVoucher, Business
<1>3. bb \in Business BY CountersType
<1> HIDE DEF bb
<1>4. /\ [bb EXCEPT !.total_redemptions = @ + 1].total_redemptions = bb.total_redemptions + 1
      /\ [bb EXCEPT !.total_redemptions = @ + 1].total_vouchers_issued
           = bb.total_vouchers_issued
      /\ [bb EXCEPT !.total_redemptions = @ + 1].open_vouchers = bb.open_vouchers
  BY <1>3 DEF Business
<1>5. CountRedeemed(b) = [bb EXCEPT !.total_redemptions = @ + 1]
  BY DEF CountRedeemed, bb
<1> QED BY <1>1, <1>2, <1>4, <1>5 DEF bb

LEMMA BooksUnchanged ==
  ASSUME shop' = shop
  PROVE  \A m \in Merchants : SameBooks(m)
BY DEF SameBooks

\* One shop's account is written, and no figure of a voucher in it.
LEMMA BooksWritten ==
  ASSUME TypeOK, NEW m \in Merchants, shop[m] # NoAccount,
         NEW b \in Business, SameFigures(shop[m], b), shop' = [shop EXCEPT ![m] = b]
  PROVE  \A n \in Merchants : SameBooks(n)
<1>1. shop'[m] = b /\ \A n \in Merchants : n # m => shop'[n] = shop[n] BY DEF TypeOK
<1>2. SameBooks(m) BY <1>1, NoAccountAssumption DEF SameBooks, SameFigures
<1>3. ASSUME NEW n \in Merchants, n # m PROVE SameBooks(n) BY <1>1, <1>3 DEF SameBooks
<1> QED BY <1>2, <1>3

LEMMA OtherBooks ==
  ASSUME TypeOK, NEW m \in Merchants, NEW b, shop' = [shop EXCEPT ![m] = b]
  PROVE  shop'[m] = b /\ \A n \in Merchants \ {m} : SameBooks(n)
BY DEF TypeOK, SameBooks

LEMMA VouchersUntouched ==
  ASSUME UNCHANGED <<voucher, voucherMint, voucherToken>>
  PROVE  \A m \in Merchants, i \in VoucherIds : Untouched(m, i)
BY DEF Untouched, SameVoucher, SameInHand, InHand, Shown
-----------------------------------------------------------------------------
\* The steps that concern no voucher.
LEMMA ShopIsEvent ==
  ASSUME TypeOK, ShopNext
  PROVE  Event
<1> USE DEF voucherVars
<1>0. ASSUME NEW m \in Merchants, ShopEvent(m) PROVE Event BY <1>0 DEF Event
<1>1. ASSUME NEW m \in Merchants, NEW stamps \in StampGoals, NEW ttl \in ReceiptTtls,
             NEW lock \in LockDates, NEW relayer \in Relayers,
             RegisterBusiness(m, stamps, ttl, lock, relayer)
      PROVE  Event
  <2> DEFINE b == NewBusiness(stamps, ttl, lock, relayer)
  <2>1. /\ shop[m] = NoAccount /\ now' = now
        /\ shop' = [shop EXCEPT ![m] = b]
        /\ UNCHANGED <<voucher, voucherMint, voucherToken>>
    BY <1>1 DEF RegisterBusiness
  <2>2. b \in Business BY <1>1, SettingsFit, NewBusinessType, ArgumentsAssumption DEF RegisterBusiness
  <2>3. b.total_redemptions = 0 /\ b.total_vouchers_issued = 0 /\ b.open_vouchers = 0
    BY DEF NewBusiness
  <2> HIDE DEF b
  <2>4. shop'[m] = b /\ \A n \in Merchants \ {m} : SameBooks(n) BY <2>1, OtherBooks
  <2>5. IsOpened(m) BY <2>1, <2>2, <2>3, <2>4, NoAccountAssumption DEF IsOpened
  <2> QED BY <1>0, <2>1, <2>4, <2>5, VouchersUntouched DEF ShopEvent
<1>2. ASSUME NEW m \in Merchants, NEW stamps \in StampGoals, NEW ttl \in ReceiptTtls,
             NEW lock \in LockDates, UpdateBusinessConfig(m, stamps, ttl, lock)
      PROVE  Event
  <2> DEFINE b == [shop[m] EXCEPT !.terms_locked_until = lock,
                                  !.stamps_required = stamps,
                                  !.receipt_ttl_seconds = ttl]
  <2>1. shop[m] # NoAccount /\ shop[m] \in Business
    BY <1>2, AccountType DEF UpdateBusinessConfig, UpdateAllowed
  <2>2. stamps \in 0..U8Max
    BY <1>2, SettingsFit DEF UpdateBusinessConfig, UpdateAllowed
  <2>3. b \in Business BY <2>1, <2>2, ArgumentsAssumption, NewTermsType
  <2>4. SameFigures(shop[m], b) BY <2>1, FigureWrites
  <2>5. /\ shop' = [shop EXCEPT ![m] = b] /\ now' = now
        /\ UNCHANGED <<voucher, voucherMint, voucherToken>>
    BY <1>2 DEF UpdateBusinessConfig
  <2> HIDE DEF b
  <2>6. \A n \in Merchants : SameBooks(n) BY <2>1, <2>3, <2>4, <2>5, BooksWritten
  <2> QED BY <2>5, <2>6, VouchersUntouched DEF Event, Quiet
<1>3. ASSUME NEW m \in Merchants, CloseBusiness(m) PROVE Event
  <2>1. /\ shop[m] # NoAccount /\ shop[m].open_vouchers = 0 /\ now' = now
        /\ shop' = [shop EXCEPT ![m] = NoAccount]
        /\ UNCHANGED <<voucher, voucherMint, voucherToken>>
    BY <1>3 DEF CloseBusiness, MayClose
  <2>2. shop'[m] = NoAccount /\ \A n \in Merchants \ {m} : SameBooks(n) BY <2>1, OtherBooks
  <2> QED BY <1>0, <2>1, <2>2, VouchersUntouched DEF ShopEvent, IsLeft
<1> QED BY <1>1, <1>2, <1>3 DEF ShopNext

LEMMA ReceiptIsEvent ==
  ASSUME TypeOK, ReceiptNext
  PROVE  Event
<1> USE DEF voucherVars
<1>0. now \in Nat BY DEF TypeOK
<1>1. ASSUME NEW m \in Merchants, NEW s \in Secrets, NEW relayer \in Relayers,
             IssueReceipt(m, s, relayer)
      PROVE  Event
  <2> DEFINE b == [HourlyWindow(shop[m]) EXCEPT !.receipts_this_window = @ + 1]
  <2>1. shop[m] # NoAccount /\ shop[m] \in Business BY <1>1, AccountType DEF IssueReceipt
  <2>2. b \in Business /\ SameFigures(shop[m], b)
    BY <1>0, <2>1, HourlyWindowType, FigureWrites
  <2>3. /\ shop' = [shop EXCEPT ![m] = b] /\ now' = now
        /\ UNCHANGED <<voucher, voucherMint, voucherToken>>
    BY <1>1 DEF IssueReceipt
  <2> HIDE DEF b
  <2>4. \A n \in Merchants : SameBooks(n) BY <2>1, <2>2, <2>3, BooksWritten
  <2> QED BY <2>3, <2>4, VouchersUntouched DEF Event, Quiet
<1>2. ASSUME NEW m \in Merchants, NEW s \in Secrets, NEW c \in Customers,
             NEW relayer \in Relayers, ClaimReceipt(m, s, c, relayer)
      PROVE  Event
  <2> DEFINE opening == card[m][c] = NoAccount
             b == CountStamp(shop[m], opening)
  <2>1. shop[m] # NoAccount /\ shop[m] \in Business BY <1>2, AccountType DEF ClaimReceipt
  <2>2. b \in Business /\ SameFigures(shop[m], b) BY <2>1, CountStampType, FigureWrites
  <2>3. /\ shop' = [shop EXCEPT ![m] = b] /\ now' = now
        /\ UNCHANGED <<voucher, voucherMint, voucherToken>>
    BY <1>2 DEF ClaimReceipt
  <2> HIDE DEF b
  <2>4. \A n \in Merchants : SameBooks(n) BY <2>1, <2>2, <2>3, BooksWritten
  <2> QED BY <2>3, <2>4, VouchersUntouched DEF Event, Quiet
<1>3. ASSUME NEW m \in Merchants, NEW s \in Secrets, ReclaimExpiredReceipt(m, s)
      PROVE  Event
  BY <1>3, BooksUnchanged, VouchersUntouched DEF ReclaimExpiredReceipt, Event, Quiet
<1> QED BY <1>1, <1>2, <1>3 DEF ReceiptNext

LEMMA CardIsEvent ==
  ASSUME TypeOK, NEW m \in Merchants, NEW c \in Customers,
         \/ \E to \in Customers, amount \in 1..U8Max : TransferStamps(m, c, to, amount)
         \/ MintCardNft(m, c)
         \/ RetireIdleCardNft(m, c)
         \/ CloseDeadCard(m, c)
  PROVE  Event
<1> USE DEF voucherVars
<1>1. ASSUME CloseDeadCard(m, c) PROVE Event
  <2> DEFINE b == CountClosedCard(shop[m])
  <2>1. shop[m] # NoAccount /\ shop[m] \in Business BY <1>1, AccountType DEF CloseDeadCard
  <2>2. b \in Business /\ SameFigures(shop[m], b) BY <2>1, CountersType, FigureWrites
  <2>3. /\ shop' = [shop EXCEPT ![m] = b] /\ now' = now
        /\ UNCHANGED <<voucher, voucherMint, voucherToken>>
    BY <1>1 DEF CloseDeadCard
  <2> HIDE DEF b
  <2>4. \A n \in Merchants : SameBooks(n) BY <2>1, <2>2, <2>3, BooksWritten
  <2> QED BY <2>3, <2>4, VouchersUntouched DEF Event, Quiet
<1>2. ASSUME UNCHANGED <<now, shop, voucher, voucherMint, voucherToken>> PROVE Event
  BY <1>2, BooksUnchanged, VouchersUntouched DEF Event, Quiet
<1>3. ASSUME NEW to \in Customers, NEW amount \in 1..U8Max, TransferStamps(m, c, to, amount)
      PROVE  Event
  BY <1>2, <1>3 DEF TransferStamps
<1>4. ASSUME MintCardNft(m, c) PROVE Event BY <1>2, <1>4 DEF MintCardNft
<1>5. ASSUME RetireIdleCardNft(m, c) PROVE Event BY <1>2, <1>5 DEF RetireIdleCardNft
<1> QED BY <1>1, <1>3, <1>4, <1>5
-----------------------------------------------------------------------------
\* The steps that concern one voucher.
LEMMA UntouchedWhenSame ==
  ASSUME NEW m, NEW i, voucher'[m][i] = voucher[m][i],
         voucherToken'[m][i] = voucherToken[m][i],
         <<m, i>> \in voucherMint' <=> <<m, i>> \in voucherMint
  PROVE  Untouched(m, i)
BY DEF Untouched, SameVoucher, SameInHand, InHand, Shown

LEMMA SameInHandWhenSame ==
  ASSUME NEW m, NEW i, NEW w, voucherToken'[m][i][w] = voucherToken[m][i][w]
  PROVE  SameInHand(m, i, w)
BY DEF SameInHand, InHand, Shown

LEMMA MintIsEvent ==
  ASSUME TypeOK, NEW m \in Merchants, NEW c \in Customers, NEW relayer \in Relayers,
         MintVoucher(m, c, relayer)
  PROVE  Event
<1>0. PICK i \in VoucherIds : i = shop[m].total_vouchers_issued BY DEF MintVoucher
<1> DEFINE b == CountMinted(shop[m])
           v == [owner |-> c, rent_payer |-> relayer,
                 expires_at |-> now + VoucherValidSeconds]
           t == [amount |-> 1, state |-> "Initialized", closer |-> "voucher"]
<1>1. /\ shop[m] # NoAccount /\ shop[m] \in Business
      /\ voucher[m][i] = NoAccount /\ now' = now
  BY <1>0, AccountType DEF MintVoucher, AddressesFree
<1>2. /\ shop' = [shop EXCEPT ![m] = b]
      /\ voucher' = [voucher EXCEPT ![m][i] = v]
      /\ voucherMint' = voucherMint \cup {<<m, i>>}
      /\ voucherToken' = [voucherToken EXCEPT ![m][i][c] = t]
  BY <1>0 DEF MintVoucher
<1>3. b \in Business BY <1>1, CountersType
<1>4. v \in Voucher /\ v.expires_at = now + VoucherValidSeconds
  BY LimitsAssumption DEF Voucher, TypeOK
<1>5. t \in TokenAccount BY DEF TokenAccount, Closers
<1>6. Holds(t) /\ ~Frozen(t) BY <1>5, NoAccountAssumption DEF Holds, Frozen
<1>7. /\ b.total_redemptions = shop[m].total_redemptions
      /\ b.total_vouchers_issued = i + 1
      /\ b.open_vouchers = shop[m].open_vouchers + 1
  BY <1>0, <1>1, VoucherFigureWrites
<1> HIDE DEF b, v, t
<1>8. shop'[m] = b /\ \A n \in Merchants \ {m} : SameBooks(n) BY <1>2, OtherBooks
<1>9. /\ voucherToken'[m][i][c] = t
      /\ \A y \in Customers \ {c} : voucherToken'[m][i][y] = voucherToken[m][i][y]
      /\ \A n \in Merchants, j \in VoucherIds :
           n # m \/ j # i => voucherToken'[n][j] = voucherToken[n][j]
  BY <1>2, RowWrite
<1>10. voucher'[m][i] = v BY <1>2 DEF TypeOK
<1>11. ASSUME NEW n \in Merchants, NEW j \in VoucherIds, n # m \/ j # i
       PROVE  Untouched(n, j)
  <2>1. voucher'[n][j] = voucher[n][j] BY <1>1, <1>2, <1>11 DEF TypeOK
  <2>2. <<n, j>> \in voucherMint' <=> <<n, j>> \in voucherMint BY <1>2, <1>11
  <2> QED BY <1>9, <1>11, <2>1, <2>2, UntouchedWhenSame
<1>12. OthersUntouched(m, i) BY <1>8, <1>11 DEF OthersUntouched
<1>13. InHand(m, i, c)' /\ ~Shown(m, i, c)' BY <1>6, <1>9 DEF InHand, Shown
<1>14. <<m, i>> \in voucherMint' BY <1>2
<1>15. IsGiven(m, i, c)
  BY <1>0, <1>1, <1>3, <1>4, <1>7, <1>8, <1>10, <1>13, <1>14, NoAccountAssumption DEF IsGiven
<1>16. \A y \in Customers \ {c} : SameInHand(m, i, y) BY <1>9, SameInHandWhenSame
<1>17. VoucherEvent(m, i, c) BY <1>15, <1>16 DEF VoucherEvent
<1> QED BY <1>1, <1>12, <1>17 DEF Event

\* A step that writes one token account and nothing else.
LEMMA TokenWritten ==
  ASSUME TypeOK, NEW m \in Merchants, NEW i \in VoucherIds, NEW w \in Customers, NEW x,
         voucherToken' = [voucherToken EXCEPT ![m][i][w] = x],
         UNCHANGED <<now, shop, voucher, voucherMint>>
  PROVE  /\ voucherToken'[m][i][w] = x
         /\ SameBooks(m) /\ SameVoucher(m, i)
         /\ \A y \in Customers \ {w} : SameInHand(m, i, y)
         /\ OthersUntouched(m, i)
<1>1. /\ voucherToken'[m][i][w] = x
      /\ \A y \in Customers \ {w} : voucherToken'[m][i][y] = voucherToken[m][i][y]
      /\ \A n \in Merchants, j \in VoucherIds :
           n # m \/ j # i => voucherToken'[n][j] = voucherToken[n][j]
  BY RowWrite
<1>2. \A n \in Merchants : SameBooks(n) BY BooksUnchanged
<1>3. SameVoucher(m, i) BY DEF SameVoucher
<1>4. \A y \in Customers \ {w} : SameInHand(m, i, y) BY <1>1, SameInHandWhenSame
<1>5. ASSUME NEW n \in Merchants, NEW j \in VoucherIds, n # m \/ j # i
      PROVE  Untouched(n, j)
  BY <1>1, <1>5, UntouchedWhenSame
<1> QED BY <1>1, <1>2, <1>3, <1>4, <1>5 DEF OthersUntouched

LEMMA TokenStepIsEvent ==
  ASSUME TypeOK, NEW m \in Merchants, NEW i \in VoucherIds, NEW w \in Customers,
         Shown(m, i, w) => InHand(m, i, w)
  PROVE  /\ PresentVoucher(m, i, w) => Event
         /\ CancelPresentation(m, i, w) => Event
         /\ WalletBurnsVoucher(m, i, w) => Event
         /\ WalletOpensToken(m, i, w) => Event
         /\ WalletClosesToken(m, i, w) => Event
         /\ WalletGrantsClose(m, i, w) => Event
<1> DEFINE t == voucherToken[m][i][w]
<1>0. /\ Holds(t) => t \in TokenAccount
      /\ t # NoAccount => t \in TokenAccount
  BY AccountType DEF Holds
<1>1. ASSUME now' = now, VoucherEvent(m, i, w), OthersUntouched(m, i) PROVE Event
  BY <1>1 DEF Event
<1>2. ASSUME PresentVoucher(m, i, w) PROVE Event
  <2>1. /\ VoucherLive(m, i) /\ Usable(m, i) /\ Holds(t) /\ ~Frozen(t)
        /\ voucherToken' = [voucherToken EXCEPT ![m][i][w] = Presented(t)]
        /\ UNCHANGED <<now, shop, voucher, voucherMint>>
    BY <1>2 DEF PresentVoucher, Movable
  <2>2. /\ voucherToken'[m][i][w] = Presented(t)
        /\ SameBooks(m) /\ SameVoucher(m, i)
        /\ \A y \in Customers \ {w} : SameInHand(m, i, y)
        /\ OthersUntouched(m, i)
    BY <2>1, TokenWritten
  <2>3. Holds(Presented(t)) /\ Frozen(Presented(t)) BY <1>0, <2>1, TokenFacts
  <2>4. IsShown(m, i, w) BY <2>1, <2>2, <2>3 DEF IsShown, InHand, Shown
  <2> QED BY <1>1, <2>1, <2>2, <2>4 DEF VoucherEvent
<1>3. ASSUME CancelPresentation(m, i, w) PROVE Event
  <2>1. /\ VoucherLive(m, i) /\ Holds(t) /\ Frozen(t)
        /\ voucherToken' = [voucherToken EXCEPT ![m][i][w] = Thawed(t)]
        /\ UNCHANGED <<now, shop, voucher, voucherMint>>
    BY <1>3 DEF CancelPresentation
  <2>2. /\ voucherToken'[m][i][w] = Thawed(t)
        /\ SameBooks(m) /\ SameVoucher(m, i)
        /\ \A y \in Customers \ {w} : SameInHand(m, i, y)
        /\ OthersUntouched(m, i)
    BY <2>1, TokenWritten
  <2>3. Holds(Thawed(t)) /\ ~Frozen(Thawed(t)) BY <1>0, <2>1, TokenFacts
  <2>4. IsTakenBack(m, i, w) BY <2>1, <2>2, <2>3 DEF IsTakenBack, InHand, Shown
  <2> QED BY <1>1, <2>1, <2>2, <2>4 DEF VoucherEvent
<1>4. ASSUME WalletBurnsVoucher(m, i, w) PROVE Event
  <2>1. /\ Holds(t) /\ ~Frozen(t)
        /\ voucherToken' = [voucherToken EXCEPT ![m][i][w] = Debited(t)]
        /\ UNCHANGED <<now, shop, voucher, voucherMint>>
    BY <1>4 DEF WalletBurnsVoucher, Movable
  <2>2. /\ voucherToken'[m][i][w] = Debited(t)
        /\ SameBooks(m) /\ SameVoucher(m, i)
        /\ \A y \in Customers \ {w} : SameInHand(m, i, y)
        /\ OthersUntouched(m, i)
    BY <2>1, TokenWritten
  <2>3. ~Holds(Debited(t)) /\ ~Frozen(Debited(t)) BY <1>0, <2>1, TokenFacts
  <2>4. IsLost(m, i, w) BY <2>1, <2>2, <2>3 DEF IsLost, InHand, Shown
  <2> QED BY <1>1, <2>1, <2>2, <2>4 DEF VoucherEvent
<1>5. ASSUME NEW x, Holds(x) <=> Holds(t), Frozen(x) <=> Frozen(t),
             ~(Holds(t) /\ Frozen(t)),
             voucherToken' = [voucherToken EXCEPT ![m][i][w] = x],
             UNCHANGED <<now, shop, voucher, voucherMint>>
      PROVE  Event
  <2>1. /\ voucherToken'[m][i][w] = x
        /\ SameBooks(m) /\ SameVoucher(m, i)
        /\ \A y \in Customers \ {w} : SameInHand(m, i, y)
        /\ OthersUntouched(m, i)
    BY <1>5, TokenWritten
  <2>2. SameInHand(m, i, w) BY <1>5, <2>1 DEF SameInHand, InHand, Shown
  <2>3. Untouched(m, i) BY <2>1, <2>2 DEF Untouched
  <2>4. \A n \in Merchants, j \in VoucherIds : Untouched(n, j)
    BY <2>1, <2>3 DEF OthersUntouched
  <2>5. \A n \in Merchants : SameBooks(n) BY <2>1 DEF OthersUntouched
  <2> QED BY <1>5, <2>4, <2>5 DEF Event, Quiet
<1>6. ASSUME WalletClosesToken(m, i, w) PROVE Event
  <2>1. /\ t # NoAccount /\ t.amount = 0
        /\ voucherToken' = [voucherToken EXCEPT ![m][i][w] = NoAccount]
        /\ UNCHANGED <<now, shop, voucher, voucherMint>>
    BY <1>6 DEF WalletClosesToken
  <2>2. ~Holds(t) /\ ~Frozen(t) BY <2>1 DEF Holds, InHand, Shown
  <2> QED BY <1>5, <2>1, <2>2, NothingThere
<1>7. ASSUME WalletGrantsClose(m, i, w) PROVE Event
  <2>1. /\ t # NoAccount /\ ~Frozen(t)
        /\ voucherToken' = [voucherToken EXCEPT ![m][i][w] = [t EXCEPT !.closer = "other"]]
        /\ UNCHANGED <<now, shop, voucher, voucherMint>>
    BY <1>7 DEF WalletGrantsClose
  <2>2. /\ Holds([t EXCEPT !.closer = "other"]) <=> Holds(t)
        /\ Frozen([t EXCEPT !.closer = "other"]) <=> Frozen(t)
    BY <1>0, <2>1, TokenFacts
  <2> QED BY <1>5, <2>1, <2>2
<1>8. ASSUME WalletOpensToken(m, i, w) PROVE Event
  <2>1. /\ t = NoAccount
        /\ voucherToken' = [voucherToken EXCEPT ![m][i][w] = EmptyToken]
        /\ UNCHANGED <<now, shop, voucher, voucherMint>>
    BY <1>8 DEF WalletOpensToken
  <2>2. ~Holds(t) /\ ~Frozen(t) BY <2>1, NothingThere
  <2>3. ~Holds(EmptyToken) /\ ~Frozen(EmptyToken) BY DEF EmptyToken, Holds, Frozen
  <2> QED BY <1>5, <2>1, <2>2, <2>3
<1> QED BY <1>2, <1>3, <1>4, <1>6, <1>7, <1>8

LEMMA HandOnIsEvent ==
  ASSUME TypeOK, NEW m \in Merchants, NEW i \in VoucherIds, NEW w \in Customers,
         NEW to \in Customers \ {w}, NEW x, ~Holds(x), ~Frozen(x),
         Movable(voucherToken[m][i][w]), SameVoucher(m, i),
         \A n \in Merchants, j \in VoucherIds : n # m \/ j # i => voucher'[n][j] = voucher[n][j],
         voucherToken' = RowMoved(m, i, w, to, x, Credited(voucherToken[m][i][to])),
         UNCHANGED <<now, shop, voucherMint>>
  PROVE  Event
<1> DEFINE y == Credited(voucherToken[m][i][to])
<1>1. Holds(y) /\ (Frozen(y) <=> Frozen(voucherToken[m][i][to]))
  BY AccountType, CreditedFacts
<1>2. voucherToken' = RowMoved(m, i, w, to, x, y) OBVIOUS
<1> HIDE DEF y
<1>3. /\ voucherToken'[m][i][w] = x /\ voucherToken'[m][i][to] = y
      /\ \A z \in Customers \ {w, to} : voucherToken'[m][i][z] = voucherToken[m][i][z]
      /\ \A n \in Merchants, j \in VoucherIds :
           n # m \/ j # i => voucherToken'[n][j] = voucherToken[n][j]
  BY <1>2, RowMove
<1>4. \A n \in Merchants : SameBooks(n) BY BooksUnchanged
<1>5. IsLost(m, i, w) BY <1>3, <1>4 DEF IsLost, InHand, Shown, Movable
<1>6. IsHandedOn(m, i, w, to) BY <1>1, <1>3, <1>5 DEF IsHandedOn, InHand, Shown
<1>7. \A z \in Customers \ {w, to} : SameInHand(m, i, z) BY <1>3, SameInHandWhenSame
<1>8. ASSUME NEW n \in Merchants, NEW j \in VoucherIds, n # m \/ j # i
      PROVE  Untouched(n, j)
  <2>1. voucherToken'[n][j] = voucherToken[n][j] BY <1>3, <1>8
  <2>2. voucher'[n][j] = voucher[n][j] BY <1>8
  <2> QED BY <2>1, <2>2, UntouchedWhenSame
<1>9. VoucherEvent(m, i, w) BY <1>6, <1>7 DEF VoucherEvent
<1> QED BY <1>4, <1>8, <1>9 DEF Event, OthersUntouched

LEMMA MoveIsEvent ==
  ASSUME TypeOK, NEW m \in Merchants, NEW i \in VoucherIds, NEW w \in Customers,
         NEW to \in Customers
  PROVE  /\ TransferVoucher(m, i, w, to) => Event
         /\ WalletMovesVoucher(m, i, w, to) => Event
<1> DEFINE t == voucherToken[m][i][w]
<1>0. Holds(t) => t \in TokenAccount BY AccountType DEF Holds
<1>1. ASSUME TransferVoucher(m, i, w, to) PROVE Event
  <2> DEFINE x == ClosedBy(t, {"owner", "voucher"})
             v == [voucher[m][i] EXCEPT !.owner = to]
  <2>1. /\ to \in Customers \ {w} /\ Movable(t)
        /\ voucherToken' = [voucherToken EXCEPT
             ![m][i][w] = x, ![m][i][to] = Credited(voucherToken[m][i][to])]
        /\ voucher' = [voucher EXCEPT ![m][i] = v]
        /\ UNCHANGED <<now, shop, voucherMint>>
    BY <1>1 DEF TransferVoucher, Giftable, TypeOK
  <2>2. voucher[m][i] # NoAccount /\ voucher[m][i] \in Voucher
    BY <1>1, AccountType DEF TransferVoucher, Giftable, VoucherLive
  <2>3. v \in Voucher /\ v.expires_at = voucher[m][i].expires_at BY <2>2 DEF Voucher
  <2>4. ~Holds(x) /\ ~Frozen(x) BY <1>0, <2>1, ClosedFacts DEF Movable
  <2> HIDE DEF x, v
  <2>5. /\ voucher'[m][i] = v
        /\ \A n \in Merchants, j \in VoucherIds :
             n # m \/ j # i => voucher'[n][j] = voucher[n][j]
    BY <2>1 DEF TypeOK
  <2>6. SameVoucher(m, i) BY <2>1, <2>2, <2>3, <2>5, NoAccountAssumption DEF SameVoucher
  <2> QED BY <2>1, <2>4, <2>5, <2>6, HandOnIsEvent DEF RowMoved
<1>2. ASSUME WalletMovesVoucher(m, i, w, to) PROVE Event
  <2> DEFINE x == Debited(t)
  <2>1. /\ to \in Customers \ {w} /\ Movable(t)
        /\ voucherToken' = [voucherToken EXCEPT
             ![m][i][w] = x, ![m][i][to] = Credited(voucherToken[m][i][to])]
        /\ UNCHANGED <<now, shop, voucher, voucherMint>>
    BY <1>2 DEF WalletMovesVoucher, TypeOK
  <2>2. ~Holds(x) /\ ~Frozen(x) BY <1>0, <2>1, TokenFacts DEF Movable
  <2>3. SameVoucher(m, i) BY <2>1 DEF SameVoucher
  <2> HIDE DEF x
  <2> QED BY <2>1, <2>2, <2>3, HandOnIsEvent DEF RowMoved
<1> QED BY <1>1, <1>2

LEMMA EndIsEvent ==
  ASSUME TypeOK, NEW m \in Merchants, NEW i \in VoucherIds, NEW w \in Customers,
         Shown(m, i, w) => InHand(m, i, w)
  PROVE  /\ RedeemVoucher(m, i, w) => Event
         /\ CloseExpiredVoucher(m, i, w) => Event
<1> DEFINE t == voucherToken[m][i][w]
<1>0. /\ Holds(t) => t \in TokenAccount
      /\ t # NoAccount => t \in TokenAccount
  BY AccountType DEF Holds
<1>1. ASSUME NEW x, ~Holds(x), ~Frozen(x),
             \/ voucherToken' = [voucherToken EXCEPT ![m][i][w] = x]
             \/ voucherToken' = voucherToken /\ x = t,
             EndVoucher(m, i)
      PROVE  /\ ~InHand(m, i, w)' /\ ~Shown(m, i, w)'
             /\ voucher'[m][i] = NoAccount /\ <<m, i>> \notin voucherMint'
             /\ \A y \in Customers \ {w} : SameInHand(m, i, y)
             /\ \A n \in Merchants, j \in VoucherIds : n # m \/ j # i => Untouched(n, j)
  <2>1. /\ voucherToken'[m][i][w] = x
        /\ \A y \in Customers \ {w} : voucherToken'[m][i][y] = voucherToken[m][i][y]
        /\ \A n \in Merchants, j \in VoucherIds :
             n # m \/ j # i => voucherToken'[n][j] = voucherToken[n][j]
    <3>1. CASE voucherToken' = [voucherToken EXCEPT ![m][i][w] = x] BY <3>1, RowWrite
    <3>2. CASE voucherToken' = voucherToken /\ x = t BY <3>2
    <3> QED BY <1>1, <3>1, <3>2
  <2>2. /\ voucher' = [voucher EXCEPT ![m][i] = NoAccount]
        /\ voucherMint' = voucherMint \ {<<m, i>>}
    BY <1>1 DEF EndVoucher
  <2>3. ASSUME NEW n \in Merchants, NEW j \in VoucherIds, n # m \/ j # i
        PROVE  Untouched(n, j)
    <3>1. voucher'[n][j] = voucher[n][j] BY <2>2, <2>3 DEF TypeOK
    <3>2. <<n, j>> \in voucherMint' <=> <<n, j>> \in voucherMint BY <2>2, <2>3
    <3>3. voucherToken'[n][j] = voucherToken[n][j] BY <2>1, <2>3
    <3> QED BY <3>1, <3>2, <3>3, UntouchedWhenSame
  <2>4. voucher'[m][i] = NoAccount BY <2>2 DEF TypeOK
  <2>5. ~InHand(m, i, w)' /\ ~Shown(m, i, w)' BY <1>1, <2>1 DEF InHand, Shown
  <2>6. \A y \in Customers \ {w} : SameInHand(m, i, y) BY <2>1, SameInHandWhenSame
  <2> QED BY <2>2, <2>3, <2>4, <2>5, <2>6
<1>2. ASSUME RedeemVoucher(m, i, w) PROVE Event
  <2> DEFINE b == CountRedeemed(shop[m])
             x == ClosedBy(t, {"voucher"})
  <2>1. /\ shop[m] # NoAccount /\ shop[m] \in Business
        /\ VoucherLive(m, i) /\ Holds(t) /\ Frozen(t) /\ Usable(m, i)
        /\ voucherToken' = [voucherToken EXCEPT ![m][i][w] = x]
        /\ EndVoucher(m, i)
        /\ shop' = [shop EXCEPT ![m] = b]
        /\ now' = now
    BY <1>2, AccountType DEF RedeemVoucher
  <2>2. ~Holds(x) /\ ~Frozen(x) BY <1>0, <2>1, ClosedFacts
  <2>3. b \in Business BY <2>1, CountersType
  <2>4. /\ b.total_redemptions = shop[m].total_redemptions + 1
        /\ b.total_vouchers_issued = shop[m].total_vouchers_issued
        /\ b.open_vouchers =
             IF shop[m].open_vouchers = 0 THEN 0 ELSE shop[m].open_vouchers - 1
    BY <2>1, VoucherFigureWrites
  <2> HIDE DEF b, x
  <2>5. shop'[m] = b /\ \A n \in Merchants \ {m} : SameBooks(n) BY <2>1, OtherBooks
  <2>6. /\ ~InHand(m, i, w)' /\ ~Shown(m, i, w)'
        /\ voucher'[m][i] = NoAccount /\ <<m, i>> \notin voucherMint'
        /\ \A y \in Customers \ {w} : SameInHand(m, i, y)
        /\ \A n \in Merchants, j \in VoucherIds : n # m \/ j # i => Untouched(n, j)
    BY <1>1, <2>1, <2>2
  <2>7. Ends(m, i, w) BY <2>1, <2>3, <2>4, <2>5, <2>6, NoAccountAssumption DEF Ends
  <2>8. IsHonoured(m, i, w) BY <2>1, <2>4, <2>5, <2>7 DEF IsHonoured, InHand, Shown
  <2> QED BY <2>1, <2>5, <2>6, <2>8 DEF VoucherEvent, OthersUntouched, Event
<1>3. ASSUME CloseExpiredVoucher(m, i, w) PROVE Event
  <2> DEFINE b == CountClosedVoucher(shop[m])
  <2>1. /\ shop[m] # NoAccount /\ shop[m] \in Business
        /\ VoucherLive(m, i) /\ Expired(m, i) /\ Holders(m, i) \subseteq {w}
        /\ EndVoucher(m, i)
        /\ shop' = [shop EXCEPT ![m] = b]
        /\ now' = now
    BY <1>3, AccountType DEF CloseExpiredVoucher
  <2>2. PICK x : /\ ~Holds(x) /\ ~Frozen(x)
                 /\ \/ voucherToken' = [voucherToken EXCEPT ![m][i][w] = x]
                    \/ voucherToken' = voucherToken /\ x = t
    <3>1. CASE t # NoAccount
               /\ voucherToken' = [voucherToken EXCEPT ![m][i][w] = ClosedBy(t, {"voucher"})]
      BY <1>0, <3>1, ClosedFacts
    <3>2. CASE Holders(m, i) = {} /\ voucherToken' = voucherToken
      <4>1. ~Holds(t) BY <3>2 DEF Holders
      <4>2. ~Frozen(t) BY <4>1 DEF InHand, Shown
      <4> QED BY <3>2, <4>1, <4>2
    <3> QED BY <1>3, <3>1, <3>2 DEF CloseExpiredVoucher
  <2>3. b \in Business BY <2>1, CountersType
  <2>4. /\ b.total_redemptions = shop[m].total_redemptions
        /\ b.total_vouchers_issued = shop[m].total_vouchers_issued
        /\ b.open_vouchers =
             IF shop[m].open_vouchers = 0 THEN 0 ELSE shop[m].open_vouchers - 1
    BY <2>1, VoucherFigureWrites
  <2> HIDE DEF b
  <2>5. shop'[m] = b /\ \A n \in Merchants \ {m} : SameBooks(n) BY <2>1, OtherBooks
  <2>6. /\ ~InHand(m, i, w)' /\ ~Shown(m, i, w)'
        /\ voucher'[m][i] = NoAccount /\ <<m, i>> \notin voucherMint'
        /\ \A y \in Customers \ {w} : SameInHand(m, i, y)
        /\ \A n \in Merchants, j \in VoucherIds : n # m \/ j # i => Untouched(n, j)
    BY <1>1, <2>1, <2>2
  <2>7. Ends(m, i, w) BY <2>1, <2>3, <2>4, <2>5, <2>6, NoAccountAssumption DEF Ends
  <2>8. IsSwept(m, i, w) BY <2>1, <2>4, <2>5, <2>7 DEF IsSwept
  <2> QED BY <2>1, <2>5, <2>6, <2>8 DEF VoucherEvent, OthersUntouched, Event
<1> QED BY <1>2, <1>3

LEMMA StepIsEvent == TypeOK /\ VoucherNftSound /\ [Next]_vars => Event
<1> SUFFICES ASSUME TypeOK, VoucherNftSound, [Next]_vars PROVE Event
  OBVIOUS
<1>0. ASSUME NEW m \in Merchants, NEW i \in VoucherIds, NEW w \in Customers
      PROVE  Shown(m, i, w) => InHand(m, i, w)
  BY DEF VoucherNftSound, Holders, InHand, Shown
<1>1. CASE ShopNext BY <1>1, ShopIsEvent
<1>2. CASE ReceiptNext BY <1>2, ReceiptIsEvent
<1>3. CASE CardNext BY <1>3, CardIsEvent, MintIsEvent DEF CardNext
<1>4. CASE VoucherNext
  <2>1. PICK m \in Merchants, i \in VoucherIds, w \in Customers :
          \/ PresentVoucher(m, i, w)
          \/ CancelPresentation(m, i, w)
          \/ \E to \in Customers : TransferVoucher(m, i, w, to)
          \/ RedeemVoucher(m, i, w)
          \/ CloseExpiredVoucher(m, i, w)
    BY <1>4 DEF VoucherNext
  <2>2. Shown(m, i, w) => InHand(m, i, w) BY <1>0
  <2> QED BY <2>1, <2>2, TokenStepIsEvent, MoveIsEvent, EndIsEvent
<1>5. ASSUME UNCHANGED <<shop, voucher, voucherMint, voucherToken>>,
             now' = now \/ now' = now + 1
      PROVE  Event
  BY <1>5, BooksUnchanged, VouchersUntouched DEF Event, Quiet
<1>6. CASE WalletNext
  <2>1. ASSUME NEW m \in Merchants, NEW i \in VoucherIds, NEW w \in Customers,
               \/ \E to \in Customers : WalletMovesVoucher(m, i, w, to)
               \/ WalletBurnsVoucher(m, i, w)
               \/ WalletOpensToken(m, i, w)
               \/ WalletClosesToken(m, i, w)
               \/ WalletGrantsClose(m, i, w)
        PROVE  Event
    <3>1. Shown(m, i, w) => InHand(m, i, w) BY <1>0
    <3> QED BY <2>1, <3>1, TokenStepIsEvent, MoveIsEvent
  <2>2. ASSUME NEW id \in cardHeld, WalletBurnsCardToken(id) PROVE Event
    BY <1>5, <2>2 DEF WalletBurnsCardToken, voucherVars
  <2> QED BY <1>6, <2>1, <2>2 DEF WalletNext
<1>7. CASE Tick BY <1>5, <1>7 DEF Tick, voucherVars
<1>8. CASE UNCHANGED vars BY <1>5, <1>8 DEF vars, voucherVars
<1> QED BY <1>1, <1>2, <1>3, <1>4, <1>6, <1>7, <1>8 DEF Next
-----------------------------------------------------------------------------
(* A voucher is one token in at most one hand.                             *)

VoucherSound(m, i) ==
  /\ voucher[m][i] # NoAccount <=> <<m, i>> \in voucherMint
  /\ \A w \in Customers : InHand(m, i, w) => voucher[m][i] # NoAccount
  /\ \A w, x \in Customers : InHand(m, i, w) /\ InHand(m, i, x) => w = x
  /\ \A w \in Customers : Shown(m, i, w) => InHand(m, i, w)

Sound == \A m \in Merchants, i \in VoucherIds : VoucherSound(m, i)

LEMMA SoundMeans == Sound <=> VoucherNftSound
<1>1. ASSUME NEW m, NEW i
      PROVE  (\A w \in Holders(m, i) : Holders(m, i) = {w} /\ voucher[m][i] # NoAccount)
             <=> /\ \A w \in Customers : InHand(m, i, w) => voucher[m][i] # NoAccount
                 /\ \A w, x \in Customers : InHand(m, i, w) /\ InHand(m, i, x) => w = x
  BY DEF Holders, InHand
<1>2. ASSUME NEW m, NEW i
      PROVE  (\A w \in Customers : Frozen(voucherToken[m][i][w]) => w \in Holders(m, i))
             <=> \A w \in Customers : Shown(m, i, w) => InHand(m, i, w)
  BY DEF Holders, InHand, Shown
<1> QED BY <1>1, <1>2 DEF VoucherNftSound, Sound, VoucherSound

LEMMA InitSound == Init => Sound
<1> SUFFICES ASSUME Init, NEW m \in Merchants, NEW i \in VoucherIds
             PROVE  VoucherSound(m, i)
  BY DEF Sound
<1>1. /\ voucher[m][i] = NoAccount /\ <<m, i>> \notin voucherMint
      /\ \A w \in Customers : voucherToken[m][i][w] = NoAccount
  BY DEF Init
<1> QED BY <1>1, NothingThere DEF VoucherSound, InHand, Shown

LEMMA UntouchedSound ==
  ASSUME NEW m, NEW i, VoucherSound(m, i), Untouched(m, i)
  PROVE  VoucherSound(m, i)'
<1>1. /\ voucher'[m][i] = NoAccount <=> voucher[m][i] = NoAccount
      /\ <<m, i>> \in voucherMint' <=> <<m, i>> \in voucherMint
  BY DEF Untouched, SameVoucher
<1>2. \A w \in Customers : /\ InHand(m, i, w)' <=> InHand(m, i, w)
                           /\ Shown(m, i, w)' <=> Shown(m, i, w)
  BY DEF Untouched, SameInHand
<1> QED BY <1>1, <1>2 DEF VoucherSound

LEMMA EventSound ==
  ASSUME NEW m, NEW i, NEW w \in Customers, VoucherSound(m, i), VoucherEvent(m, i, w)
  PROVE  VoucherSound(m, i)'
<1>1. \A y \in Customers : SameInHand(m, i, y) =>
        (InHand(m, i, y)' <=> InHand(m, i, y)) /\ (Shown(m, i, y)' <=> Shown(m, i, y))
  BY DEF SameInHand
<1>2. CASE \A y \in Customers \ {w} : SameInHand(m, i, y)
  <2>0. \A y \in Customers \ {w} : /\ InHand(m, i, y)' <=> InHand(m, i, y)
                                   /\ Shown(m, i, y)' <=> Shown(m, i, y)
    BY <1>1, <1>2
  <2>1. CASE IsGiven(m, i, w) BY <2>0, <2>1 DEF IsGiven, VoucherSound
  <2>2. CASE IsShown(m, i, w) BY <2>0, <2>2 DEF IsShown, SameVoucher, VoucherSound
  <2>3. CASE IsTakenBack(m, i, w)
    BY <2>0, <2>3 DEF IsTakenBack, SameVoucher, VoucherSound
  <2>4. CASE IsLost(m, i, w) BY <2>0, <2>4 DEF IsLost, SameVoucher, VoucherSound
  <2>5. CASE IsHonoured(m, i, w)
    BY <2>0, <2>5 DEF IsHonoured, Ends, VoucherSound
  <2>6. CASE IsSwept(m, i, w)
    <3>1. \A y \in Customers \ {w} : ~InHand(m, i, y)
      BY <2>6 DEF IsSwept, Holders, InHand
    <3> QED BY <2>0, <2>6, <3>1 DEF IsSwept, Ends, VoucherSound
  <2>7. CASE \E to \in Customers :
               /\ \A y \in Customers \ {w, to} : SameInHand(m, i, y)
               /\ IsHandedOn(m, i, w, to)
    BY <2>0, <2>7 DEF IsHandedOn, IsLost, SameVoucher, VoucherSound
  <2> QED BY <2>1, <2>2, <2>3, <2>4, <2>5, <2>6, <2>7 DEF VoucherEvent
<1>3. ASSUME NEW to \in Customers,
             \A y \in Customers \ {w, to} : SameInHand(m, i, y),
             IsHandedOn(m, i, w, to)
      PROVE  VoucherSound(m, i)'
  <2>1. \A y \in Customers \ {w, to} : /\ InHand(m, i, y)' <=> InHand(m, i, y)
                                       /\ Shown(m, i, y)' <=> Shown(m, i, y)
    BY <1>1, <1>3
  <2> QED BY <1>3, <2>1 DEF IsHandedOn, IsLost, SameVoucher, VoucherSound
<1> QED BY <1>2, <1>3 DEF VoucherEvent

LEMMA NextSound == TypeOK /\ Sound /\ [Next]_vars => Sound'
<1> SUFFICES ASSUME TypeOK, Sound, [Next]_vars PROVE Sound'
  OBVIOUS
<1>1. \A n \in Merchants, j \in VoucherIds : VoucherSound(n, j) BY DEF Sound
<1>2. \A n \in Merchants, j \in VoucherIds : Untouched(n, j) => VoucherSound(n, j)'
  BY <1>1, UntouchedSound
<1>3. Event BY SoundMeans, StepIsEvent
<1>4. ASSUME Quiet PROVE Sound' BY <1>2, <1>4 DEF Quiet, Sound
<1>5. ASSUME NEW m \in Merchants, ShopEvent(m) PROVE Sound'
  BY <1>2, <1>5 DEF ShopEvent, Sound
<1>6. ASSUME NEW m \in Merchants, NEW i \in VoucherIds, NEW w \in Customers,
             VoucherEvent(m, i, w), OthersUntouched(m, i)
      PROVE  Sound'
  <2>1. VoucherSound(m, i)' BY <1>1, <1>6, EventSound
  <2> QED BY <1>2, <1>6, <2>1 DEF OthersUntouched, Sound
<1> QED BY <1>3, <1>4, <1>5, <1>6 DEF Event

\* In every state the program can reach a voucher and its mint are there
\* together, its one token is in at most one wallet, none is left when it has
\* ended, and no account is frozen but the one that holds it.
THEOREM VouchersAreSound == Spec => []VoucherNftSound
BY TypeCorrect, InitSound, NextSound, SoundMeans, PTL DEF Spec
-----------------------------------------------------------------------------
(* What is out is accounted for, and the next one can be given out.        *)

ShopAccounted(m) ==
  shop[m] # NoAccount =>
    /\ \A i \in VoucherIds :
         voucher[m][i] # NoAccount => i < shop[m].total_vouchers_issued
    /\ shop[m].total_redemptions + shop[m].open_vouchers <= shop[m].total_vouchers_issued

Accounted == \A m \in Merchants : ShopAccounted(m)

LEMMA AccountedMeans == Accounted <=> VouchersAccounted
BY DEF Accounted, ShopAccounted, VouchersAccounted, LiveVouchers

LEMMA InitAccounted == Init => Accounted
BY DEF Init, Accounted, ShopAccounted

LEMMA UntouchedAccounted ==
  ASSUME NEW m, ShopAccounted(m), SameBooks(m),
         \A i \in VoucherIds : voucher'[m][i] = NoAccount <=> voucher[m][i] = NoAccount
  PROVE  ShopAccounted(m)'
BY DEF ShopAccounted, SameBooks

\* The figures of a shop's account are numbers, before a step and after it.
LEMMA FiguresAreNat ==
  ASSUME TypeOK, NEW m \in Merchants, shop[m] # NoAccount
  PROVE  /\ shop[m].total_redemptions \in Nat
         /\ shop[m].total_vouchers_issued \in Nat
         /\ shop[m].open_vouchers \in Nat
<1>1. shop[m] \in Business BY AccountType
<1> QED BY <1>1 DEF Business

\* A live voucher is on its shop's books.
LEMMA LiveIsOpen ==
  ASSUME Settled, NEW m \in Merchants, NEW i \in VoucherIds,
         shop[m] # NoAccount, voucher[m][i] # NoAccount
  PROVE  shop[m].open_vouchers > 0
<1>1. shop[m].open_vouchers = Cardinality(LiveVouchers(m)) BY DEF Settled, ShopSettled
<1>2. i \in LiveVouchers(m) BY DEF LiveVouchers
<1>3. Cardinality(LiveVouchers(m)) > 0 BY <1>2, CountedFinite, RemoveOne
<1> QED BY <1>1, <1>3

LEMMA EventAccounted ==
  ASSUME Settled, NEW m \in Merchants, NEW i \in VoucherIds, NEW w \in Customers,
         ShopAccounted(m), VoucherEvent(m, i, w),
         \A j \in VoucherIds \ {i} : Untouched(m, j)
  PROVE  ShopAccounted(m)'
<1>0. shop[m] # NoAccount =>
        /\ shop[m].total_redemptions \in Nat
        /\ shop[m].total_vouchers_issued \in Nat
        /\ shop[m].open_vouchers \in Nat
  BY FiguresAreNat DEF Settled
<1>1. \A j \in VoucherIds \ {i} : voucher'[m][j] = NoAccount <=> voucher[m][j] = NoAccount
  BY DEF Untouched, SameVoucher
<1>2. VoucherIds \subseteq Int BY DEF VoucherIds
<1>3. ASSUME SameBooks(m), SameVoucher(m, i) PROVE ShopAccounted(m)'
  BY <1>1, <1>3, UntouchedAccounted DEF SameVoucher
<1>4. CASE IsGiven(m, i, w)
  <2>1. /\ shop[m] # NoAccount
        /\ shop[m].total_redemptions + shop[m].open_vouchers
             <= shop[m].total_vouchers_issued
        /\ \A j \in VoucherIds :
             voucher[m][j] # NoAccount => j < shop[m].total_vouchers_issued
    BY <1>4 DEF IsGiven, ShopAccounted
  <2>2. /\ shop'[m].total_redemptions = shop[m].total_redemptions
        /\ shop'[m].total_vouchers_issued = shop[m].total_vouchers_issued + 1
        /\ shop'[m].open_vouchers = shop[m].open_vouchers + 1
        /\ i = shop[m].total_vouchers_issued
    BY <1>4 DEF IsGiven
  <2>3. \A j \in VoucherIds :
          voucher'[m][j] # NoAccount => j < shop'[m].total_vouchers_issued
    BY <1>0, <1>1, <1>2, <2>1, <2>2
  <2> QED BY <1>0, <2>1, <2>2, <2>3 DEF ShopAccounted
<1>5. ASSUME Ends(m, i, w),
             \/ shop'[m].total_redemptions = shop[m].total_redemptions + 1
             \/ shop'[m].total_redemptions = shop[m].total_redemptions
      PROVE  ShopAccounted(m)'
  <2>1. /\ shop[m] # NoAccount /\ voucher[m][i] # NoAccount
        /\ shop'[m].total_vouchers_issued = shop[m].total_vouchers_issued
        /\ voucher'[m][i] = NoAccount
        /\ shop'[m].open_vouchers =
             IF shop[m].open_vouchers = 0 THEN 0 ELSE shop[m].open_vouchers - 1
    BY <1>5 DEF Ends, VoucherLive
  <2>2. shop[m].open_vouchers > 0 BY <2>1, LiveIsOpen
  <2>3. /\ shop[m].total_redemptions + shop[m].open_vouchers
             <= shop[m].total_vouchers_issued
        /\ \A j \in VoucherIds :
             voucher[m][j] # NoAccount => j < shop[m].total_vouchers_issued
    BY <2>1 DEF ShopAccounted
  <2>4. \A j \in VoucherIds :
          voucher'[m][j] # NoAccount => j < shop'[m].total_vouchers_issued
    BY <1>1, <2>1, <2>3
  <2>5. shop'[m].total_redemptions + shop'[m].open_vouchers
          <= shop'[m].total_vouchers_issued
    BY <1>0, <1>5, <2>1, <2>2, <2>3
  <2> QED BY <2>4, <2>5 DEF ShopAccounted
<1> QED
  BY <1>3, <1>4, <1>5 DEF VoucherEvent, IsShown, IsTakenBack, IsLost, IsHandedOn,
                          IsHonoured, IsSwept

LEMMA NextAccounted ==
  Settled /\ Sound /\ Accounted /\ [Next]_vars => Accounted'
<1> SUFFICES ASSUME Settled, Sound, Accounted, [Next]_vars PROVE Accounted'
  OBVIOUS
<1>0. TypeOK /\ Event BY SoundMeans, StepIsEvent DEF Settled
<1>1. ASSUME NEW n \in Merchants, SameBooks(n), \A j \in VoucherIds : Untouched(n, j)
      PROVE  ShopAccounted(n)'
  <2>1. \A j \in VoucherIds : voucher'[n][j] = NoAccount <=> voucher[n][j] = NoAccount
    BY <1>1 DEF Untouched, SameVoucher
  <2> QED BY <1>1, <2>1, UntouchedAccounted DEF Accounted
<1>2. ASSUME Quiet PROVE Accounted' BY <1>1, <1>2 DEF Quiet, Accounted
<1>3. ASSUME NEW m \in Merchants, ShopEvent(m) PROVE Accounted'
  <2>1. \A n \in Merchants \ {m} : ShopAccounted(n)' BY <1>1, <1>3 DEF ShopEvent
  <2>2. CASE IsOpened(m)
    <3>1. LiveVouchers(m) = {} BY <2>2 DEF IsOpened, Settled, ShopSettled
    <3>2. \A j \in VoucherIds : voucher'[m][j] = NoAccount
      BY <1>3, <3>1 DEF ShopEvent, Untouched, SameVoucher, LiveVouchers
    <3> QED BY <2>1, <2>2, <3>2 DEF IsOpened, Accounted, ShopAccounted
  <2>3. CASE IsLeft(m) BY <2>1, <2>3 DEF IsLeft, Accounted, ShopAccounted
  <2> QED BY <1>3, <2>2, <2>3 DEF ShopEvent
<1>4. ASSUME NEW m \in Merchants, NEW i \in VoucherIds, NEW w \in Customers,
             VoucherEvent(m, i, w), OthersUntouched(m, i)
      PROVE  Accounted'
  <2>1. ShopAccounted(m)' BY <1>4, EventAccounted DEF Accounted, OthersUntouched
  <2>2. \A n \in Merchants \ {m} : ShopAccounted(n)' BY <1>1, <1>4 DEF OthersUntouched
  <2> QED BY <2>1, <2>2 DEF Accounted
<1> QED BY <1>0, <1>2, <1>3, <1>4 DEF Event

LEMMA AlwaysSettled == Spec => [](Settled /\ Sound /\ Accounted)
<1>1. Settled => TypeOK BY DEF Settled
<1> QED BY <1>1, InitSettled, InitSound, InitAccounted, NextSettles, NextSound,
           NextAccounted, PTL DEF Spec

\* Every live voucher has a number its shop gave out, and a shop has given out
\* at least what it redeemed and what is still out, through closing and
\* registering again: without exact counters (CountersAreExact) it would not,
\* since open_vouchers comes down with saturating_sub.
THEOREM VouchersAreAccounted == Spec => []VouchersAccounted
BY AlwaysSettled, AccountedMeans, PTL

LEMMA MintableWhenAccounted == Settled /\ Sound /\ Accounted => NextRewardMintable
<1> SUFFICES ASSUME Settled, Sound, Accounted, NEW m \in Merchants, shop[m] # NoAccount,
                    NEW i \in VoucherIds, i = shop[m].total_vouchers_issued
             PROVE  /\ voucher[m][i] = NoAccount /\ <<m, i>> \notin voucherMint
                    /\ \A c \in Customers : ~InHand(m, i, c) /\ ~Shown(m, i, c)
  BY DEF NextRewardMintable, InHand, Shown
<1>1. i \in Int BY DEF VoucherIds
<1>2. voucher[m][i] = NoAccount BY <1>1 DEF Accounted, ShopAccounted
<1> QED BY <1>2 DEF Sound, VoucherSound

\* A shop's next voucher can always be given out: its address and its mint's
\* are free, and nobody holds or presents a token of it, also when the shop
\* closed and its numbers started over (mint_voucher.rs).
THEOREM NextRewardIsMintable == Spec => []NextRewardMintable
BY AlwaysSettled, MintableWhenAccounted, PTL
-----------------------------------------------------------------------------
(* How a voucher ends, and that it stays put while it is presented.        *)

LEMMA UntouchedIsFair ==
  ASSUME NEW m, NEW i, Untouched(m, i), i \in LiveVouchers(m)
  PROVE  EndsFairly(m, i) /\ \A w \in Holders(m, i) : StaysPut(m, i, w)
<1>1. EndsFairly(m, i) BY DEF Untouched, SameVoucher, LiveVouchers, EndsFairly
<1>2. \A w \in Holders(m, i) : StaysPut(m, i, w)
  BY DEF Untouched, SameInHand, InHand, Shown, Holders, StaysPut
<1> QED BY <1>1, <1>2

LEMMA EventEndsFairly ==
  ASSUME TypeOK, NEW m \in Merchants, NEW i \in LiveVouchers(m), NEW w \in Customers,
         VoucherEvent(m, i, w)
  PROVE  EndsFairly(m, i)
<1>0. i \in VoucherIds /\ voucher[m][i] # NoAccount BY DEF LiveVouchers
<1>1. CASE SameVoucher(m, i) BY <1>0, <1>1 DEF SameVoucher, EndsFairly
<1>2. CASE IsGiven(m, i, w) BY <1>0, <1>2 DEF IsGiven
<1>3. CASE IsHonoured(m, i, w)
  <2>1. w \in Holders(m, i) /\ Frozen(voucherToken[m][i][w])
    BY <1>3 DEF IsHonoured, Holders, InHand, Shown
  <2> QED BY <1>3, <2>1 DEF IsHonoured, EndsFairly
<1>4. CASE IsSwept(m, i, w)
  <2>1. now \in Nat /\ voucher[m][i].expires_at \in Nat
    BY <1>0, AccountType DEF TypeOK, Voucher
  <2>2. ~Usable(m, i) BY <1>4, <2>1 DEF IsSwept, Expired, Usable
  <2> QED BY <1>4, <2>2 DEF IsSwept, EndsFairly
<1> QED
  BY <1>1, <1>2, <1>3, <1>4 DEF VoucherEvent, IsShown, IsTakenBack, IsLost, IsHandedOn

LEMMA EventStaysPut ==
  ASSUME NEW m, NEW i \in LiveVouchers(m), NEW w \in Customers, NEW x \in Holders(m, i),
         VoucherSound(m, i), VoucherEvent(m, i, w)
  PROVE  StaysPut(m, i, x)
<1> SUFFICES ASSUME Shown(m, i, x), voucher'[m][i] # NoAccount
             PROVE  voucherToken'[m][i][x] \in {voucherToken[m][i][x],
                                                Thawed(voucherToken[m][i][x])}
  BY DEF StaysPut, Shown
<1>0. x \in Customers /\ InHand(m, i, x) BY DEF Holders, InHand
<1>1. CASE SameInHand(m, i, x) BY <1>0, <1>1 DEF SameInHand
<1>2. CASE x = w
  <2>1. ~IsGiven(m, i, w) BY DEF IsGiven, LiveVouchers
  <2>2. ~IsShown(m, i, w) /\ ~IsLost(m, i, w) BY <1>2 DEF IsShown, IsLost
  <2>3. ~IsHonoured(m, i, w) /\ ~IsSwept(m, i, w) BY DEF IsHonoured, IsSwept, Ends
  <2>4. IsTakenBack(m, i, w) => voucherToken'[m][i][x] = Thawed(voucherToken[m][i][x])
    BY <1>2 DEF IsTakenBack
  <2> QED BY <2>1, <2>2, <2>3, <2>4 DEF VoucherEvent, IsHandedOn
<1>3. ASSUME x # w, NEW to \in Customers, IsHandedOn(m, i, w, to) PROVE FALSE
  BY <1>0, <1>3 DEF IsHandedOn, IsLost, VoucherSound
<1> QED BY <1>0, <1>1, <1>2, <1>3 DEF VoucherEvent

FairStep ==
  \A m \in Merchants : \A i \in LiveVouchers(m) :
    EndsFairly(m, i) /\ \A w \in Holders(m, i) : StaysPut(m, i, w)

LEMMA StepsAreFair == TypeOK /\ Sound /\ [Next]_vars => FairStep
<1> SUFFICES ASSUME TypeOK, Sound, [Next]_vars, NEW n \in Merchants, NEW j \in LiveVouchers(n)
             PROVE  EndsFairly(n, j) /\ \A x \in Holders(n, j) : StaysPut(n, j, x)
  BY DEF FairStep
<1>0. j \in VoucherIds BY DEF LiveVouchers
<1>1. CASE Untouched(n, j) BY <1>1, UntouchedIsFair
<1>2. ASSUME NEW w \in Customers, VoucherEvent(n, j, w)
      PROVE  EndsFairly(n, j) /\ \A x \in Holders(n, j) : StaysPut(n, j, x)
  <2>1. VoucherSound(n, j) BY <1>0 DEF Sound
  <2> QED BY <1>2, <2>1, EventEndsFairly, EventStaysPut
<1>3. Event BY SoundMeans, StepIsEvent
<1> QED BY <1>0, <1>1, <1>2, <1>3 DEF Event, Quiet, ShopEvent, OthersUntouched

LEMMA AlwaysFair == Spec => [][FairStep]_vars
BY TypeCorrect, InitSound, NextSound, StepsAreFair, PTL DEF Spec

\* A voucher in date ends only as a redemption, in the hands of the holder who
\* presented it; one past its date never ends as one.
THEOREM VouchersEndFairly == Spec => VoucherEndsFairly
<1>1. FairStep => \A m \in Merchants : \A i \in LiveVouchers(m) : EndsFairly(m, i)
  BY DEF FairStep
<1> QED BY <1>1, AlwaysFair, PTL DEF VoucherEndsFairly

\* A presented voucher stays in its holder's account, by program and wallets
\* alike, until the holder takes it back or it ends.
THEOREM PresentedStays == Spec => PresentedStaysPut
<1>1. FairStep => \A m \in Merchants : \A i \in LiveVouchers(m) :
                    \A w \in Holders(m, i) : StaysPut(m, i, w)
  BY DEF FairStep
<1> QED BY <1>1, AlwaysFair, PTL DEF PresentedStaysPut
=============================================================================
