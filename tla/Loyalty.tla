------------------------------ MODULE Loyalty ------------------------------
(***************************************************************************)
(* The loyalty program: the instructions lib.rs exposes, each a            *)
(* transaction that runs alone and either takes effect as a whole or not   *)
(* at all, in any order, signed by any merchant, customer or relayer,      *)
(* together with what wallets do to their own tokens and the clock.        *)
(***************************************************************************)
EXTENDS Shops, Receipts, Vouchers

CONSTANTS        \* the arguments instructions are called with
  StampGoals,    \* stamps_required
  ReceiptTtls,   \* receipt_ttl_seconds
  LockDates      \* terms_locked_until

ASSUME ArgumentsAssumption ==
  /\ StampGoals \subseteq Nat
  /\ ReceiptTtls \subseteq Nat
  /\ LockDates \subseteq Nat

ShopNext ==
  \E m \in Merchants :
    \/ \E stamps \in StampGoals, ttl \in ReceiptTtls, lock \in LockDates :
         \/ \E relayer \in Relayers : RegisterBusiness(m, stamps, ttl, lock, relayer)
         \/ UpdateBusinessConfig(m, stamps, ttl, lock)
    \/ CloseBusiness(m)

ReceiptNext ==
  \E m \in Merchants, s \in Secrets :
    \/ \E relayer \in Relayers : IssueReceipt(m, s, relayer)
    \/ \E c \in Customers, relayer \in Relayers : ClaimReceipt(m, s, c, relayer)
    \/ ReclaimExpiredReceipt(m, s)

CardNext ==
  \E m \in Merchants, c \in Customers :
    \/ \E to \in Customers, amount \in 1..U8Max : TransferStamps(m, c, to, amount)
    \/ MintCardNft(m, c)
    \/ RetireIdleCardNft(m, c)
    \/ CloseDeadCard(m, c)
    \/ \E relayer \in Relayers : MintVoucher(m, c, relayer)

VoucherNext ==
  \E m \in Merchants, i \in VoucherIds, w \in Customers :
    \/ PresentVoucher(m, i, w)
    \/ CancelPresentation(m, i, w)
    \/ \E to \in Customers : TransferVoucher(m, i, w, to)
    \/ RedeemVoucher(m, i, w)
    \/ CloseExpiredVoucher(m, i, w)

WalletNext ==
  \/ \E id \in cardHeld : WalletBurnsCardToken(id)
  \/ \E m \in Merchants, i \in VoucherIds, w \in Customers :
       \/ \E to \in Customers : WalletMovesVoucher(m, i, w, to)
       \/ WalletBurnsVoucher(m, i, w)
       \/ WalletOpensToken(m, i, w)
       \/ WalletClosesToken(m, i, w)
       \/ WalletGrantsClose(m, i, w)

Next == ShopNext \/ ReceiptNext \/ CardNext \/ VoucherNext \/ WalletNext \/ Tick

Spec == Init /\ [][Next]_vars
-----------------------------------------------------------------------------
OpenCards(m)    == {c \in Customers : card[m][c] # NoAccount}
LiveVouchers(m) == {i \in VoucherIds : voucher[m][i] # NoAccount}

\* The counters close_business decides by tell the truth: as many cards and
\* vouchers are live at a shop as it says, whatever order they were opened,
\* cashed in, redeemed, expired and swept in.
CountersExact ==
  \A m \in Merchants : shop[m] # NoAccount =>
    /\ shop[m].open_cards = Cardinality(OpenCards(m))
    /\ shop[m].open_vouchers = Cardinality(LiveVouchers(m))

\* Nobody is left with stamps on a card or with a voucher of a shop that has
\* been closed (close_business.rs).
NoOrphans ==
  \A m \in Merchants : shop[m] = NoAccount => OpenCards(m) = {} /\ LiveVouchers(m) = {}

\* A card NFT exists only for an open card, at that card's current cycle, with
\* its token account: so the address of a card's next NFT is always free, also
\* for a card that was closed and opened again (close_dead_card.rs).
CardNftAtCurrentCycle ==
  /\ \A id \in cardMint : /\ card[id[1]][id[2]] # NoAccount
                          /\ card[id[1]][id[2]].nft_cycle = id[3]
  /\ cardToken = cardMint
  /\ cardHeld \subseteq cardMint

\* A voucher and its mint live and die together; its one token is in at most
\* one wallet, and nowhere once the voucher is gone; only the account that
\* holds it is ever frozen.
VoucherNftSound ==
  \A m \in Merchants, i \in VoucherIds :
    /\ voucher[m][i] # NoAccount <=> <<m, i>> \in voucherMint
    /\ \A w \in Holders(m, i) : Holders(m, i) = {w} /\ voucher[m][i] # NoAccount
    /\ \A w \in Customers :
         Frozen(voucherToken[m][i][w])
           => w \in Holders(m, i)

\* Every live voucher has an id the shop gave out, and what a shop has given
\* out covers what it has redeemed and what is still out.
VouchersAccounted ==
  \A m \in Merchants : shop[m] # NoAccount =>
    /\ \A i \in LiveVouchers(m) : i < shop[m].total_vouchers_issued
    /\ shop[m].total_redemptions + shop[m].open_vouchers <= shop[m].total_vouchers_issued

\* The addresses of a shop's next voucher and mint are free, also when it has
\* closed and registered again and its numbers start over.  All that can be in
\* the way of cashing in a card is an empty token account that was left at its
\* customer's address when this number was out before (mint_voucher.rs).
NextRewardMintable ==
  \A m \in Merchants :
    LET i == shop[m].total_vouchers_issued IN
    shop[m] # NoAccount /\ i \in VoucherIds =>
      /\ voucher[m][i] = NoAccount /\ <<m, i>> \notin voucherMint
      /\ \A c \in Customers : ~Holds(voucherToken[m][i][c]) /\ ~Frozen(voucherToken[m][i][c])

\* No shop asks for no stamps at all, or for more than its rules allow, and no
\* open card was ever given such a goal: the rule for shops reaches the cards
\* through every opening and every cash-in (business_rules.rs).
GoalsInRange ==
  \A m \in Merchants :
    /\ shop[m] # NoAccount => shop[m].stamps_required \in 1..MaxStampsRequired
    /\ \A c \in OpenCards(m) :
         card[m][c].stamps_required_snapshot \in 1..MaxStampsRequired
-----------------------------------------------------------------------------
KeepsTerms(m) ==
  shop[m] # NoAccount /\ now < shop[m].terms_locked_until =>
    /\ shop'[m] # NoAccount
    /\ shop'[m].stamps_required = shop[m].stamps_required
    /\ shop'[m].receipt_ttl_seconds = shop[m].receipt_ttl_seconds
    /\ shop'[m].terms_locked_until >= shop[m].terms_locked_until

\* What a shop promised it keeps: until the date it committed to it neither
\* goes away nor changes its terms, and it cannot shorten the promise
\* (business_rules.rs).
TermsHonoured == [][\A m \in Merchants : KeepsTerms(m)]_vars

KeepsGoal(m, c) ==
  /\ card[m][c] # NoAccount /\ card'[m][c] # NoAccount
  /\ card'[m][c].stamps_required_snapshot # card[m][c].stamps_required_snapshot
  => /\ card'[m][c].rewards_earned = card[m][c].rewards_earned + 1
     /\ card'[m][c].stamps_required_snapshot = shop[m].stamps_required

\* A card in progress keeps its goal: it changes only when the card is cashed
\* in, and then to what the shop asks for at that moment (mint_voucher.rs).
GoalpostsStay == [][\A m \in Merchants, c \in Customers : KeepsGoal(m, c)]_vars

\* What a card has spent is worked out from two fields no instruction writes
\* for that purpose.
Spent(k) == k.lifetime_stamps - k.stamps

SpendsOnRewards(k, kk) ==
  IF k = NoAccount THEN Spent(kk) = 0
  ELSE Spent(kk) - Spent(k)
         = k.stamps_required_snapshot * (kk.rewards_earned - k.rewards_earned)

\* The leaderboard's figure, lifetime_stamps - stamps, is what a card spent on
\* rewards and nothing else: a new card starts at zero, each reward adds the
\* goal it was earned under, and passing stamps between friends moves the figure
\* of neither, so nobody climbs or sinks by it (transfer_stamps.rs).
LeaderboardHonest ==
  [][\A m \in Merchants : \A c \in Customers :
       card'[m][c] # NoAccount => SpendsOnRewards(card[m][c], card'[m][c])]_vars

EndsFairly(m, i) ==
  voucher'[m][i] = NoAccount =>
    IF Usable(m, i)
    THEN /\ \E w \in Holders(m, i) : Frozen(voucherToken[m][i][w])
         /\ shop'[m].total_redemptions = shop[m].total_redemptions + 1
    ELSE shop'[m].total_redemptions = shop[m].total_redemptions

\* A voucher in date ends only in the hands of a holder who presented it, and
\* counts as a redemption exactly then; one past its date is only swept.
VoucherEndsFairly ==
  [][\A m \in Merchants : \A i \in LiveVouchers(m) : EndsFairly(m, i)]_vars

StaysPut(m, i, w) ==
  Frozen(voucherToken[m][i][w]) /\ voucher'[m][i] # NoAccount =>
    voucherToken'[m][i][w] \in {voucherToken[m][i][w], Thawed(voucherToken[m][i][w])}

\* While a merchant is looking at a presented voucher it stays where it is:
\* no wallet and no gift moves it before the holder takes it back or it ends.
PresentedStaysPut ==
  [][\A m \in Merchants : \A i \in LiveVouchers(m) : \A w \in Holders(m, i) :
       StaysPut(m, i, w)]_vars
=============================================================================
