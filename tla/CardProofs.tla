----------------------------- MODULE CardProofs -----------------------------
(***************************************************************************)
(* What a customer may rely on, for any number of shops, customers and     *)
(* receipts and any limits: a card's NFT address is free when it is        *)
(* needed, the leaderboard counts what rewards cost, shops and cards keep  *)
(* the terms they promised, and no goal is ever zero.                      *)
(***************************************************************************)
EXTENDS LoyaltyProofs

-----------------------------------------------------------------------------
(* What the handlers write to a card and to a shop's terms.                 *)

\* What a step that is no cash-in may do to a card without breaking a word.
SameGoalAndCycle(k, kk) ==
  /\ kk.stamps_required_snapshot = k.stamps_required_snapshot
  /\ kk.nft_cycle = k.nft_cycle

SpendsNothing(k, kk) ==
  Spent(kk) = Spent(k) /\ kk.rewards_earned = k.rewards_earned

SameTerms(b, bb) ==
  /\ bb.stamps_required = b.stamps_required
  /\ bb.receipt_ttl_seconds = b.receipt_ttl_seconds
  /\ bb.terms_locked_until = b.terms_locked_until

\* A claim adds one to stamps and to lifetime_stamps alike.
LEMMA ClaimWrites ==
  ASSUME NEW k \in LoyaltyCard, now \in Nat, k.stamps < U8Max
  PROVE  LET kk == Stamped(DailyWindow(k)) IN
         SameGoalAndCycle(k, kk) /\ SpendsNothing(k, kk)
<1> DEFINE d == DailyWindow(k)
<1>1. d \in LoyaltyCard BY DailyWindowType
<1>2. /\ SameGoalAndCycle(k, d)
      /\ d.stamps = k.stamps /\ d.lifetime_stamps = k.lifetime_stamps
      /\ d.rewards_earned = k.rewards_earned
  BY DEF DailyWindow, SameGoalAndCycle, LoyaltyCard
<1> HIDE DEF d
<1>3. /\ SameGoalAndCycle(d, Stamped(d))
      /\ Stamped(d).stamps = d.stamps + 1
      /\ Stamped(d).lifetime_stamps = d.lifetime_stamps + 1
      /\ Stamped(d).rewards_earned = d.rewards_earned
  BY <1>1 DEF Stamped, SameGoalAndCycle, LoyaltyCard
<1>4. d.stamps \in Int /\ d.lifetime_stamps \in Int BY <1>1 DEF LoyaltyCard
<1>5. SpendsNothing(k, Stamped(d))
  BY <1>2, <1>3, <1>4 DEF SpendsNothing, Spent
<1> QED BY <1>2, <1>3, <1>5 DEF SameGoalAndCycle, d

\* Passing stamps on moves both figures together.
LEMMA PassWrites ==
  ASSUME NEW k \in LoyaltyCard, NEW amount \in Nat
  PROVE  /\ SameGoalAndCycle(k, Passed(k, amount))
         /\ SameGoalAndCycle(k, Received(k, amount))
         /\ SpendsNothing(k, Passed(k, amount))
         /\ SpendsNothing(k, Received(k, amount))
<1>1. /\ SameGoalAndCycle(k, Passed(k, amount))
      /\ SameGoalAndCycle(k, Received(k, amount))
  BY DEF Passed, Received, SameGoalAndCycle, LoyaltyCard
<1>2. /\ Passed(k, amount).stamps = k.stamps - amount
      /\ Passed(k, amount).lifetime_stamps = k.lifetime_stamps - amount
      /\ Passed(k, amount).rewards_earned = k.rewards_earned
  BY DEF Passed, LoyaltyCard
<1>3. /\ Received(k, amount).stamps = k.stamps + amount
      /\ Received(k, amount).lifetime_stamps = k.lifetime_stamps + amount
      /\ Received(k, amount).rewards_earned = k.rewards_earned
  BY DEF Received, LoyaltyCard
<1>4. k.stamps \in Int /\ k.lifetime_stamps \in Int BY DEF LoyaltyCard
<1> QED BY <1>1, <1>2, <1>3, <1>4 DEF SpendsNothing, Spent

\* A cash-in spends the card's goal and counts one reward.
LEMMA CashInWrites ==
  ASSUME NEW k \in LoyaltyCard, NEW b \in Business, NEW burned \in BOOLEAN
  PROVE  LET kk == CashedIn(k, b, burned) IN
         /\ kk.rewards_earned = k.rewards_earned + 1
         /\ kk.stamps_required_snapshot = b.stamps_required
         /\ ~burned => kk.nft_cycle = k.nft_cycle
         /\ Spent(kk) = Spent(k) + k.stamps_required_snapshot
<1> DEFINE kk == CashedIn(k, b, burned)
<1>1. /\ kk.stamps = k.stamps - k.stamps_required_snapshot
      /\ kk.lifetime_stamps = k.lifetime_stamps
      /\ kk.rewards_earned = k.rewards_earned + 1
      /\ kk.stamps_required_snapshot = b.stamps_required
      /\ ~burned => kk.nft_cycle = k.nft_cycle
  BY DEF CashedIn, LoyaltyCard
<1> HIDE DEF kk
<1>2. k.stamps \in Int /\ k.lifetime_stamps \in Int /\ k.stamps_required_snapshot \in Int
  BY DEF LoyaltyCard
<1>3. Spent(kk) = Spent(k) + k.stamps_required_snapshot BY <1>1, <1>2 DEF Spent
<1> QED BY <1>1, <1>3 DEF kk

\* Retiring an idle NFT moves the cycle and nothing else.
LEMMA RetireWrites ==
  ASSUME NEW k \in LoyaltyCard
  PROVE  LET kk == [k EXCEPT !.nft_cycle = @ + 1] IN
         kk.stamps_required_snapshot = k.stamps_required_snapshot /\ SpendsNothing(k, kk)
BY DEF SpendsNothing, Spent, LoyaltyCard

\* No counter a handler keeps is one of the shop's terms.
LEMMA CountersKeepTerms ==
  ASSUME NEW b \in Business
  PROVE  /\ SameTerms(b, [HourlyWindow(b) EXCEPT !.receipts_this_window = @ + 1])
         /\ \A opening \in BOOLEAN : SameTerms(b, CountStamp(b, opening))
         /\ SameTerms(b, CountMinted(b))
         /\ SameTerms(b, CountClosedCard(b))
         /\ SameTerms(b, CountRedeemed(b))
         /\ SameTerms(b, CountClosedVoucher(b))
<1>1. SameTerms(b, [HourlyWindow(b) EXCEPT !.receipts_this_window = @ + 1])
  BY DEF HourlyWindow, SameTerms, Business
<1>2. \A opening \in BOOLEAN : SameTerms(b, CountStamp(b, opening))
  BY DEF CountStamp, SameTerms, Business
<1>3. SameTerms(b, CountMinted(b)) BY DEF CountMinted, SameTerms, Business
<1>4. SameTerms(b, CountClosedCard(b)) BY DEF CountClosedCard, SameTerms, Business
<1>5. SameTerms(b, CountClosedVoucher(b))
  BY DEF CountClosedVoucher, SameTerms, Business
<1>6. SameTerms(b, CountRedeemed(b))
  BY <1>5 DEF CountRedeemed, CountClosedVoucher, SameTerms, Business
<1> QED BY <1>1, <1>2, <1>3, <1>4, <1>5, <1>6
-----------------------------------------------------------------------------
(* Card NFTs.                                                               *)

NftSound == TypeOK /\ CardNftAtCurrentCycle

\* A step that keeps every card, its cycle and its NFT.
LEMMA NftsUntouched ==
  ASSUME NftSound, UNCHANGED <<cardMint, cardToken>>, cardHeld' \subseteq cardMint,
         \A m \in Merchants, c \in Customers : card[m][c] # NoAccount =>
           card'[m][c] # NoAccount /\ card'[m][c].nft_cycle = card[m][c].nft_cycle
  PROVE  CardNftAtCurrentCycle'
<1>1. ASSUME NEW id \in cardMint
      PROVE  /\ card'[id[1]][id[2]] # NoAccount
             /\ card'[id[1]][id[2]].nft_cycle = id[3]
  <2>1. id[1] \in Merchants /\ id[2] \in Customers BY DEF NftSound, TypeOK
  <2>2. card[id[1]][id[2]] # NoAccount /\ card[id[1]][id[2]].nft_cycle = id[3]
    BY DEF NftSound, CardNftAtCurrentCycle
  <2> QED BY <2>1, <2>2
<1> QED BY <1>1 DEF NftSound, CardNftAtCurrentCycle

\* The only NFT of a card is the one at its current cycle.
LEMMA OneNft ==
  ASSUME NftSound, NEW m \in Merchants, NEW c \in Customers,
         NEW id \in cardMint, id # CardNftId(m, c)
  PROVE  id[1] # m \/ id[2] # c
<1>1. id = <<id[1], id[2], id[3]>> BY DEF NftSound, TypeOK
<1>2. card[id[1]][id[2]].nft_cycle = id[3] BY DEF NftSound, CardNftAtCurrentCycle
<1> QED BY <1>1, <1>2 DEF CardNftId

\* Whatever a step does to one card whose NFT it burned, or that has none, the
\* NFTs left are those of other cards.
LEMMA NftGone ==
  ASSUME NftSound, NEW m \in Merchants, NEW c \in Customers,
         BurnAndCloseCardNft(CardNftId(m, c)),
         \A x \in Merchants, y \in Customers :
           x # m \/ y # c => card'[x][y] = card[x][y]
  PROVE  CardNftAtCurrentCycle'
<1>1. ASSUME NEW id \in cardMint'
      PROVE  /\ card'[id[1]][id[2]] # NoAccount
             /\ card'[id[1]][id[2]].nft_cycle = id[3]
  <2>1. id \in cardMint /\ id # CardNftId(m, c) BY DEF BurnAndCloseCardNft
  <2>2. id[1] \in Merchants /\ id[2] \in Customers BY <2>1 DEF NftSound, TypeOK
  <2>3. card'[id[1]][id[2]] = card[id[1]][id[2]] BY <2>1, <2>2, OneNft
  <2> QED BY <2>1, <2>3 DEF NftSound, CardNftAtCurrentCycle
<1>2. cardToken' = cardMint' /\ cardHeld' \subseteq cardMint'
  BY DEF BurnAndCloseCardNft, NftSound, CardNftAtCurrentCycle
<1> QED BY <1>1, <1>2 DEF CardNftAtCurrentCycle

\* No instruction leaves an NFT at any cycle but its card's.
LEMMA NftStep == NftSound /\ [Next]_vars => CardNftAtCurrentCycle'
<1> SUFFICES ASSUME NftSound, [Next]_vars PROVE CardNftAtCurrentCycle'
  OBVIOUS
<1> USE DEF cardNftVars
<1>0. TypeOK /\ cardHeld \subseteq cardMint /\ now \in Nat
  BY DEF NftSound, CardNftAtCurrentCycle, TypeOK
<1>1. ASSUME UNCHANGED <<card, cardMint, cardToken>>, cardHeld' \subseteq cardHeld
      PROVE  CardNftAtCurrentCycle'
  BY <1>0, <1>1, NftsUntouched
<1>2. CASE ShopNext
  BY <1>1, <1>2 DEF ShopNext, RegisterBusiness, UpdateBusinessConfig, CloseBusiness
<1>3. ASSUME NEW m \in Merchants, NEW s \in Secrets, NEW c \in Customers,
             NEW relayer \in Relayers, ClaimReceipt(m, s, c, relayer)
      PROVE  CardNftAtCurrentCycle'
  <2> DEFINE k == CardAtCounter(m, c, relayer)
             kk == Stamped(DailyWindow(k))
  <2>1. card' = [card EXCEPT ![m][c] = kk] BY <1>3 DEF ClaimReceipt
  <2>2. k \in LoyaltyCard
    BY <1>0, <1>3, AccountType, OpenedCardType DEF ClaimReceipt, CardAtCounter
  <2>3. DailyWindow(k) \in LoyaltyCard BY <1>0, <2>2, DailyWindowType
  <2>4. DailyWindow(k).stamps < U8Max BY <1>3 DEF ClaimReceipt, RoomForStamp
  <2>5. kk \in LoyaltyCard BY <1>0, <2>3, <2>4, StampedType
  <2>6. DailyWindow(k).stamps = k.stamps BY <2>2 DEF DailyWindow, LoyaltyCard
  <2>7. kk.nft_cycle = k.nft_cycle
    BY <1>0, <2>2, <2>4, <2>6, ClaimWrites DEF SameGoalAndCycle
  <2>8. card[m][c] # NoAccount => k = card[m][c] BY DEF CardAtCounter
  <2> HIDE DEF kk, k
  <2>9. \A x \in Merchants, y \in Customers : card[x][y] # NoAccount =>
          card'[x][y] # NoAccount /\ card'[x][y].nft_cycle = card[x][y].nft_cycle
    BY <1>0, <2>1, <2>5, <2>7, <2>8, NoAccountAssumption DEF TypeOK
  <2> QED BY <1>0, <1>3, <2>9, NftsUntouched DEF ClaimReceipt
<1>4. CASE ReceiptNext
  BY <1>1, <1>3, <1>4 DEF ReceiptNext, IssueReceipt, ReclaimExpiredReceipt
<1>5. ASSUME NEW m \in Merchants, NEW c \in Customers, NEW to \in Customers,
             NEW amount \in 1..U8Max, TransferStamps(m, c, to, amount)
      PROVE  CardNftAtCurrentCycle'
  <2> DEFINE sender == Passed(card[m][c], amount)
             receiver == Received(card[m][to], amount)
  <2>1. card[m][c] \in LoyaltyCard /\ card[m][to] \in LoyaltyCard
    BY <1>0, <1>5, AccountType DEF TransferStamps
  <2>2. sender \in LoyaltyCard /\ receiver \in LoyaltyCard
    BY <1>5, <2>1, PassedType, ReceivedType DEF TransferStamps
  <2>3. /\ sender.nft_cycle = card[m][c].nft_cycle
        /\ receiver.nft_cycle = card[m][to].nft_cycle
    BY <1>5, <2>1, PassWrites DEF SameGoalAndCycle
  <2>4. card' = [card EXCEPT ![m] = [card[m] EXCEPT ![c] = sender, ![to] = receiver]]
    BY <1>0, <1>5, <2>1 DEF TransferStamps, TypeOK
  <2> HIDE DEF sender, receiver
  <2>5. \A x \in Merchants, y \in Customers : card[x][y] # NoAccount =>
          card'[x][y] # NoAccount /\ card'[x][y].nft_cycle = card[x][y].nft_cycle
    BY <1>0, <2>2, <2>3, <2>4, NoAccountAssumption DEF TypeOK
  <2> QED BY <1>0, <1>5, <2>5, NftsUntouched DEF TransferStamps
<1>6. ASSUME NEW m \in Merchants, NEW c \in Customers, MintCardNft(m, c)
      PROVE  CardNftAtCurrentCycle'
  BY <1>6 DEF MintCardNft, CardNftId, NftSound, CardNftAtCurrentCycle
<1>7. ASSUME NEW m \in Merchants, NEW c \in Customers, RetireIdleCardNft(m, c)
      PROVE  CardNftAtCurrentCycle'
  <2>1. \A x \in Merchants, y \in Customers :
          x # m \/ y # c => card'[x][y] = card[x][y]
    BY <1>0, <1>7 DEF RetireIdleCardNft, TypeOK
  <2> QED BY <1>7, <2>1, NftGone DEF RetireIdleCardNft
<1>8. ASSUME NEW m \in Merchants, NEW c \in Customers, CloseDeadCard(m, c)
      PROVE  CardNftAtCurrentCycle'
  <2>1. \A x \in Merchants, y \in Customers :
          x # m \/ y # c => card'[x][y] = card[x][y]
    BY <1>0, <1>8 DEF CloseDeadCard, TypeOK
  <2>2. CardNftId(m, c) \notin cardMint BY <1>8 DEF CloseDeadCard, Dead
  <2>3. BurnAndCloseCardNft(CardNftId(m, c))
    BY <1>8, <2>2 DEF CloseDeadCard, BurnAndCloseCardNft, NftSound, CardNftAtCurrentCycle
  <2> QED BY <2>1, <2>3, NftGone
<1>9. ASSUME NEW m \in Merchants, NEW c \in Customers, NEW relayer \in Relayers,
             MintVoucher(m, c, relayer)
      PROVE  CardNftAtCurrentCycle'
  <2> DEFINE burned == CardNftId(m, c) \in cardMint
  <2>1. \A x \in Merchants, y \in Customers :
          x # m \/ y # c => card'[x][y] = card[x][y]
    BY <1>0, <1>9 DEF MintVoucher, TypeOK
  <2>2. CASE burned
    BY <1>9, <2>1, <2>2, NftGone DEF MintVoucher
  <2>3. CASE ~burned
    <3>1. BurnAndCloseCardNft(CardNftId(m, c))
      BY <1>9, <2>3
      DEF MintVoucher, BurnAndCloseCardNft, NftSound, CardNftAtCurrentCycle
    <3> QED BY <2>1, <3>1, NftGone
  <2> QED BY <2>2, <2>3
<1>10. CASE CardNext BY <1>5, <1>6, <1>7, <1>8, <1>9, <1>10 DEF CardNext
<1>11. CASE VoucherNext
  BY <1>1, <1>11 DEF VoucherNext, PresentVoucher, CancelPresentation, TransferVoucher,
                     RedeemVoucher, CloseExpiredVoucher
<1>12. CASE WalletNext
  <2>1. ASSUME NEW id \in cardHeld, WalletBurnsCardToken(id)
        PROVE  CardNftAtCurrentCycle'
    BY <1>1, <2>1 DEF WalletBurnsCardToken
  <2>2. ASSUME NEW m \in Merchants, NEW i \in VoucherIds, NEW w \in Customers,
               \/ \E to \in Customers : WalletMovesVoucher(m, i, w, to)
               \/ WalletBurnsVoucher(m, i, w)
               \/ WalletOpensToken(m, i, w)
               \/ WalletClosesToken(m, i, w)
               \/ WalletGrantsClose(m, i, w)
        PROVE  CardNftAtCurrentCycle'
    BY <1>1, <2>2 DEF WalletMovesVoucher, WalletBurnsVoucher, WalletOpensToken,
                      WalletClosesToken, WalletGrantsClose
  <2> QED BY <1>12, <2>1, <2>2 DEF WalletNext
<1>13. CASE Tick BY <1>1, <1>13 DEF Tick
<1>14. CASE UNCHANGED vars BY <1>1, <1>14 DEF vars
<1> QED BY <1>2, <1>4, <1>10, <1>11, <1>12, <1>13, <1>14 DEF Next

\* A card's NFT exists only at the card's current cycle, so the address its
\* next one needs is free: cashing in, retiring an idle NFT and closing a dead
\* card (which starts the cycles again) never leave one in the way.
THEOREM NftAddressFree == Spec => []CardNftAtCurrentCycle
<1>1. Init => NftSound BY InitType DEF Init, NftSound, CardNftAtCurrentCycle
<1>2. NftSound /\ [Next]_vars => NftSound' BY NftStep, NextType DEF NftSound
<1>3. NftSound => CardNftAtCurrentCycle BY DEF NftSound
<1> QED BY <1>1, <1>2, <1>3, PTL DEF Spec
-----------------------------------------------------------------------------
(* The leaderboard and the goal of a card in progress.                      *)

KeepsHonest(m, c) ==
  card'[m][c] # NoAccount => SpendsOnRewards(card[m][c], card'[m][c])

\* Whatever goal a card has after a step it had before, or takes from its shop.
TakesGoal(m, c) ==
  card'[m][c] # NoAccount =>
    \/ /\ card[m][c] # NoAccount
       /\ card'[m][c].stamps_required_snapshot = card[m][c].stamps_required_snapshot
    \/ /\ shop[m] # NoAccount
       /\ card'[m][c].stamps_required_snapshot = shop[m].stamps_required

KeepsFaith(m, c) == KeepsGoal(m, c) /\ KeepsHonest(m, c) /\ TakesGoal(m, c)

\* A step that spends nothing spends what no rewards cost.
LEMMA NothingForNothing ==
  ASSUME NEW k \in LoyaltyCard, NEW kk, SpendsNothing(k, kk)
  PROVE  SpendsOnRewards(k, kk)
<1>1. /\ Spent(k) \in Int /\ k.rewards_earned \in Int /\ k.stamps_required_snapshot \in Int
      /\ k # NoAccount
  BY NoAccountAssumption DEF Spent, LoyaltyCard
<1>2. Spent(kk) - Spent(k) = 0 /\ kk.rewards_earned - k.rewards_earned = 0
  BY <1>1 DEF SpendsNothing
<1>3. k.stamps_required_snapshot * 0 = 0 BY <1>1
<1> QED BY <1>1, <1>2, <1>3 DEF SpendsOnRewards

\* A card left as it is.
LEMMA FaithKept ==
  ASSUME TypeOK, NEW m \in Merchants, NEW c \in Customers, card'[m][c] = card[m][c]
  PROVE  KeepsFaith(m, c)
<1>1. ASSUME card[m][c] # NoAccount PROVE SpendsOnRewards(card[m][c], card[m][c])
  <2>1. card[m][c] \in LoyaltyCard BY <1>1, AccountType
  <2> QED BY <2>1, NothingForNothing DEF SpendsNothing
<1> QED BY <1>1 DEF KeepsFaith, KeepsGoal, KeepsHonest, TakesGoal

\* A step that writes one card concerns no other.
LEMMA OneCard ==
  ASSUME TypeOK, NEW m \in Merchants, NEW c \in Customers, KeepsFaith(m, c),
         NEW k, card' = [card EXCEPT ![m][c] = k]
  PROVE  \A x \in Merchants, y \in Customers : KeepsFaith(x, y)
<1>1. ASSUME NEW x \in Merchants, NEW y \in Customers, x # m \/ y # c
      PROVE  KeepsFaith(x, y)
  <2>1. card'[x][y] = card[x][y] BY <1>1 DEF TypeOK
  <2> QED BY <2>1, FaithKept
<1> QED BY <1>1

\* A wallet writes none of the program's accounts.
LEMMA WalletKeepsAccounts == WalletNext => shop' = shop /\ card' = card
<1> SUFFICES ASSUME WalletNext PROVE shop' = shop /\ card' = card
  OBVIOUS
<1>1. ASSUME NEW id \in cardHeld, WalletBurnsCardToken(id)
      PROVE  shop' = shop /\ card' = card
  BY <1>1 DEF WalletBurnsCardToken
<1>2. ASSUME NEW m \in Merchants, NEW i \in VoucherIds, NEW w \in Customers,
             \/ \E to \in Customers : WalletMovesVoucher(m, i, w, to)
             \/ WalletBurnsVoucher(m, i, w)
             \/ WalletOpensToken(m, i, w)
             \/ WalletClosesToken(m, i, w)
             \/ WalletGrantsClose(m, i, w)
      PROVE  shop' = shop /\ card' = card
  BY <1>2 DEF WalletMovesVoucher, WalletBurnsVoucher, WalletOpensToken,
              WalletClosesToken, WalletGrantsClose
<1> QED BY <1>1, <1>2 DEF WalletNext

\* What each step does to the cards it writes: a goal moves only when the card
\* is cashed in, and no card comes to claim a reward it did not pay for.
LEMMA CardStep ==
  ASSUME TypeOK, [Next]_vars
  PROVE  \A m \in Merchants, c \in Customers : KeepsFaith(m, c)
<1> DEFINE Faith == \A x \in Merchants, y \in Customers : KeepsFaith(x, y)
<1> SUFFICES Faith
  OBVIOUS
<1>0. now \in Nat BY DEF TypeOK
<1>1. ASSUME card' = card PROVE Faith
  BY <1>1, FaithKept
<1>2. CASE ShopNext
  BY <1>1, <1>2 DEF ShopNext, RegisterBusiness, UpdateBusinessConfig, CloseBusiness
<1>3. ASSUME NEW m \in Merchants, NEW s \in Secrets, NEW c \in Customers,
             NEW relayer \in Relayers, ClaimReceipt(m, s, c, relayer)
      PROVE  Faith
  <2> DEFINE k == CardAtCounter(m, c, relayer)
             kk == Stamped(DailyWindow(k))
  <2>1. card' = [card EXCEPT ![m][c] = kk] BY <1>3 DEF ClaimReceipt
  <2>2. k \in LoyaltyCard
    BY <1>3, AccountType, OpenedCardType DEF ClaimReceipt, CardAtCounter
  <2>3. DailyWindow(k).stamps = k.stamps BY <2>2 DEF DailyWindow, LoyaltyCard
  <2>4. k.stamps < U8Max BY <1>3, <2>3 DEF ClaimReceipt, RoomForStamp
  <2>5. SameGoalAndCycle(k, kk) /\ SpendsNothing(k, kk)
    BY <1>0, <2>2, <2>4, ClaimWrites
  <2>6. card[m][c] # NoAccount => k = card[m][c] BY DEF CardAtCounter
  <2>7. card[m][c] = NoAccount =>
          Spent(k) = 0 /\ k.stamps_required_snapshot = shop[m].stamps_required
    BY DEF CardAtCounter, OpenedCard, Spent
  <2>8. SpendsOnRewards(k, kk) BY <2>2, <2>5, NothingForNothing
  <2>10. shop[m] # NoAccount BY <1>3 DEF ClaimReceipt
  <2> HIDE DEF k, kk
  <2>11. card'[m][c] = kk BY <2>1 DEF TypeOK
  <2>12. KeepsHonest(m, c)
    BY <2>5, <2>6, <2>7, <2>8, <2>11 DEF KeepsHonest, SpendsOnRewards, SpendsNothing
  <2>9. KeepsFaith(m, c)
    BY <2>5, <2>6, <2>7, <2>10, <2>11, <2>12
    DEF KeepsFaith, KeepsGoal, TakesGoal, SameGoalAndCycle
  <2> QED BY <2>1, <2>9, OneCard
<1>4. CASE ReceiptNext
  BY <1>1, <1>3, <1>4 DEF ReceiptNext, IssueReceipt, ReclaimExpiredReceipt
<1>5. ASSUME NEW m \in Merchants, NEW c \in Customers, NEW to \in Customers,
             NEW amount \in 1..U8Max, TransferStamps(m, c, to, amount)
      PROVE  Faith
  <2> DEFINE sender == Passed(card[m][c], amount)
             receiver == Received(card[m][to], amount)
  <2>1. card[m][c] \in LoyaltyCard /\ card[m][to] \in LoyaltyCard /\ c # to
    BY <1>5, AccountType DEF TransferStamps
  <2>2. /\ SameGoalAndCycle(card[m][c], sender)
        /\ SameGoalAndCycle(card[m][to], receiver)
        /\ SpendsOnRewards(card[m][c], sender)
        /\ SpendsOnRewards(card[m][to], receiver)
    BY <1>5, <2>1, PassWrites, NothingForNothing
  <2>3. card' = [card EXCEPT ![m] = [card[m] EXCEPT ![c] = sender, ![to] = receiver]]
    BY <1>5, <2>1 DEF TransferStamps, TypeOK
  <2> HIDE DEF sender, receiver
  <2>4. /\ card'[m][c] = sender /\ card'[m][to] = receiver
        /\ \A x \in Merchants, y \in Customers :
             x # m \/ (y # c /\ y # to) => card'[x][y] = card[x][y]
    BY <2>1, <2>3 DEF TypeOK
  <2>5. KeepsFaith(m, c) /\ KeepsFaith(m, to)
    BY <2>1, <2>2, <2>4, NoAccountAssumption
    DEF KeepsFaith, KeepsGoal, KeepsHonest, TakesGoal, SameGoalAndCycle
  <2>6. ASSUME NEW x \in Merchants, NEW y \in Customers, x # m \/ (y # c /\ y # to)
        PROVE  KeepsFaith(x, y)
    BY <2>4, <2>6, FaithKept
  <2> QED BY <2>5, <2>6
<1>6. ASSUME NEW m \in Merchants, NEW c \in Customers, RetireIdleCardNft(m, c)
      PROVE  Faith
  <2> DEFINE kk == [card[m][c] EXCEPT !.nft_cycle = @ + 1]
  <2>1. card' = [card EXCEPT ![m][c] = kk] BY <1>6 DEF RetireIdleCardNft
  <2>2. card[m][c] \in LoyaltyCard BY <1>6, AccountType DEF RetireIdleCardNft
  <2>3. /\ kk.stamps_required_snapshot = card[m][c].stamps_required_snapshot
        /\ SpendsOnRewards(card[m][c], kk)
    BY <2>2, RetireWrites, NothingForNothing
  <2> HIDE DEF kk
  <2>4. card'[m][c] = kk BY <2>1 DEF TypeOK
  <2>5. KeepsFaith(m, c)
    BY <2>2, <2>3, <2>4, NoAccountAssumption
    DEF KeepsFaith, KeepsGoal, KeepsHonest, TakesGoal
  <2> QED BY <2>1, <2>5, OneCard
<1>7. ASSUME NEW m \in Merchants, NEW c \in Customers, CloseDeadCard(m, c)
      PROVE  Faith
  <2>1. card' = [card EXCEPT ![m][c] = NoAccount] BY <1>7 DEF CloseDeadCard
  <2>2. card'[m][c] = NoAccount BY <2>1 DEF TypeOK
  <2>3. KeepsFaith(m, c) BY <2>2 DEF KeepsFaith, KeepsGoal, KeepsHonest, TakesGoal
  <2> QED BY <2>1, <2>3, OneCard
<1>8. ASSUME NEW m \in Merchants, NEW c \in Customers, NEW relayer \in Relayers,
             MintVoucher(m, c, relayer)
      PROVE  Faith
  <2> DEFINE burned == CardNftId(m, c) \in cardMint
             kk == CashedIn(card[m][c], shop[m], burned)
  <2>1. card' = [card EXCEPT ![m][c] = kk] BY <1>8 DEF MintVoucher
  <2>2. card[m][c] \in LoyaltyCard /\ shop[m] \in Business
    BY <1>8, AccountType DEF MintVoucher
  <2>3. burned \in BOOLEAN OBVIOUS
  <2> HIDE DEF burned
  <2>4. /\ kk.rewards_earned = card[m][c].rewards_earned + 1
        /\ kk.stamps_required_snapshot = shop[m].stamps_required
        /\ Spent(kk) = Spent(card[m][c]) + card[m][c].stamps_required_snapshot
    BY <2>2, <2>3, CashInWrites
  <2> HIDE DEF kk
  <2>5. card'[m][c] = kk BY <2>1 DEF TypeOK
  <2>7. SpendsOnRewards(card[m][c], kk)
    <3>1. /\ Spent(card[m][c]) \in Int /\ card[m][c].rewards_earned \in Int
          /\ card[m][c].stamps_required_snapshot \in Int
          /\ card[m][c] # NoAccount
      BY <2>2, NoAccountAssumption DEF Spent, LoyaltyCard
    <3>2. /\ kk.rewards_earned - card[m][c].rewards_earned = 1
          /\ Spent(kk) - Spent(card[m][c]) = card[m][c].stamps_required_snapshot
          /\ card[m][c].stamps_required_snapshot * 1 = card[m][c].stamps_required_snapshot
      BY <2>4, <3>1
    <3> QED BY <3>1, <3>2 DEF SpendsOnRewards
  <2>6. KeepsFaith(m, c)
    BY <2>2, <2>4, <2>5, <2>7, NoAccountAssumption
    DEF KeepsFaith, KeepsGoal, KeepsHonest, TakesGoal
  <2> QED BY <2>1, <2>6, OneCard
<1>9. CASE CardNext
  BY <1>1, <1>5, <1>6, <1>7, <1>8, <1>9 DEF CardNext, MintCardNft
<1>10. CASE VoucherNext
  BY <1>1, <1>10 DEF VoucherNext, PresentVoucher, CancelPresentation, TransferVoucher,
                     RedeemVoucher, CloseExpiredVoucher
<1>11. CASE WalletNext
  <2>1. card' = card BY <1>11, WalletKeepsAccounts
  <2> QED BY <1>1, <2>1
<1>12. CASE Tick BY <1>1, <1>12 DEF Tick
<1>13. CASE UNCHANGED vars BY <1>1, <1>13 DEF vars
<1> HIDE DEF Faith
<1> QED BY <1>2, <1>4, <1>9, <1>10, <1>11, <1>12, <1>13 DEF Next

\* The leaderboard's figure grows by the price of a reward when one is earned,
\* and by nothing else: whatever friends pass on in between leaves the figure of
\* both where it was.
THEOREM LeaderboardStaysHonest == Spec => LeaderboardHonest
<1>1. TypeOK /\ [Next]_vars =>
        [\A m \in Merchants : \A c \in Customers :
           card'[m][c] # NoAccount => SpendsOnRewards(card[m][c], card'[m][c])]_vars
  BY CardStep DEF KeepsFaith, KeepsHonest
<1> QED BY <1>1, InitType, NextType, PTL DEF Spec, LeaderboardHonest

\* A card in progress keeps its goal until it is cashed in.
THEOREM GoalpostsStand == Spec => GoalpostsStay
<1>1. TypeOK /\ [Next]_vars =>
        [\A m \in Merchants, c \in Customers : KeepsGoal(m, c)]_vars
  BY CardStep DEF KeepsFaith
<1> QED BY <1>1, InitType, NextType, PTL DEF Spec, GoalpostsStay
-----------------------------------------------------------------------------
(* The terms a shop committed itself to.                                    *)

\* A shop's goal after a step is the one it had, or one that passed the checks.
KeepsShopGoal(m) ==
  shop'[m] # NoAccount =>
    \/ shop[m] # NoAccount /\ shop'[m].stamps_required = shop[m].stamps_required
    \/ shop'[m].stamps_required \in 1..MaxStampsRequired

KeepsWord(m) == KeepsTerms(m) /\ KeepsShopGoal(m)

\* A step at one shop that leaves its terms as they are.
LEMMA SameTermsKept ==
  ASSUME TypeOK, NEW m \in Merchants, shop[m] \in Business, NEW b \in Business,
         SameTerms(shop[m], b), shop' = [shop EXCEPT ![m] = b]
  PROVE  \A x \in Merchants : KeepsWord(x)
<1>1. shop'[m] = b /\ \A x \in Merchants : x # m => shop'[x] = shop[x] BY DEF TypeOK
<1>2. shop[m] # NoAccount /\ shop'[m] # NoAccount /\ b.terms_locked_until \in Int
  BY <1>1, NoAccountAssumption DEF Business
<1>3. ASSUME NEW x \in Merchants PROVE KeepsWord(x)
  <2>1. CASE x = m BY <1>1, <1>2, <2>1 DEF KeepsWord, KeepsTerms, KeepsShopGoal, SameTerms
  <2>2. CASE x # m
    <3>1. shop'[x] = shop[x] BY <1>1, <2>2
    <3>2. shop[x] # NoAccount => shop[x].terms_locked_until \in Int
      BY AccountType DEF Business
    <3> QED BY <3>1, <3>2 DEF KeepsWord, KeepsTerms, KeepsShopGoal
  <2> QED BY <2>1, <2>2
<1> QED BY <1>3

\* A shop still bound by its promise can be neither changed nor closed, and
\* the counters the other steps write are no part of the promise.
LEMMA TermsStep ==
  ASSUME TypeOK, [Next]_vars
  PROVE  \A m \in Merchants : KeepsWord(m)
<1> DEFINE Kept == \A x \in Merchants : KeepsWord(x)
<1> SUFFICES Kept
  OBVIOUS
<1>0. now \in Nat BY DEF TypeOK
<1>1. ASSUME NEW m \in Merchants,
             \A x \in Merchants : x # m => shop'[x] = shop[x],
             shop[m] # NoAccount => now >= shop[m].terms_locked_until,
             shop'[m] # NoAccount => shop'[m].stamps_required \in 1..MaxStampsRequired
      PROVE  Kept
  <2>1. ASSUME NEW x \in Merchants PROVE KeepsWord(x)
    <3>1. shop[x] # NoAccount => shop[x].terms_locked_until \in Int
      BY AccountType DEF Business
    <3> QED BY <1>0, <1>1, <3>1 DEF KeepsWord, KeepsTerms, KeepsShopGoal
  <2> QED BY <2>1
<1>2. ASSUME shop' = shop PROVE Kept
  <2>1. ASSUME NEW x \in Merchants PROVE KeepsWord(x)
    <3>1. shop[x] # NoAccount => shop[x].terms_locked_until \in Int
      BY AccountType DEF Business
    <3> QED BY <1>2, <3>1 DEF KeepsWord, KeepsTerms, KeepsShopGoal
  <2> QED BY <2>1
<1>3. CASE ShopNext
  <2>1. ASSUME NEW m \in Merchants, NEW stamps \in StampGoals, NEW ttl \in ReceiptTtls,
               NEW lock \in LockDates, NEW relayer \in Relayers,
               RegisterBusiness(m, stamps, ttl, lock, relayer)
        PROVE  Kept
    <3>1. NewBusiness(stamps, ttl, lock, relayer).stamps_required = stamps
      BY DEF NewBusiness
    <3>2. stamps \in 1..MaxStampsRequired BY <2>1 DEF RegisterBusiness, CheckSettings
    <3> QED BY <1>1, <2>1, <3>1, <3>2 DEF RegisterBusiness, TypeOK
  <2>2. ASSUME NEW m \in Merchants, NEW stamps \in StampGoals, NEW ttl \in ReceiptTtls,
               NEW lock \in LockDates, UpdateBusinessConfig(m, stamps, ttl, lock)
        PROVE  Kept
    <3> DEFINE b == [shop[m] EXCEPT !.terms_locked_until = lock,
                                    !.stamps_required = stamps,
                                    !.receipt_ttl_seconds = ttl]
    <3>1. shop[m] \in Business
      BY <2>2, AccountType DEF UpdateBusinessConfig, UpdateAllowed
    <3>2. b.stamps_required = stamps BY <3>1 DEF Business
    <3>3. shop' = [shop EXCEPT ![m] = b] BY <2>2 DEF UpdateBusinessConfig
    <3> HIDE DEF b
    <3>4. stamps \in 1..MaxStampsRequired
      BY <2>2 DEF UpdateBusinessConfig, UpdateAllowed, CheckSettings
    <3> QED
      BY <1>1, <2>2, <3>2, <3>3, <3>4 DEF UpdateBusinessConfig, UpdateAllowed, TypeOK
  <2>3. ASSUME NEW m \in Merchants, CloseBusiness(m) PROVE Kept
    BY <1>1, <2>3 DEF CloseBusiness, MayClose, TypeOK
  <2> QED BY <1>3, <2>1, <2>2, <2>3 DEF ShopNext
<1>4. CASE ReceiptNext
  <2>1. ASSUME NEW m \in Merchants, NEW s \in Secrets, NEW relayer \in Relayers,
               IssueReceipt(m, s, relayer)
        PROVE  Kept
    <3> DEFINE b == [HourlyWindow(shop[m]) EXCEPT !.receipts_this_window = @ + 1]
    <3>1. shop[m] \in Business BY <2>1, AccountType DEF IssueReceipt
    <3>2. b \in Business /\ SameTerms(shop[m], b)
      BY <1>0, <3>1, HourlyWindowType, CountersKeepTerms
    <3>3. shop' = [shop EXCEPT ![m] = b] BY <2>1 DEF IssueReceipt
    <3> HIDE DEF b
    <3> QED BY <3>1, <3>2, <3>3, SameTermsKept
  <2>2. ASSUME NEW m \in Merchants, NEW s \in Secrets, NEW c \in Customers,
               NEW relayer \in Relayers, ClaimReceipt(m, s, c, relayer)
        PROVE  Kept
    <3> DEFINE opening == card[m][c] = NoAccount
               b == CountStamp(shop[m], opening)
    <3>1. shop[m] \in Business BY <2>2, AccountType DEF ClaimReceipt
    <3>2. b \in Business /\ SameTerms(shop[m], b)
      BY <3>1, CountStampType, CountersKeepTerms
    <3>3. shop' = [shop EXCEPT ![m] = b] BY <2>2 DEF ClaimReceipt
    <3> HIDE DEF b
    <3> QED BY <3>1, <3>2, <3>3, SameTermsKept
  <2>3. ASSUME NEW m \in Merchants, NEW s \in Secrets, ReclaimExpiredReceipt(m, s)
        PROVE  Kept
    BY <1>2, <2>3 DEF ReclaimExpiredReceipt
  <2> QED BY <1>4, <2>1, <2>2, <2>3 DEF ReceiptNext
<1>5. CASE CardNext
  <2>1. ASSUME NEW m \in Merchants, NEW c \in Customers, CloseDeadCard(m, c) PROVE Kept
    <3> DEFINE b == CountClosedCard(shop[m])
    <3>1. shop[m] \in Business BY <2>1, AccountType DEF CloseDeadCard
    <3>2. b \in Business /\ SameTerms(shop[m], b)
      BY <3>1, CountersType, CountersKeepTerms
    <3>3. shop' = [shop EXCEPT ![m] = b] BY <2>1 DEF CloseDeadCard
    <3> HIDE DEF b
    <3> QED BY <3>1, <3>2, <3>3, SameTermsKept
  <2>2. ASSUME NEW m \in Merchants, NEW c \in Customers, NEW relayer \in Relayers,
               MintVoucher(m, c, relayer)
        PROVE  Kept
    <3> DEFINE b == CountMinted(shop[m])
    <3>1. shop[m] \in Business BY <2>2, AccountType DEF MintVoucher
    <3>2. b \in Business /\ SameTerms(shop[m], b)
      BY <3>1, CountersType, CountersKeepTerms
    <3>3. shop' = [shop EXCEPT ![m] = b] BY <2>2 DEF MintVoucher
    <3> HIDE DEF b
    <3> QED BY <3>1, <3>2, <3>3, SameTermsKept
  <2>3. ASSUME NEW m \in Merchants, NEW c \in Customers,
               \/ \E to \in Customers, amount \in 1..U8Max : TransferStamps(m, c, to, amount)
               \/ MintCardNft(m, c)
               \/ RetireIdleCardNft(m, c)
        PROVE  Kept
    <3>1. shop' = shop BY <2>3 DEF TransferStamps, MintCardNft, RetireIdleCardNft
    <3> QED BY <1>2, <3>1
  <2> QED BY <1>5, <2>1, <2>2, <2>3 DEF CardNext
<1>6. CASE VoucherNext
  <2>1. ASSUME NEW m \in Merchants, NEW i \in VoucherIds, NEW w \in Customers,
               RedeemVoucher(m, i, w)
        PROVE  Kept
    <3> DEFINE b == CountRedeemed(shop[m])
    <3>1. shop[m] \in Business BY <2>1, AccountType DEF RedeemVoucher
    <3>2. b \in Business /\ SameTerms(shop[m], b)
      BY <3>1, CountersType, CountersKeepTerms
    <3>3. shop' = [shop EXCEPT ![m] = b] BY <2>1 DEF RedeemVoucher
    <3> HIDE DEF b
    <3> QED BY <3>1, <3>2, <3>3, SameTermsKept
  <2>2. ASSUME NEW m \in Merchants, NEW i \in VoucherIds, NEW w \in Customers,
               CloseExpiredVoucher(m, i, w)
        PROVE  Kept
    <3> DEFINE b == CountClosedVoucher(shop[m])
    <3>1. shop[m] \in Business BY <2>2, AccountType DEF CloseExpiredVoucher
    <3>2. b \in Business /\ SameTerms(shop[m], b)
      BY <3>1, CountersType, CountersKeepTerms
    <3>3. shop' = [shop EXCEPT ![m] = b] BY <2>2 DEF CloseExpiredVoucher
    <3> HIDE DEF b
    <3> QED BY <3>1, <3>2, <3>3, SameTermsKept
  <2>3. ASSUME NEW m \in Merchants, NEW i \in VoucherIds, NEW w \in Customers,
               \/ PresentVoucher(m, i, w)
               \/ CancelPresentation(m, i, w)
               \/ \E to \in Customers : TransferVoucher(m, i, w, to)
        PROVE  Kept
    BY <1>2, <2>3 DEF PresentVoucher, CancelPresentation, TransferVoucher
  <2> QED BY <1>6, <2>1, <2>2, <2>3 DEF VoucherNext
<1>7. CASE WalletNext BY <1>2, <1>7, WalletKeepsAccounts
<1>8. CASE Tick BY <1>2, <1>8 DEF Tick
<1>9. CASE UNCHANGED vars BY <1>2, <1>9 DEF vars
<1> HIDE DEF Kept
<1> QED BY <1>3, <1>4, <1>5, <1>6, <1>7, <1>8, <1>9 DEF Next

\* A shop that committed to its terms until a date keeps them, stays open and
\* cannot shorten the commitment before that date.
THEOREM PromisesKept == Spec => TermsHonoured
<1>1. TypeOK /\ [Next]_vars => [\A m \in Merchants : KeepsTerms(m)]_vars
  BY TermsStep DEF KeepsWord
<1> QED BY <1>1, InitType, NextType, PTL DEF Spec, TermsHonoured

\* No shop ever asks for no stamps or for more than the rules allow, and neither
\* does any card: the checks at registering and changing a shop reach a card
\* through its opening and every cash-in.
THEOREM GoalsStayInRange == Spec => []GoalsInRange
<1> DEFINE Inv == TypeOK /\ GoalsInRange
<1>1. Init => Inv BY InitType DEF Init, GoalsInRange, OpenCards
<1>2. Inv /\ [Next]_vars => Inv'
  <2> SUFFICES ASSUME Inv, [Next]_vars PROVE Inv'
    OBVIOUS
  <2>1. \A m \in Merchants : KeepsShopGoal(m) BY TermsStep DEF KeepsWord
  <2>2. \A m \in Merchants, c \in Customers : TakesGoal(m, c) BY CardStep DEF KeepsFaith
  <2>3. ASSUME NEW m \in Merchants, shop'[m] # NoAccount
        PROVE  shop'[m].stamps_required \in 1..MaxStampsRequired
    BY <2>1, <2>3 DEF KeepsShopGoal, GoalsInRange
  <2>4. ASSUME NEW m \in Merchants, NEW c \in Customers, card'[m][c] # NoAccount
        PROVE  card'[m][c].stamps_required_snapshot \in 1..MaxStampsRequired
    BY <2>2, <2>4 DEF TakesGoal, GoalsInRange, OpenCards
  <2>5. TypeOK' BY NextType
  <2> QED BY <2>3, <2>4, <2>5 DEF GoalsInRange, OpenCards
<1> QED BY <1>1, <1>2, PTL DEF Spec
=============================================================================
