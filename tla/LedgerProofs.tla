---------------------------- MODULE LedgerProofs ----------------------------
(***************************************************************************)
(* The stamps a shop has out add up, over any number of cards: they are    *)
(* made only by claims and spent only on rewards, and no reward is given   *)
(* for less than a stamp, because no goal is ever zero.                    *)
(***************************************************************************)
EXTENDS CardProofs, SumProofs, StampLedger

-----------------------------------------------------------------------------
(* The two sums, as sums over all customers.                                *)

StampsHeld(row)      == [c \in Customers |-> StampsOn(row[c])]
StampsPaid(row, new) == [c \in Customers |-> Paid(row[c], new[c])]

LEMMA SumsOfRows ==
  /\ \A m : StampsOut(m) = SumFunctionOnSet(StampsHeld(card[m]), Customers)
  /\ \A m : StampsOut(m)' = SumFunctionOnSet(StampsHeld(card'[m]), Customers)
  /\ \A m : PaidForRewards(m) = SumFunctionOnSet(StampsPaid(card[m], card'[m]), Customers)
BY DEF StampsOut, PaidForRewards, StampsHeld, StampsPaid, SumFunction

Slot == LoyaltyCard \cup {NoAccount}

LEMMA SlotFigures ==
  ASSUME NEW k \in Slot
  PROVE  /\ StampsOn(k) \in Nat
         /\ Paid(k, k) = 0
         /\ \A kk \in Slot : Paid(k, kk) \in Nat
<1>1. CASE k = NoAccount BY <1>1 DEF StampsOn, Paid
<1>2. CASE k \in LoyaltyCard
  <2>1. /\ k.stamps \in Nat /\ k.rewards_earned \in Nat
        /\ k.stamps_required_snapshot \in Nat
    BY <1>2, LimitsAssumption DEF LoyaltyCard
  <2> QED BY <2>1 DEF StampsOn, Paid
<1> QED BY <1>1, <1>2 DEF Slot

LEMMA RowFigures ==
  ASSUME NEW row \in [Customers -> Slot]
  PROVE  /\ \A c \in Customers : StampsHeld(row)[c] = StampsOn(row[c])
         /\ \A c \in Customers : StampsHeld(row)[c] \in Nat
         /\ SumFunctionOnSet(StampsHeld(row), Customers) \in Nat
         /\ \A c \in Customers : StampsPaid(row, row)[c] = 0
         /\ SumFunctionOnSet(StampsPaid(row, row), Customers) = 0
<1>1. \A c \in Customers : StampsHeld(row)[c] = StampsOn(row[c]) BY DEF StampsHeld
<1>2. \A c \in Customers : StampsHeld(row)[c] \in Nat BY <1>1, SlotFigures
<1>3. \A c \in Customers : StampsPaid(row, row)[c] = 0 BY SlotFigures DEF StampsPaid
<1>4. SumFunctionOnSet(StampsHeld(row), Customers) \in Nat
  BY <1>2, WalletsAssumption, SumIsNat
<1>5. SumFunctionOnSet(StampsPaid(row, row), Customers) = 0
  BY <1>3, WalletsAssumption, SumOfZeros
<1> QED BY <1>1, <1>2, <1>3, <1>4, <1>5

\* One card of a row is written: both sums change by what it says.
LEMMA RowWritten ==
  ASSUME NEW row \in [Customers -> Slot], NEW c \in Customers, NEW k \in Slot,
         NEW new, new = [row EXCEPT ![c] = k]
  PROVE  /\ SumFunctionOnSet(StampsHeld(new), Customers) =
              SumFunctionOnSet(StampsHeld(row), Customers) - StampsOn(row[c]) + StampsOn(k)
         /\ SumFunctionOnSet(StampsPaid(row, new), Customers) = Paid(row[c], k)
<1> DEFINE held == StampsHeld(row)
           heldNow == StampsHeld(new)
           none == StampsPaid(row, row)
           paid == StampsPaid(row, new)
<1>1. new \in [Customers -> Slot] /\ new[c] = k /\ row[c] \in Slot
      /\ \A x \in Customers \ {c} : new[x] = row[x]
  OBVIOUS
<1>2. /\ \A x \in Customers : held[x] \in Nat /\ heldNow[x] \in Nat
      /\ held[c] = StampsOn(row[c]) /\ heldNow[c] = StampsOn(k)
      /\ \A x \in Customers \ {c} : held[x] = heldNow[x]
  <2>1. \A x \in Customers : held[x] \in Nat /\ heldNow[x] \in Nat BY <1>1, RowFigures
  <2>2. \A x \in Customers : held[x] = StampsOn(row[x]) /\ heldNow[x] = StampsOn(new[x])
    BY <1>1, RowFigures
  <2> QED BY <1>1, <2>1, <2>2
<1>3. /\ \A x \in Customers : none[x] \in Nat /\ paid[x] \in Nat
      /\ none[c] = 0 /\ paid[c] = Paid(row[c], k)
      /\ \A x \in Customers \ {c} : none[x] = paid[x]
  BY <1>1, SlotFigures DEF StampsPaid
<1>4. SumFunctionOnSet(none, Customers) = 0 BY RowFigures
<1> HIDE DEF held, heldNow, none, paid
<1>5. SumFunctionOnSet(heldNow, Customers) =
        SumFunctionOnSet(held, Customers) - held[c] + heldNow[c]
  BY <1>2, WalletsAssumption, SumChange
<1>6. SumFunctionOnSet(paid, Customers) =
        SumFunctionOnSet(none, Customers) - none[c] + paid[c]
  BY <1>3, WalletsAssumption, SumChange
<1>7. paid[c] \in Nat BY <1>3
<1>8. SumFunctionOnSet(paid, Customers) = Paid(row[c], k) BY <1>3, <1>4, <1>6, <1>7
<1> QED BY <1>2, <1>5, <1>8 DEF held, heldNow, paid

\* Stamps pass from one card to another: neither sum changes.
LEMMA RowPassed ==
  ASSUME NEW row \in [Customers -> Slot], NEW c \in Customers, NEW to \in Customers, c # to,
         NEW k \in Slot, NEW kk \in Slot, NEW amount \in Nat,
         StampsOn(k) = StampsOn(row[c]) - amount, Paid(row[c], k) = 0,
         StampsOn(kk) = StampsOn(row[to]) + amount, Paid(row[to], kk) = 0,
         NEW new, new = [row EXCEPT ![c] = k, ![to] = kk]
  PROVE  /\ SumFunctionOnSet(StampsHeld(new), Customers) =
              SumFunctionOnSet(StampsHeld(row), Customers)
         /\ SumFunctionOnSet(StampsPaid(row, new), Customers) = 0
<1> DEFINE sent == [row EXCEPT ![c] = k]
           held == SumFunctionOnSet(StampsHeld(row), Customers)
           heldMidway == SumFunctionOnSet(StampsHeld(sent), Customers)
           heldNow == SumFunctionOnSet(StampsHeld(new), Customers)
<1>1. sent \in [Customers -> Slot] /\ sent[to] = row[to] OBVIOUS
<1>2. new = [sent EXCEPT ![to] = kk] OBVIOUS
<1>3. heldMidway = held - StampsOn(row[c]) + StampsOn(k) BY RowWritten
<1> HIDE DEF sent
<1>4. heldNow = heldMidway - StampsOn(row[to]) + StampsOn(kk)
  <2>1. sent \in [Customers -> Slot] BY <1>1
  <2>2. heldNow = heldMidway - StampsOn(sent[to]) + StampsOn(kk)
    BY ONLY <1>2, <2>1, to \in Customers, kk \in Slot, RowWritten
  <2> QED BY <1>1, <2>2
<1>5. held \in Nat BY RowFigures
<1>6. StampsOn(row[c]) \in Nat /\ StampsOn(row[to]) \in Nat BY SlotFigures
<1> HIDE DEF held, heldMidway, heldNow
<1>7. heldNow = held BY <1>3, <1>4, <1>5, <1>6
<1>8. \A x \in Customers : StampsPaid(row, new)[x] = 0
  <2>1. ASSUME NEW x \in Customers PROVE Paid(row[x], new[x]) = 0
    <3>1. new[x] = IF x = to THEN kk ELSE IF x = c THEN k ELSE row[x] OBVIOUS
    <3> QED BY <3>1, SlotFigures
  <2> QED BY <2>1 DEF StampsPaid
<1>9. SumFunctionOnSet(StampsPaid(row, new), Customers) = 0
  BY <1>8, WalletsAssumption, SumOfZeros
<1> QED BY <1>7, <1>9 DEF held, heldNow
-----------------------------------------------------------------------------
(* What a step does to a shop's books.                                      *)

\* A reward given costs its card at least a stamp, where no goal is zero.
Charges(m) ==
  shop[m] # NoAccount /\ shop'[m] # NoAccount =>
    shop'[m].total_vouchers_issued - shop[m].total_vouchers_issued <= PaidForRewards(m)

Booked(m) == Conserves(m) /\ (GoalsInRange => Charges(m))

\* A shop opens without cards and with nothing issued.
OpensEmpty(m) ==
  shop[m] = NoAccount /\ shop'[m] # NoAccount =>
    /\ card'[m] = card[m]
    /\ shop'[m].total_stamps_issued = 0
    /\ shop'[m].total_vouchers_issued = 0

Rows == \A m \in Merchants : card[m] \in [Customers -> Slot]

LEMMA TypedRows == TypeOK => Rows
BY DEF TypeOK, Rows, Slot

LEMMA ShopFigures ==
  ASSUME TypeOK, NEW m \in Merchants, shop[m] # NoAccount
  PROVE  shop[m].total_stamps_issued \in Nat /\ shop[m].total_vouchers_issued \in Nat
BY AccountType DEF Business

\* A step that writes none of a shop's cards and neither of its totals.
LEMMA BookedQuietly ==
  ASSUME TypeOK, NEW m \in Merchants, card'[m] = card[m],
         shop[m] # NoAccount /\ shop'[m] # NoAccount =>
           /\ shop'[m].total_stamps_issued = shop[m].total_stamps_issued
           /\ shop'[m].total_vouchers_issued = shop[m].total_vouchers_issued
  PROVE  Booked(m)
<1>1. card[m] \in [Customers -> Slot] BY TypedRows DEF Rows
<1>2. StampsOut(m)' = StampsOut(m) /\ PaidForRewards(m) = 0 /\ StampsOut(m) \in Nat
  BY <1>1, SumsOfRows, RowFigures
<1> QED BY <1>2, ShopFigures DEF Booked, Conserves, Charges

\* A step that writes one card, and no shop but that card's.
LEMMA BookedAt ==
  ASSUME TypeOK, NEW m \in Merchants, NEW c \in Customers,
         NEW k \in Slot, card' = [card EXCEPT ![m][c] = k],
         \A x \in Merchants \ {m} : shop'[x] = shop[x],
         shop[m] # NoAccount /\ shop'[m] # NoAccount =>
           /\ StampsOn(k) = StampsOn(card[m][c]) - Paid(card[m][c], k)
                + (shop'[m].total_stamps_issued - shop[m].total_stamps_issued)
           /\ GoalsInRange =>
                shop'[m].total_vouchers_issued - shop[m].total_vouchers_issued
                  <= Paid(card[m][c], k)
           /\ shop'[m].total_stamps_issued \in Nat
  PROVE  \A x \in Merchants : Booked(x)
<1>1. /\ card[m] \in [Customers -> Slot] /\ card[m][c] \in Slot
      /\ card'[m] = [card[m] EXCEPT ![c] = k]
      /\ \A x \in Merchants \ {m} : card'[x] = card[x]
  BY TypedRows DEF Rows, TypeOK
<1>2. /\ StampsOut(m)' = StampsOut(m) - StampsOn(card[m][c]) + StampsOn(k)
      /\ PaidForRewards(m) = Paid(card[m][c], k)
  BY <1>1, SumsOfRows, RowWritten
<1>3. StampsOut(m) \in Nat BY <1>1, SumsOfRows, RowFigures
<1>4. StampsOn(card[m][c]) \in Nat /\ Paid(card[m][c], k) \in Nat /\ StampsOn(k) \in Nat
  BY <1>1, SlotFigures
<1>5. Conserves(m) BY <1>2, <1>3, <1>4, ShopFigures DEF Conserves
<1>6. GoalsInRange => Charges(m) BY <1>2 DEF Charges
<1>7. \A x \in Merchants \ {m} : Booked(x) BY <1>1, BookedQuietly
<1> QED BY <1>5, <1>6, <1>7 DEF Booked

\* The totals a handler that issues nothing leaves as they are.
SameTotals(b, bb) ==
  /\ bb.total_stamps_issued = b.total_stamps_issued
  /\ bb.total_vouchers_issued = b.total_vouchers_issued

\* A step that writes one shop and no card, and issues nothing there.
LEMMA BookedShop ==
  ASSUME TypeOK, NEW m \in Merchants, card' = card,
         NEW b, shop' = [shop EXCEPT ![m] = b], SameTotals(shop[m], b)
  PROVE  \A x \in Merchants : Booked(x)
<1>1. shop'[m] = b /\ \A x \in Merchants \ {m} : shop'[x] = shop[x] BY DEF TypeOK
<1>2. ASSUME NEW x \in Merchants PROVE Booked(x)
  <2>1. CASE x = m BY <1>1, <2>1, BookedQuietly DEF SameTotals
  <2>2. CASE x # m
    <3>1. shop'[x] = shop[x] BY <1>1, <2>2
    <3> QED BY <3>1, BookedQuietly
  <2> QED BY <2>1, <2>2
<1> QED BY <1>2

LEMMA TotalsWritten ==
  ASSUME NEW b \in Business
  PROVE  /\ SameTotals(b, [HourlyWindow(b) EXCEPT !.receipts_this_window = @ + 1])
         /\ SameTotals(b, CountClosedCard(b))
         /\ SameTotals(b, CountClosedVoucher(b))
         /\ SameTotals(b, CountRedeemed(b))
         /\ \A opening \in BOOLEAN :
              /\ CountStamp(b, opening).total_stamps_issued = b.total_stamps_issued + 1
              /\ CountStamp(b, opening).total_vouchers_issued = b.total_vouchers_issued
         /\ CountMinted(b).total_stamps_issued = b.total_stamps_issued
         /\ CountMinted(b).total_vouchers_issued = b.total_vouchers_issued + 1
<1>1. SameTotals(b, [HourlyWindow(b) EXCEPT !.receipts_this_window = @ + 1])
  BY DEF HourlyWindow, SameTotals, Business
<1>2. SameTotals(b, CountClosedCard(b)) BY DEF CountClosedCard, SameTotals, Business
<1>3. SameTotals(b, CountClosedVoucher(b))
  BY DEF CountClosedVoucher, SameTotals, Business
<1>4. SameTotals(b, CountRedeemed(b))
  BY <1>3 DEF CountRedeemed, CountClosedVoucher, SameTotals, Business
<1>5. ASSUME NEW opening \in BOOLEAN
      PROVE  /\ CountStamp(b, opening).total_stamps_issued = b.total_stamps_issued + 1
             /\ CountStamp(b, opening).total_vouchers_issued = b.total_vouchers_issued
  BY DEF CountStamp, Business
<1>6. /\ CountMinted(b).total_stamps_issued = b.total_stamps_issued
      /\ CountMinted(b).total_vouchers_issued = b.total_vouchers_issued + 1
  BY DEF CountMinted, Business
<1> QED BY <1>1, <1>2, <1>3, <1>4, <1>5, <1>6

\* What the handlers write to a card's stamps and to its count of rewards.
LEMMA StampsWritten ==
  ASSUME NEW k \in LoyaltyCard
  PROVE  /\ Stamped(DailyWindow(k)).stamps = k.stamps + 1
         /\ Stamped(DailyWindow(k)).rewards_earned = k.rewards_earned
         /\ \A amount \in Nat :
              /\ Passed(k, amount).stamps = k.stamps - amount
              /\ Passed(k, amount).rewards_earned = k.rewards_earned
              /\ Received(k, amount).stamps = k.stamps + amount
              /\ Received(k, amount).rewards_earned = k.rewards_earned
         /\ [k EXCEPT !.nft_cycle = @ + 1].stamps = k.stamps
         /\ [k EXCEPT !.nft_cycle = @ + 1].rewards_earned = k.rewards_earned
<1>1. /\ Stamped(DailyWindow(k)).stamps = k.stamps + 1
      /\ Stamped(DailyWindow(k)).rewards_earned = k.rewards_earned
  BY DEF Stamped, DailyWindow, LoyaltyCard
<1>2. ASSUME NEW amount \in Nat
      PROVE  /\ Passed(k, amount).stamps = k.stamps - amount
             /\ Passed(k, amount).rewards_earned = k.rewards_earned
             /\ Received(k, amount).stamps = k.stamps + amount
             /\ Received(k, amount).rewards_earned = k.rewards_earned
  BY DEF Passed, Received, LoyaltyCard
<1>3. /\ [k EXCEPT !.nft_cycle = @ + 1].stamps = k.stamps
      /\ [k EXCEPT !.nft_cycle = @ + 1].rewards_earned = k.rewards_earned
  BY DEF LoyaltyCard
<1> QED BY <1>1, <1>2, <1>3

LEMMA CashInCosts ==
  ASSUME NEW k \in LoyaltyCard, NEW b \in Business, NEW burned \in BOOLEAN
  PROVE  /\ CashedIn(k, b, burned).stamps = k.stamps - k.stamps_required_snapshot
         /\ CashedIn(k, b, burned).rewards_earned = k.rewards_earned + 1
         /\ k.stamps_required_snapshot \in Nat
<1>1. /\ CashedIn(k, b, burned).stamps = k.stamps - k.stamps_required_snapshot
      /\ CashedIn(k, b, burned).rewards_earned = k.rewards_earned + 1
  BY DEF CashedIn, LoyaltyCard
<1> QED BY <1>1 DEF LoyaltyCard

\* A card whose count of rewards stays paid nothing.
LEMMA PaidNothing ==
  ASSUME NEW k \in LoyaltyCard, NEW kk, kk.rewards_earned = k.rewards_earned
  PROVE  Paid(k, kk) = 0
BY DEF Paid, LoyaltyCard

LEMMA StampsOnCard == \A k \in LoyaltyCard : StampsOn(k) = k.stamps
BY NoAccountAssumption DEF StampsOn
-----------------------------------------------------------------------------
(* One lemma per instruction that touches a card's stamps or a total.       *)

LEMMA ClaimBooked ==
  ASSUME TypeOK, NEW m \in Merchants, NEW s \in Secrets, NEW c \in Customers,
         NEW relayer \in Relayers, ClaimReceipt(m, s, c, relayer)
  PROVE  \A x \in Merchants : Booked(x)
<1> DEFINE k == CardAtCounter(m, c, relayer)
           kk == Stamped(DailyWindow(k))
           opening == card[m][c] = NoAccount
           b == CountStamp(shop[m], opening)
<1>1. /\ card' = [card EXCEPT ![m][c] = kk]
      /\ shop' = [shop EXCEPT ![m] = b]
      /\ DailyWindow(k).stamps < U8Max
  BY DEF ClaimReceipt, RoomForStamp
<1>2. shop[m] \in Business /\ now \in Nat BY AccountType DEF ClaimReceipt, TypeOK
<1>3. k \in LoyaltyCard BY <1>2, AccountType, OpenedCardType DEF CardAtCounter
<1>4. kk \in LoyaltyCard BY <1>1, <1>2, <1>3, DailyWindowType, StampedType
<1>5. kk.stamps = k.stamps + 1 /\ kk.rewards_earned = k.rewards_earned
  BY <1>3, StampsWritten
<1>6. /\ opening => k.stamps = 0
      /\ ~opening => k = card[m][c]
  BY DEF CardAtCounter, OpenedCard
<1>7. /\ b.total_stamps_issued = shop[m].total_stamps_issued + 1
      /\ b.total_vouchers_issued = shop[m].total_vouchers_issued
  BY <1>2, TotalsWritten
<1>8. /\ shop[m].total_stamps_issued \in Nat /\ shop[m].total_vouchers_issued \in Nat
  BY <1>2 DEF Business
<1> HIDE DEF k, kk, b
<1>9. StampsOn(kk) = StampsOn(card[m][c]) + 1 /\ Paid(card[m][c], kk) = 0
  <2>1. CASE opening
    BY <1>4, <1>5, <1>6, <2>1, StampsOnCard DEF StampsOn, Paid
  <2>2. CASE ~opening
    BY <1>3, <1>4, <1>5, <1>6, <2>2, StampsOnCard, PaidNothing
  <2> QED BY <2>1, <2>2
<1>10. StampsOn(card[m][c]) \in Nat /\ kk \in Slot
  <2>1. card[m][c] \in Slot BY DEF TypeOK, Slot
  <2> QED BY <1>4, <2>1, SlotFigures DEF Slot
<1>11. shop'[m] = b /\ \A x \in Merchants \ {m} : shop'[x] = shop[x] BY <1>1 DEF TypeOK
<1>12. /\ StampsOn(kk) = StampsOn(card[m][c]) - Paid(card[m][c], kk)
            + (shop'[m].total_stamps_issued - shop[m].total_stamps_issued)
       /\ shop'[m].total_vouchers_issued - shop[m].total_vouchers_issued
            <= Paid(card[m][c], kk)
       /\ shop'[m].total_stamps_issued \in Nat
  BY <1>7, <1>8, <1>9, <1>10, <1>11
<1> QED BY <1>1, <1>10, <1>11, <1>12, BookedAt

LEMMA TransferBooked ==
  ASSUME TypeOK, NEW m \in Merchants, NEW c \in Customers, NEW to \in Customers,
         NEW amount \in 1..U8Max, TransferStamps(m, c, to, amount)
  PROVE  \A x \in Merchants : Booked(x)
<1> DEFINE row == card[m]
           sender == Passed(row[c], amount)
           receiver == Received(row[to], amount)
           new == [row EXCEPT ![c] = sender, ![to] = receiver]
<1>1. row[c] \in LoyaltyCard /\ row[to] \in LoyaltyCard /\ c # to /\ shop' = shop
  BY AccountType DEF TransferStamps
<1>2. sender \in LoyaltyCard /\ receiver \in LoyaltyCard
  BY <1>1, PassedType, ReceivedType DEF TransferStamps
<1>3. amount \in Nat OBVIOUS
<1>4. /\ sender.stamps = row[c].stamps - amount
      /\ sender.rewards_earned = row[c].rewards_earned
      /\ receiver.stamps = row[to].stamps + amount
      /\ receiver.rewards_earned = row[to].rewards_earned
  BY <1>1, <1>3, StampsWritten
<1>5. card' = [card EXCEPT ![m] = new] BY <1>1 DEF TransferStamps, TypeOK
<1> HIDE DEF sender, receiver
<1>6. /\ StampsOn(sender) = StampsOn(row[c]) - amount /\ Paid(row[c], sender) = 0
      /\ StampsOn(receiver) = StampsOn(row[to]) + amount /\ Paid(row[to], receiver) = 0
  BY <1>1, <1>2, <1>4, StampsOnCard, PaidNothing
<1>7. row \in [Customers -> Slot] /\ sender \in Slot /\ receiver \in Slot
  BY <1>2, TypedRows DEF Rows, Slot
<1>8. /\ SumFunctionOnSet(StampsHeld(new), Customers) =
            SumFunctionOnSet(StampsHeld(row), Customers)
      /\ SumFunctionOnSet(StampsPaid(row, new), Customers) = 0
  BY <1>1, <1>3, <1>6, <1>7, RowPassed
<1> HIDE DEF new
<1>9. card'[m] = new /\ \A x \in Merchants \ {m} : card'[x] = card[x]
  BY <1>5 DEF TypeOK
<1>10. /\ StampsOut(m)' = StampsOut(m) /\ PaidForRewards(m) = 0
       /\ StampsOut(m) \in Nat
  BY <1>7, <1>8, <1>9, SumsOfRows, RowFigures
<1>11. Booked(m) BY <1>1, <1>10, ShopFigures DEF Booked, Conserves, Charges
<1>12. \A x \in Merchants \ {m} : Booked(x) BY <1>1, <1>9, BookedQuietly
<1> QED BY <1>11, <1>12

LEMMA RetireBooked ==
  ASSUME TypeOK, NEW m \in Merchants, NEW c \in Customers, RetireIdleCardNft(m, c)
  PROVE  \A x \in Merchants : Booked(x)
<1> DEFINE k == card[m][c]
           kk == [k EXCEPT !.nft_cycle = @ + 1]
<1>1. k \in LoyaltyCard BY AccountType DEF RetireIdleCardNft
<1>2. kk \in LoyaltyCard
  <2>1. k.nft_cycle + 1 \in Nat BY <1>1 DEF LoyaltyCard
  <2> QED BY <1>1, <2>1, CardField
<1>3. kk.stamps = k.stamps /\ kk.rewards_earned = k.rewards_earned
  BY <1>1, StampsWritten
<1>4. card' = [card EXCEPT ![m][c] = kk] /\ shop' = shop BY DEF RetireIdleCardNft
<1> HIDE DEF kk
<1>5. StampsOn(kk) = StampsOn(k) /\ Paid(k, kk) = 0 /\ StampsOn(k) \in Nat
  BY <1>1, <1>2, <1>3, StampsOnCard, PaidNothing, SlotFigures DEF Slot
<1>6. kk \in Slot BY <1>2 DEF Slot
<1>7. shop[m] # NoAccount =>
        /\ StampsOn(kk) = StampsOn(card[m][c]) - Paid(card[m][c], kk)
             + (shop'[m].total_stamps_issued - shop[m].total_stamps_issued)
        /\ shop'[m].total_vouchers_issued - shop[m].total_vouchers_issued
             <= Paid(card[m][c], kk)
        /\ shop'[m].total_stamps_issued \in Nat
  BY <1>4, <1>5, ShopFigures
<1> QED BY <1>4, <1>6, <1>7, BookedAt

\* Only a card without stamps is closed, so none is lost with it.
LEMMA CloseCardBooked ==
  ASSUME TypeOK, NEW m \in Merchants, NEW c \in Customers, CloseDeadCard(m, c)
  PROVE  \A x \in Merchants : Booked(x)
<1> DEFINE k == card[m][c]
           b == CountClosedCard(shop[m])
<1>1. k \in LoyaltyCard /\ k.stamps = 0 /\ shop[m] \in Business
  BY AccountType DEF CloseDeadCard, Dead
<1>2. card' = [card EXCEPT ![m][c] = NoAccount] /\ shop' = [shop EXCEPT ![m] = b]
  BY DEF CloseDeadCard
<1>3. SameTotals(shop[m], b) BY <1>1, TotalsWritten
<1> HIDE DEF b
<1>4. shop'[m] = b /\ \A x \in Merchants \ {m} : shop'[x] = shop[x]
  BY <1>2 DEF TypeOK
<1>5. StampsOn(NoAccount) = 0 /\ StampsOn(k) = 0 /\ Paid(k, NoAccount) = 0
  BY <1>1, StampsOnCard DEF StampsOn, Paid
<1>6. shop[m].total_stamps_issued \in Nat /\ shop[m].total_vouchers_issued \in Nat
  BY <1>1 DEF Business
<1>7. /\ StampsOn(NoAccount) = StampsOn(card[m][c]) - Paid(card[m][c], NoAccount)
           + (shop'[m].total_stamps_issued - shop[m].total_stamps_issued)
      /\ shop'[m].total_vouchers_issued - shop[m].total_vouchers_issued
           <= Paid(card[m][c], NoAccount)
      /\ shop'[m].total_stamps_issued \in Nat
  BY <1>3, <1>4, <1>5, <1>6 DEF SameTotals
<1>8. NoAccount \in Slot BY DEF Slot
<1> QED BY <1>2, <1>4, <1>7, <1>8, BookedAt

\* A cash-in gives one voucher for the card's goal, which is a stamp or more.
LEMMA MintVoucherBooked ==
  ASSUME TypeOK, NEW m \in Merchants, NEW c \in Customers, NEW relayer \in Relayers,
         MintVoucher(m, c, relayer)
  PROVE  \A x \in Merchants : Booked(x)
<1> DEFINE k == card[m][c]
           burned == CardNftId(m, c) \in cardMint
           kk == CashedIn(k, shop[m], burned)
           b == CountMinted(shop[m])
<1>1. /\ k \in LoyaltyCard /\ shop[m] \in Business
      /\ k.stamps >= k.stamps_required_snapshot
  BY AccountType DEF MintVoucher
<1>2. card' = [card EXCEPT ![m][c] = kk] /\ shop' = [shop EXCEPT ![m] = b]
  BY DEF MintVoucher
<1>3. burned \in BOOLEAN OBVIOUS
<1> HIDE DEF burned
<1>4. kk \in LoyaltyCard BY <1>1, <1>3, CashedInType
<1>5. /\ kk.stamps = k.stamps - k.stamps_required_snapshot
      /\ kk.rewards_earned = k.rewards_earned + 1
      /\ k.stamps_required_snapshot \in Nat
  BY <1>1, <1>3, CashInCosts
<1>6. /\ b.total_stamps_issued = shop[m].total_stamps_issued
      /\ b.total_vouchers_issued = shop[m].total_vouchers_issued + 1
  BY <1>1, TotalsWritten
<1>7. /\ shop[m].total_stamps_issued \in Nat /\ shop[m].total_vouchers_issued \in Nat
      /\ k.stamps \in Nat /\ k.rewards_earned \in Nat
  BY <1>1 DEF Business, LoyaltyCard
<1> HIDE DEF kk, b
<1>8. Paid(k, kk) = k.stamps_required_snapshot
  BY <1>1, <1>4, <1>5, <1>7, NoAccountAssumption DEF Paid
<1>9. StampsOn(k) = k.stamps /\ StampsOn(kk) = kk.stamps BY <1>1, <1>4, StampsOnCard
<1>10. shop'[m] = b /\ \A x \in Merchants \ {m} : shop'[x] = shop[x]
  BY <1>2 DEF TypeOK
<1>13. GoalsInRange => k.stamps_required_snapshot >= 1
  BY <1>1, NoAccountAssumption, LimitsAssumption DEF GoalsInRange, OpenCards
<1>11. /\ StampsOn(kk) = StampsOn(card[m][c]) - Paid(card[m][c], kk)
            + (shop'[m].total_stamps_issued - shop[m].total_stamps_issued)
       /\ GoalsInRange =>
            shop'[m].total_vouchers_issued - shop[m].total_vouchers_issued
              <= Paid(card[m][c], kk)
       /\ shop'[m].total_stamps_issued \in Nat
  BY <1>5, <1>6, <1>7, <1>8, <1>9, <1>10, <1>13
<1>12. kk \in Slot BY <1>4 DEF Slot
<1> QED BY <1>2, <1>10, <1>11, <1>12, BookedAt

\* A shop's own instructions write no card, and no total of a shop that is open
\* before and after.
LEMMA ShopBooked ==
  ASSUME TypeOK, ShopNext
  PROVE  \A x \in Merchants : Booked(x)
<1>1. card' = card
  BY DEF ShopNext, RegisterBusiness, UpdateBusinessConfig, CloseBusiness
<1>2. ASSUME NEW m \in Merchants, shop[m] = NoAccount \/ shop'[m] = NoAccount,
             \A x \in Merchants \ {m} : shop'[x] = shop[x]
      PROVE  \A x \in Merchants : Booked(x)
  <2>1. Booked(m) BY <1>1, <1>2, BookedQuietly
  <2>2. \A x \in Merchants \ {m} : Booked(x) BY <1>1, <1>2, BookedQuietly
  <2> QED BY <2>1, <2>2
<1>3. ASSUME NEW m \in Merchants, NEW stamps \in StampGoals, NEW ttl \in ReceiptTtls,
             NEW lock \in LockDates, NEW relayer \in Relayers,
             RegisterBusiness(m, stamps, ttl, lock, relayer)
      PROVE  \A x \in Merchants : Booked(x)
  BY <1>2, <1>3 DEF RegisterBusiness, TypeOK
<1>4. ASSUME NEW m \in Merchants, NEW stamps \in StampGoals, NEW ttl \in ReceiptTtls,
             NEW lock \in LockDates, UpdateBusinessConfig(m, stamps, ttl, lock)
      PROVE  \A x \in Merchants : Booked(x)
  <2> DEFINE b == [shop[m] EXCEPT !.terms_locked_until = lock,
                                  !.stamps_required = stamps,
                                  !.receipt_ttl_seconds = ttl]
  <2>1. shop[m] \in Business
    BY <1>4, AccountType DEF UpdateBusinessConfig, UpdateAllowed
  <2>2. SameTotals(shop[m], b) BY <2>1 DEF SameTotals, Business
  <2>3. shop' = [shop EXCEPT ![m] = b] BY <1>4 DEF UpdateBusinessConfig
  <2> HIDE DEF b
  <2> QED BY <1>1, <2>2, <2>3, BookedShop
<1>5. ASSUME NEW m \in Merchants, CloseBusiness(m) PROVE \A x \in Merchants : Booked(x)
  BY <1>2, <1>5 DEF CloseBusiness, TypeOK
<1> QED BY <1>3, <1>4, <1>5 DEF ShopNext

LEMMA EveryStepBooked ==
  ASSUME TypeOK, [Next]_vars
  PROVE  \A x \in Merchants : Booked(x)
<1> DEFINE Books == \A x \in Merchants : Booked(x)
<1> SUFFICES Books
  OBVIOUS
<1>1. ASSUME card' = card, shop' = shop PROVE Books BY <1>1, BookedQuietly
<1>2. CASE ShopNext BY <1>2, ShopBooked
<1>3. CASE ReceiptNext
  <2>1. ASSUME NEW m \in Merchants, NEW s \in Secrets, NEW relayer \in Relayers,
               IssueReceipt(m, s, relayer)
        PROVE  Books
    <3> DEFINE b == [HourlyWindow(shop[m]) EXCEPT !.receipts_this_window = @ + 1]
    <3>1. shop[m] \in Business BY <2>1, AccountType DEF IssueReceipt
    <3>2. SameTotals(shop[m], b) BY <3>1, TotalsWritten
    <3>3. shop' = [shop EXCEPT ![m] = b] /\ card' = card BY <2>1 DEF IssueReceipt
    <3> HIDE DEF b
    <3> QED BY <3>2, <3>3, BookedShop
  <2>2. ASSUME NEW m \in Merchants, NEW s \in Secrets, NEW c \in Customers,
               NEW relayer \in Relayers, ClaimReceipt(m, s, c, relayer)
        PROVE  Books
    BY <2>2, ClaimBooked
  <2>3. ASSUME NEW m \in Merchants, NEW s \in Secrets, ReclaimExpiredReceipt(m, s)
        PROVE  Books
    BY <1>1, <2>3 DEF ReclaimExpiredReceipt
  <2> QED BY <1>3, <2>1, <2>2, <2>3 DEF ReceiptNext
<1>4. CASE CardNext
  <2>1. ASSUME NEW m \in Merchants, NEW c \in Customers, MintCardNft(m, c) PROVE Books
    BY <1>1, <2>1 DEF MintCardNft
  <2> QED BY <1>4, <2>1, TransferBooked, RetireBooked, CloseCardBooked, MintVoucherBooked
          DEF CardNext
<1>5. CASE VoucherNext
  <2>1. ASSUME NEW m \in Merchants, NEW i \in VoucherIds, NEW w \in Customers,
               RedeemVoucher(m, i, w)
        PROVE  Books
    <3> DEFINE b == CountRedeemed(shop[m])
    <3>1. shop[m] \in Business BY <2>1, AccountType DEF RedeemVoucher
    <3>2. SameTotals(shop[m], b) BY <3>1, TotalsWritten
    <3>3. shop' = [shop EXCEPT ![m] = b] /\ card' = card BY <2>1 DEF RedeemVoucher
    <3> HIDE DEF b
    <3> QED BY <3>2, <3>3, BookedShop
  <2>2. ASSUME NEW m \in Merchants, NEW i \in VoucherIds, NEW w \in Customers,
               CloseExpiredVoucher(m, i, w)
        PROVE  Books
    <3> DEFINE b == CountClosedVoucher(shop[m])
    <3>1. shop[m] \in Business BY <2>2, AccountType DEF CloseExpiredVoucher
    <3>2. SameTotals(shop[m], b) BY <3>1, TotalsWritten
    <3>3. shop' = [shop EXCEPT ![m] = b] /\ card' = card
      BY <2>2 DEF CloseExpiredVoucher
    <3> HIDE DEF b
    <3> QED BY <3>2, <3>3, BookedShop
  <2>3. ASSUME NEW m \in Merchants, NEW i \in VoucherIds, NEW w \in Customers,
               \/ PresentVoucher(m, i, w)
               \/ CancelPresentation(m, i, w)
               \/ \E to \in Customers : TransferVoucher(m, i, w, to)
        PROVE  Books
    BY <1>1, <2>3 DEF PresentVoucher, CancelPresentation, TransferVoucher
  <2> QED BY <1>5, <2>1, <2>2, <2>3 DEF VoucherNext
<1>6. CASE WalletNext BY <1>1, <1>6, WalletKeepsAccounts
<1>7. CASE Tick BY <1>1, <1>7 DEF Tick
<1>8. CASE UNCHANGED vars BY <1>1, <1>8 DEF vars
<1> HIDE DEF Books
<1> QED BY <1>2, <1>3, <1>4, <1>5, <1>6, <1>7, <1>8 DEF Next

\* Only register_business makes a shop.
LEMMA EveryShopOpensEmpty ==
  ASSUME TypeOK, [Next]_vars
  PROVE  \A x \in Merchants : OpensEmpty(x)
<1> DEFINE Opens == \A x \in Merchants : OpensEmpty(x)
<1> SUFFICES Opens
  OBVIOUS
<1>1. ASSUME \A x \in Merchants : shop[x] = NoAccount => shop'[x] = NoAccount
      PROVE  Opens
  BY <1>1 DEF OpensEmpty
<1>2. ASSUME NEW m \in Merchants, shop[m] # NoAccount,
             \A x \in Merchants \ {m} : shop'[x] = shop[x]
      PROVE  Opens
  BY <1>1, <1>2
<1>3. CASE ShopNext
  <2>1. ASSUME NEW m \in Merchants, NEW stamps \in StampGoals, NEW ttl \in ReceiptTtls,
               NEW lock \in LockDates, NEW relayer \in Relayers,
               RegisterBusiness(m, stamps, ttl, lock, relayer)
        PROVE  Opens
    <3> DEFINE b == NewBusiness(stamps, ttl, lock, relayer)
    <3>1. b.total_stamps_issued = 0 /\ b.total_vouchers_issued = 0 BY DEF NewBusiness
    <3>2. shop' = [shop EXCEPT ![m] = b] /\ card' = card BY <2>1 DEF RegisterBusiness
    <3> HIDE DEF b
    <3>3. shop'[m] = b /\ \A x \in Merchants \ {m} : shop'[x] = shop[x]
      BY <3>2 DEF TypeOK
    <3> QED BY <3>1, <3>2, <3>3 DEF OpensEmpty
  <2>2. ASSUME NEW m \in Merchants, NEW stamps \in StampGoals, NEW ttl \in ReceiptTtls,
               NEW lock \in LockDates, UpdateBusinessConfig(m, stamps, ttl, lock)
        PROVE  Opens
    BY <1>2, <2>2 DEF UpdateBusinessConfig, UpdateAllowed, TypeOK
  <2>3. ASSUME NEW m \in Merchants, CloseBusiness(m) PROVE Opens
    BY <1>2, <2>3 DEF CloseBusiness, TypeOK
  <2> QED BY <1>3, <2>1, <2>2, <2>3 DEF ShopNext
<1>4. CASE ReceiptNext
  BY <1>1, <1>2, <1>4 DEF ReceiptNext, IssueReceipt, ClaimReceipt, ReclaimExpiredReceipt, TypeOK
<1>5. CASE CardNext
  <2>1. ASSUME NEW m \in Merchants, NEW c \in Customers,
               \/ \E to \in Customers, amount \in 1..U8Max : TransferStamps(m, c, to, amount)
               \/ MintCardNft(m, c)
               \/ RetireIdleCardNft(m, c)
        PROVE  Opens
    BY <1>1, <2>1 DEF TransferStamps, MintCardNft, RetireIdleCardNft
  <2>2. ASSUME NEW m \in Merchants, NEW c \in Customers,
               \/ CloseDeadCard(m, c)
               \/ \E relayer \in Relayers : MintVoucher(m, c, relayer)
        PROVE  Opens
    <3>1. shop[m] # NoAccount /\ \A x \in Merchants \ {m} : shop'[x] = shop[x]
      BY <2>2 DEF CloseDeadCard, MintVoucher, TypeOK
    <3> QED BY <1>2, <3>1
  <2> QED BY <1>5, <2>1, <2>2 DEF CardNext
<1>6. CASE VoucherNext
  <2>1. ASSUME NEW m \in Merchants, NEW i \in VoucherIds, NEW w \in Customers,
               \/ PresentVoucher(m, i, w)
               \/ CancelPresentation(m, i, w)
               \/ \E to \in Customers : TransferVoucher(m, i, w, to)
        PROVE  Opens
    BY <1>1, <2>1 DEF PresentVoucher, CancelPresentation, TransferVoucher
  <2>2. ASSUME NEW m \in Merchants, NEW i \in VoucherIds, NEW w \in Customers,
               RedeemVoucher(m, i, w) \/ CloseExpiredVoucher(m, i, w)
        PROVE  Opens
    <3>1. shop[m] # NoAccount /\ \A x \in Merchants \ {m} : shop'[x] = shop[x]
      BY <2>2 DEF RedeemVoucher, CloseExpiredVoucher, TypeOK
    <3> QED BY <1>2, <3>1
  <2> QED BY <1>6, <2>1, <2>2 DEF VoucherNext
<1>7. CASE WalletNext BY <1>1, <1>7, WalletKeepsAccounts
<1>8. CASE Tick BY <1>1, <1>8 DEF Tick
<1>9. CASE UNCHANGED vars BY <1>1, <1>9 DEF vars
<1> HIDE DEF Opens
<1> QED BY <1>3, <1>4, <1>5, <1>6, <1>7, <1>8, <1>9 DEF Next
-----------------------------------------------------------------------------
\* What a shop issued covers what is out and what it gave rewards for.
Covered(m) ==
  shop[m] # NoAccount =>
    StampsOut(m) + shop[m].total_vouchers_issued <= shop[m].total_stamps_issued

LEMMA CoveredStep ==
  ASSUME Settled, Settled', GoalsInRange, NEW m \in Merchants,
         Covered(m), Booked(m), OpensEmpty(m)
  PROVE  Covered(m)'
<1> SUFFICES ASSUME shop'[m] # NoAccount
             PROVE  StampsOut(m)' + shop'[m].total_vouchers_issued
                      <= shop'[m].total_stamps_issued
  BY DEF Covered
<1>0. TypeOK /\ TypeOK' BY DEF Settled
<1>1. card[m] \in [Customers -> Slot] /\ card'[m] \in [Customers -> Slot]
  BY <1>0 DEF TypeOK, Slot
<1>2. StampsOut(m) \in Nat /\ StampsOut(m)' \in Nat BY <1>1, SumsOfRows, RowFigures
<1>3. CASE shop[m] = NoAccount
  <2>1. \A c \in Customers : card[m][c] = NoAccount
    BY <1>3 DEF Settled, ShopSettled, OpenCards
  <2>2. \A c \in Customers : StampsHeld(card[m])[c] = 0
    BY <2>1 DEF StampsHeld, StampsOn
  <2>3. StampsOut(m) = 0 BY <2>2, SumsOfRows, SumOfZeros, WalletsAssumption
  <2>4. StampsOut(m)' = StampsOut(m) BY <1>3, SumsOfRows DEF OpensEmpty
  <2> QED BY <1>3, <2>3, <2>4 DEF OpensEmpty
<1>4. CASE shop[m] # NoAccount
  <2>1. PaidForRewards(m) \in Nat
    <3>1. \A c \in Customers : StampsPaid(card[m], card'[m])[c] \in Nat
      BY <1>1, SlotFigures DEF StampsPaid
    <3> QED BY <3>1, SumsOfRows, SumIsNat, WalletsAssumption
  <2>2. /\ shop[m].total_stamps_issued \in Nat /\ shop[m].total_vouchers_issued \in Nat
        /\ shop'[m].total_stamps_issued \in Nat /\ shop'[m].total_vouchers_issued \in Nat
    <3>1. shop[m] \in Business /\ shop'[m] \in Business BY <1>0, <1>4 DEF TypeOK
    <3> QED BY <3>1 DEF Business
  <2> DEFINE out == StampsOut(m)
             outNow == StampsOut(m)'
             paid == PaidForRewards(m)
             b == shop[m]
             bb == shop'[m]
  <2>3. /\ outNow = out - paid + (bb.total_stamps_issued - b.total_stamps_issued)
        /\ bb.total_vouchers_issued - b.total_vouchers_issued <= paid
        /\ out + b.total_vouchers_issued <= b.total_stamps_issued
    BY <1>4 DEF Booked, Conserves, Charges, Covered
  <2>4. out \in Nat /\ outNow \in Nat /\ paid \in Nat BY <1>2, <2>1
  <2> HIDE DEF out, outNow, paid
  <2>5. outNow + bb.total_vouchers_issued <= bb.total_stamps_issued
    BY <2>2, <2>3, <2>4
  <2> QED BY <2>5 DEF outNow
<1> QED BY <1>3, <1>4

\* Every voucher a shop gave out was paid for with a stamp it issued, and the
\* stamps still on cards come on top: over any number of cards, stamps passed
\* between them, cards closed and opened again and shops registered anew.
THEOREM NoRewardIsFree == Spec => []NoFreeRewards
<1> DEFINE Inv == Settled /\ \A m \in Merchants : Covered(m)
<1>1. Init => Inv BY InitSettled DEF Init, Covered
<1>2. Inv /\ GoalsInRange /\ [Next]_vars => Inv'
  <2> SUFFICES ASSUME Inv, GoalsInRange, [Next]_vars PROVE Inv'
    OBVIOUS
  <2>1. TypeOK /\ Settled' BY NextSettles DEF Settled
  <2>2. ASSUME NEW m \in Merchants PROVE Covered(m)'
    BY <2>1, CoveredStep, EveryStepBooked, EveryShopOpensEmpty
  <2> QED BY <2>1, <2>2
<1>3. Inv => NoFreeRewards BY DEF Covered, NoFreeRewards
<1> HIDE DEF Inv
<1> QED BY <1>1, <1>2, <1>3, GoalsStayInRange, PTL DEF Spec

\* No step makes or loses a stamp but by the claims and rewards it books.
THEOREM StampsAreConserved == Spec => StampsConserved
<1>1. TypeOK /\ [Next]_vars => [\A m \in Merchants : Conserves(m)]_vars
  BY EveryStepBooked DEF Booked
<1> QED BY <1>1, InitType, NextType, PTL DEF Spec, StampsConserved
=============================================================================
