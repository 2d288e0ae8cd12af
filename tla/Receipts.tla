------------------------------ MODULE Receipts ------------------------------
(***************************************************************************)
(* The life of a receipt: issue_receipt, claim_receipt (which stamps the   *)
(* customer's card, opening it if need be) and reclaim_expired_receipt.    *)
(***************************************************************************)
EXTENDS LoyaltyState

\* Mutation: a new window counts from the end of the last one.
HourlyWindowBackdated(b) ==
  IF now - b.receipts_window_start >= HourSeconds
  THEN [b EXCEPT !.receipts_window_start = @ + HourSeconds, !.receipts_this_window = 0]
  ELSE b

\* The fixed hourly window, started afresh when the last one is an hour old.
HourlyWindow(b) ==
  IF now - b.receipts_window_start >= HourSeconds
  THEN [b EXCEPT !.receipts_window_start = now, !.receipts_this_window = 0]
  ELSE b

\* The merchant signs.  A zero amount band is refused; the band is read by
\* nothing else.
IssueReceipt(m, s, relayer) ==
  LET b == HourlyWindow(shop[m]) IN
  /\ shop[m] # NoAccount
  /\ receipt[m][s] = NoAccount
  /\ b.receipts_this_window < MaxReceiptsPerHour
  /\ shop' = [shop EXCEPT ![m] = [b EXCEPT !.receipts_this_window = @ + 1]]
  /\ receipt' = [receipt EXCEPT ![m][s] =
       [expires_at |-> now + b.receipt_ttl_seconds, rent_payer |-> relayer]]
  /\ UNCHANGED <<now, card, cardNftVars, voucherVars>>

\* A card as the first claim opens it, before that claim's own stamp.
OpenedCard(b, relayer) ==
  [stamps |-> 0, last_stamp_ts |-> 0,
   claims_window_start |-> 0, claims_this_window |-> 0,
   lifetime_stamps |-> 0, nft_cycle |-> 0,
   stamps_required_snapshot |-> b.stamps_required,
   rent_payer |-> relayer, rewards_earned |-> 0]

\* Mutation: every claim takes the card's goal from the shop again.
CardAtCounterGoalMoves(m, c, relayer) ==
  IF card[m][c] = NoAccount
  THEN OpenedCard(shop[m], relayer)
  ELSE [card[m][c] EXCEPT !.stamps_required_snapshot = shop[m].stamps_required]

\* The card a claim stamps: the customer's own, or a new one.
CardAtCounter(m, c, relayer) ==
  IF card[m][c] = NoAccount THEN OpenedCard(shop[m], relayer) ELSE card[m][c]

DailyWindow(k) ==
  IF now - k.claims_window_start >= DaySeconds
  THEN [k EXCEPT !.claims_window_start = now, !.claims_this_window = 0]
  ELSE k

Cooled(k) == k.last_stamp_ts # 0 => now - k.last_stamp_ts >= StampCooldownSeconds

Stamped(k) ==
  [k EXCEPT !.claims_this_window = @ + 1, !.stamps = @ + 1,
            !.last_stamp_ts = now, !.lifetime_stamps = @ + 1]

CountStamp(b, opening) ==
  [b EXCEPT !.total_stamps_issued = @ + 1,
            !.total_cards = IF opening THEN @ + 1 ELSE @,
            !.open_cards = IF opening THEN @ + 1 ELSE @]

\* Mutation: the last value of the u8 is taken for room.
RoomForOneMore(k) == k.stamps <= U8Max

RoomForStamp(k) == k.stamps < U8Max

Claimable(r) == now <= r.expires_at

\* Customer c shows the secret of one of m's receipts.  The release profile
\* checks overflow, so a 256th stamp fails the claim.
ClaimReceipt(m, s, c, relayer) ==
  LET k == DailyWindow(CardAtCounter(m, c, relayer)) IN
  /\ shop[m] # NoAccount
  /\ receipt[m][s] # NoAccount
  /\ Claimable(receipt[m][s])
  /\ Cooled(k)
  /\ k.claims_this_window < MaxClaimsPerCardPerDay
  /\ RoomForStamp(k)
  /\ receipt' = [receipt EXCEPT ![m][s] = NoAccount]
  /\ card' = [card EXCEPT ![m][c] = Stamped(k)]
  /\ shop' = [shop EXCEPT ![m] = CountStamp(@, card[m][c] = NoAccount)]
  /\ UNCHANGED <<now, cardNftVars, voucherVars>>

Reclaimable(r) == now >= r.expires_at

\* Mutation: a clean-up needs the shop to be there still.
ReclaimWhileShopLasts(m, s) ==
  /\ shop[m] # NoAccount
  /\ receipt[m][s] # NoAccount
  /\ Reclaimable(receipt[m][s])
  /\ receipt' = [receipt EXCEPT ![m][s] = NoAccount]
  /\ UNCHANGED <<now, shop, card, cardNftVars, voucherVars>>

\* Anyone may call it, and the shop need not exist any more.
ReclaimExpiredReceipt(m, s) ==
  /\ receipt[m][s] # NoAccount
  /\ Reclaimable(receipt[m][s])
  /\ receipt' = [receipt EXCEPT ![m][s] = NoAccount]
  /\ UNCHANGED <<now, shop, card, cardNftVars, voucherVars>>
=============================================================================
