------------------------------- MODULE Cards -------------------------------
(***************************************************************************)
(* A stamp card and its soulbound NFT: transfer_stamps, mint_card_nft,     *)
(* retire_idle_card_nft, close_dead_card, and what a customer's own wallet *)
(* may do to the NFT.  Stamps are added in Receipts and spent in Vouchers. *)
(***************************************************************************)
EXTENDS LoyaltyState

\* The address of a card's NFT comes from the card and its cycle.
CardNftId(m, c) == <<m, c, card[m][c].nft_cycle>>

\* Mutation: the sender's stamps are copied, not moved.
PassedKeepingStamps(k, amount) == [k EXCEPT !.lifetime_stamps = @ - amount]

\* Mutation: lifetime_stamps stays with the sender.
PassedKeepingLifetime(k, amount) == [k EXCEPT !.stamps = @ - amount]

Passed(k, amount)   == [k EXCEPT !.stamps = @ - amount, !.lifetime_stamps = @ - amount]
Received(k, amount) == [k EXCEPT !.stamps = @ + amount, !.lifetime_stamps = @ + amount]

\* Anchor refuses the same card twice; both cards must exist and be of shop m.
TransferStamps(m, from, to, amount) ==
  /\ from # to
  /\ shop[m] # NoAccount
  /\ card[m][from] # NoAccount /\ card[m][to] # NoAccount
  /\ amount > 0
  /\ card[m][from].stamps >= amount
  /\ card[m][to].stamps + amount <= U8Max
  /\ card[m][from].lifetime_stamps >= amount
  /\ card' = [card EXCEPT ![m][from] = Passed(@, amount),
                          ![m][to]   = Received(@, amount)]
  /\ UNCHANGED <<now, shop, receipt, cardNftVars, voucherVars>>

\* Creating the mint and the token account fails if either already exists.
MintCardNft(m, c) ==
  /\ shop[m] # NoAccount
  /\ card[m][c] # NoAccount
  /\ CardNftId(m, c) \notin cardMint
  /\ CardNftId(m, c) \notin cardToken
  /\ cardMint' = cardMint \cup {CardNftId(m, c)}
  /\ cardToken' = cardToken \cup {CardNftId(m, c)}
  /\ cardHeld' = cardHeld \cup {CardNftId(m, c)}
  /\ UNCHANGED <<now, shop, receipt, card, voucherVars>>

\* burn_and_close_card_nft: burn what is left through the permanent delegate,
\* close the token account if it is still there, close the mint.
BurnAndCloseCardNft(id) ==
  /\ cardMint' = cardMint \ {id}
  /\ cardToken' = cardToken \ {id}
  /\ cardHeld' = cardHeld \ {id}

Idle(k) == now - k.last_stamp_ts >= CardNftIdleSeconds

\* Mutation: the clean-up counts on a token to burn.
RetireUnburnedCardNft(m, c) ==
  /\ card[m][c] # NoAccount
  /\ Idle(card[m][c])
  /\ card[m][c].nft_cycle < MaxNftCycle
  /\ CardNftId(m, c) \in cardHeld
  /\ BurnAndCloseCardNft(CardNftId(m, c))
  /\ card' = [card EXCEPT ![m][c].nft_cycle = @ + 1]
  /\ UNCHANGED <<now, shop, receipt, voucherVars>>

\* Anyone may call it.  Closing a mint that does not exist fails.
RetireIdleCardNft(m, c) ==
  /\ card[m][c] # NoAccount
  /\ Idle(card[m][c])
  /\ card[m][c].nft_cycle < MaxNftCycle
  /\ CardNftId(m, c) \in cardMint
  /\ BurnAndCloseCardNft(CardNftId(m, c))
  /\ card' = [card EXCEPT ![m][c].nft_cycle = @ + 1]
  /\ UNCHANGED <<now, shop, receipt, voucherVars>>

\* Mutation: a card may die with its NFT alive.
DeadWithNft(m, c) ==
  /\ card[m][c].stamps = 0
  /\ now - card[m][c].last_stamp_ts >= CardDeadSeconds

\* Mutation: an empty card need not go untouched to be dead.
DeadAtOnce(m, c) ==
  /\ card[m][c].stamps = 0
  /\ CardNftId(m, c) \notin cardMint

Dead(m, c) ==
  /\ card[m][c].stamps = 0
  /\ now - card[m][c].last_stamp_ts >= CardDeadSeconds
  /\ CardNftId(m, c) \notin cardMint

\* Mutation: a closed card stays on the shop's books.
CountClosedCardNot(b) == b

\* open_cards comes down with saturating_sub.
CountClosedCard(b) ==
  [b EXCEPT !.open_cards = IF @ = 0 THEN 0 ELSE @ - 1]

\* Anyone may call it.
CloseDeadCard(m, c) ==
  /\ shop[m] # NoAccount
  /\ card[m][c] # NoAccount
  /\ Dead(m, c)
  /\ card' = [card EXCEPT ![m][c] = NoAccount]
  /\ shop' = [shop EXCEPT ![m] = CountClosedCard(@)]
  /\ UNCHANGED <<now, receipt, cardNftVars, voucherVars>>

\* The holder burns their own card token from a wallet.  The account stays:
\* the right to close it went to the card when the NFT was minted.
WalletBurnsCardToken(id) ==
  /\ id \in cardHeld
  /\ cardHeld' = cardHeld \ {id}
  /\ UNCHANGED <<now, shop, receipt, card, cardMint, cardToken, voucherVars>>
=============================================================================
