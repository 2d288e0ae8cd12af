------------------------------ MODULE Vouchers ------------------------------
(***************************************************************************)
(* The life of a voucher and its NFT: mint_voucher, present_voucher,       *)
(* cancel_presentation, transfer_voucher, redeem_voucher and               *)
(* close_expired_voucher, and what a holder's own wallet may do to the     *)
(* token without calling the program.                                      *)
(***************************************************************************)
EXTENDS Cards

Holders(m, i) == {w \in Customers : Holds(voucherToken[m][i][w])}

\* Mutation: cashing in clears the card, leftover stamps and all.
CashedInClearing(k, b, burned) ==
  [k EXCEPT !.stamps = 0,
            !.rewards_earned = @ + 1,
            !.stamps_required_snapshot = b.stamps_required,
            !.nft_cycle = IF burned THEN @ + 1 ELSE @]

\* The card as cashing in leaves it: the spent stamps gone, the shop's terms
\* of today, and the next NFT cycle if an NFT was burned.
CashedIn(k, b, burned) ==
  [k EXCEPT !.stamps = @ - k.stamps_required_snapshot,
            !.rewards_earned = @ + 1,
            !.stamps_required_snapshot = b.stamps_required,
            !.nft_cycle = IF burned THEN @ + 1 ELSE @]

CountMinted(b) ==
  [b EXCEPT !.total_vouchers_issued = @ + 1, !.open_vouchers = @ + 1]

\* The addresses `init` must find empty for customer c's voucher number i.
AddressesFree(m, i, c) ==
  /\ voucher[m][i] = NoAccount
  /\ <<m, i>> \notin voucherMint
  /\ voucherToken[m][i][c] = NoAccount

MintVoucher(m, c, relayer) ==
  LET i == shop[m].total_vouchers_issued
      burned == CardNftId(m, c) \in cardMint
  IN
  /\ shop[m] # NoAccount
  /\ card[m][c] # NoAccount
  /\ i \in VoucherIds
  /\ burned => card[m][c].nft_cycle < MaxNftCycle
  /\ AddressesFree(m, i, c)
  /\ card[m][c].stamps >= card[m][c].stamps_required_snapshot
  /\ card' = [card EXCEPT ![m][c] = CashedIn(@, shop[m], burned)]
  /\ shop' = [shop EXCEPT ![m] = CountMinted(@)]
  /\ voucher' = [voucher EXCEPT ![m][i] =
       [owner |-> c, rent_payer |-> relayer, expires_at |-> now + VoucherValidSeconds]]
  /\ voucherMint' = voucherMint \cup {<<m, i>>}
  /\ voucherToken' = [voucherToken EXCEPT ![m][i][c] =
       [amount |-> 1, state |-> "Initialized", closer |-> "voucher"]]
  /\ IF burned THEN BurnAndCloseCardNft(CardNftId(m, c)) ELSE UNCHANGED cardNftVars
  /\ UNCHANGED <<now, receipt>>
-----------------------------------------------------------------------------
VoucherLive(m, i) == voucher[m][i] # NoAccount /\ <<m, i>> \in voucherMint

Usable(m, i) == now <= voucher[m][i].expires_at

\* Mutation: a voucher can be swept in its last second.
ExpiredTooSoon(m, i) == now >= voucher[m][i].expires_at

Expired(m, i) == now > voucher[m][i].expires_at

\* The holder signs: freeze the token, and grant the right to close the
\* account unless some other key has it.
Presented(t) ==
  [t EXCEPT !.state = "Frozen", !.closer = IF @ = "owner" THEN "voucher" ELSE @]

PresentVoucher(m, i, w) ==
  /\ VoucherLive(m, i)
  /\ Movable(voucherToken[m][i][w])
  /\ Usable(m, i)
  /\ voucherToken' = [voucherToken EXCEPT ![m][i][w] = Presented(@)]
  /\ UNCHANGED <<now, shop, receipt, card, cardNftVars, voucher, voucherMint>>

\* The holder takes the voucher back, expired or not.
CancelPresentation(m, i, w) ==
  /\ VoucherLive(m, i)
  /\ Holds(voucherToken[m][i][w]) /\ Frozen(voucherToken[m][i][w])
  /\ voucherToken' = [voucherToken EXCEPT ![m][i][w] = Thawed(@)]
  /\ UNCHANGED <<now, shop, receipt, card, cardNftVars, voucher, voucherMint>>

\* Mutation: the voucher thaws and sends a presented token as it may.
GiftablePresented(m, i, from) ==
  /\ VoucherLive(m, i)
  /\ Holds(voucherToken[m][i][from])
  /\ Usable(m, i)

Giftable(m, i, from) ==
  /\ VoucherLive(m, i)
  /\ Movable(voucherToken[m][i][from])
  /\ Usable(m, i)

\* from signs; to's account is created if it is missing, from's is closed
\* unless some other key holds the right to.  Giving to oneself changes
\* nothing or fails, so from # to.
TransferVoucher(m, i, from, to) ==
  /\ from # to
  /\ Giftable(m, i, from)
  /\ voucherToken' = [voucherToken EXCEPT
       ![m][i][from] = ClosedBy(@, {"owner", "voucher"}),
       ![m][i][to]   = Credited(@)]
  /\ voucher' = [voucher EXCEPT ![m][i].owner = to]
  /\ UNCHANGED <<now, shop, receipt, card, cardNftVars, voucherMint>>

\* Mutation: a voucher that ends stays on the shop's books.
CountClosedVoucherNot(b) == b

\* open_vouchers comes down with saturating_sub.
CountClosedVoucher(b) ==
  [b EXCEPT !.open_vouchers = IF @ = 0 THEN 0 ELSE @ - 1]

\* Mutation: a redeemed voucher still counts as owed.
CountRedeemedOnly(b) == [b EXCEPT !.total_redemptions = @ + 1]

CountRedeemed(b) == [CountClosedVoucher(b) EXCEPT !.total_redemptions = @ + 1]

\* Mutation: the mint outlives its voucher.
EndVoucherKeepingMint(m, i) ==
  /\ voucher' = [voucher EXCEPT ![m][i] = NoAccount]
  /\ UNCHANGED voucherMint

\* Close the voucher and its mint, as redeeming and cleaning up both end.
EndVoucher(m, i) ==
  /\ voucher' = [voucher EXCEPT ![m][i] = NoAccount]
  /\ voucherMint' = voucherMint \ {<<m, i>>}

\* Mutation: whoever's token the merchant names will do, presented or not.
RedeemUnpresented(m, i, w) ==
  /\ shop[m] # NoAccount
  /\ VoucherLive(m, i)
  /\ Holds(voucherToken[m][i][w])
  /\ Usable(m, i)
  /\ voucherToken' = [voucherToken EXCEPT ![m][i][w] = ClosedBy(@, {"voucher"})]
  /\ EndVoucher(m, i)
  /\ shop' = [shop EXCEPT ![m] = CountRedeemed(@)]
  /\ UNCHANGED <<now, receipt, card, cardNftVars>>

\* Merchant m signs for a voucher that wallet w holds and has presented.
RedeemVoucher(m, i, w) ==
  /\ shop[m] # NoAccount
  /\ VoucherLive(m, i)
  /\ Holds(voucherToken[m][i][w]) /\ Frozen(voucherToken[m][i][w])
  /\ Usable(m, i)
  /\ voucherToken' = [voucherToken EXCEPT ![m][i][w] = ClosedBy(@, {"voucher"})]
  /\ EndVoucher(m, i)
  /\ shop' = [shop EXCEPT ![m] = CountRedeemed(@)]
  /\ UNCHANGED <<now, receipt, card, cardNftVars>>

\* Mutation: there must be a token account to close.
SweepWithAccount(m, i, w) ==
  /\ shop[m] # NoAccount
  /\ VoucherLive(m, i)
  /\ Expired(m, i)
  /\ voucherToken[m][i][w] # NoAccount
  /\ Holders(m, i) \subseteq {w}
  /\ voucherToken' = [voucherToken EXCEPT ![m][i][w] = ClosedBy(@, {"voucher"})]
  /\ EndVoucher(m, i)
  /\ shop' = [shop EXCEPT ![m] = CountClosedVoucher(@)]
  /\ UNCHANGED <<now, receipt, card, cardNftVars>>

\* Anyone may call it, naming wallet w's token account or an address with none:
\* what the account holds is burned, and no token may be left anywhere else.
CloseExpiredVoucher(m, i, w) ==
  /\ shop[m] # NoAccount
  /\ VoucherLive(m, i)
  /\ Expired(m, i)
  /\ \/ /\ voucherToken[m][i][w] # NoAccount
        /\ Holders(m, i) \subseteq {w}
        /\ voucherToken' = [voucherToken EXCEPT ![m][i][w] = ClosedBy(@, {"voucher"})]
     \/ Holders(m, i) = {} /\ UNCHANGED voucherToken
  /\ EndVoucher(m, i)
  /\ shop' = [shop EXCEPT ![m] = CountClosedVoucher(@)]
  /\ UNCHANGED <<now, receipt, card, cardNftVars>>
-----------------------------------------------------------------------------
\* A wallet moves an unfrozen token without calling the program: its own
\* account stays behind, empty, and the owner hint goes stale.
WalletMovesVoucher(m, i, from, to) ==
  /\ from # to
  /\ Movable(voucherToken[m][i][from])
  /\ voucherToken' = [voucherToken EXCEPT ![m][i][from] = Debited(@),
                                          ![m][i][to] = Credited(@)]
  /\ UNCHANGED <<now, shop, receipt, card, cardNftVars, voucher, voucherMint>>

\* A wallet burns its own unfrozen token.
WalletBurnsVoucher(m, i, w) ==
  /\ Movable(voucherToken[m][i][w])
  /\ voucherToken' = [voucherToken EXCEPT ![m][i][w] = Debited(@)]
  /\ UNCHANGED <<now, shop, receipt, card, cardNftVars, voucher, voucherMint>>

\* Anyone may create wallet w's account of a mint that exists.
WalletOpensToken(m, i, w) ==
  /\ <<m, i>> \in voucherMint
  /\ voucherToken[m][i][w] = NoAccount
  /\ voucherToken' = [voucherToken EXCEPT ![m][i][w] = EmptyToken]
  /\ UNCHANGED <<now, shop, receipt, card, cardNftVars, voucher, voucherMint>>

\* A wallet, or the key it gave that right to, closes its empty account.
WalletClosesToken(m, i, w) ==
  /\ voucherToken[m][i][w] # NoAccount
  /\ voucherToken[m][i][w].amount = 0
  /\ voucherToken[m][i][w].closer \in {"owner", "other"}
  /\ voucherToken' = [voucherToken EXCEPT ![m][i][w] = NoAccount]
  /\ UNCHANGED <<now, shop, receipt, card, cardNftVars, voucher, voucherMint>>

\* A wallet hands the right to close its unfrozen account to some other key.
WalletGrantsClose(m, i, w) ==
  /\ voucherToken[m][i][w] # NoAccount
  /\ voucherToken[m][i][w].closer = "owner" /\ ~Frozen(voucherToken[m][i][w])
  /\ voucherToken' = [voucherToken EXCEPT ![m][i][w].closer = "other"]
  /\ UNCHANGED <<now, shop, receipt, card, cardNftVars, voucher, voucherMint>>
=============================================================================
