------------------------------- MODULE WindUp -------------------------------
(***************************************************************************)
(* What becomes of everything the program created once the shops have      *)
(* stopped trading: the clean-ups that anyone may call, racing what        *)
(* holders and their wallets still do with vouchers, until nothing is left *)
(* that a clean-up may take.                                               *)
(***************************************************************************)
EXTENDS Loyalty

CONSTANT ClosingTime     \* nobody comes to a counter after this

ASSUME ClosingTimeAssumption == ClosingTime \in Nat

\* MaxNftCycle must not be what keeps an NFT from being swept.
NftsBounded == \A id \in cardMint : id[3] < MaxNftCycle

\* Everything the program does while its shops trade.
Trading ==
  /\ now <= ClosingTime
  /\ ShopNext \/ ReceiptNext \/ CardNext \/ VoucherNext
  /\ NftsBounded'

\* What a holder may do with a voucher without ever meeting the shop.
HoldersNext ==
  \E m \in Merchants, i \in VoucherIds, w \in Customers :
    \/ PresentVoucher(m, i, w)
    \/ CancelPresentation(m, i, w)
    \/ \E to \in Customers : TransferVoucher(m, i, w, to)

\* Sweeping a voucher: look up who holds it, or that nobody does, and name them.
SweepVoucher(m, i) == \E w \in Customers : CloseExpiredVoucher(m, i, w)

\* The clean-ups, which ask for nobody's signature.
CleanUp ==
  \E m \in Merchants :
    \/ \E s \in Secrets : ReclaimExpiredReceipt(m, s)
    \/ \E c \in Customers : RetireIdleCardNft(m, c) \/ CloseDeadCard(m, c)
    \/ \E i \in VoucherIds : SweepVoucher(m, i)
    \/ CloseBusiness(m)

WindUpNext == Trading \/ HoldersNext \/ WalletNext \/ CleanUp \/ Tick

\* Time passes, and somebody sees to each clean-up that stays possible: the web
\* app runs them as a background job, and everybody else may call them too.
Fairness ==
  /\ WF_vars(Tick)
  /\ \A m \in Merchants :
       /\ \A s \in Secrets : WF_vars(ReclaimExpiredReceipt(m, s))
       /\ \A c \in Customers : /\ WF_vars(RetireIdleCardNft(m, c))
                               /\ WF_vars(CloseDeadCard(m, c))
       /\ \A i \in VoucherIds : WF_vars(SweepVoucher(m, i))
       /\ WF_vars(CloseBusiness(m))

WindUpSpec == Init /\ [][WindUpNext]_vars /\ Fairness
-----------------------------------------------------------------------------
StampsLeft(m) == \E c \in OpenCards(m) : card[m][c].stamps > 0

\* A receipt nobody claims is swept, also when its shop has closed meanwhile
\* (reclaim_expired_receipt.rs).
ReceiptsSwept ==
  \A m \in Merchants, s \in Secrets : receipt[m][s] # NoAccount ~> receipt[m][s] = NoAccount

\* A card's NFT is recycled once its customer stays away, even one the holder
\* has burned, and through any change of cycle (retire_idle_card_nft.rs).
NftsRecycled ==
  \A m \in Merchants, c \in Customers :
    \A n \in 0..MaxNftCycle : <<m, c, n>> \in cardMint ~> <<m, c, n>> \notin cardMint

\* A voucher does not stay for ever: it is redeemed, or swept after its date
\* wherever its holders sent, burned or froze the token (close_expired_voucher.rs).
VouchersEnd ==
  \A m \in Merchants, i \in VoucherIds : voucher[m][i] # NoAccount ~> voucher[m][i] = NoAccount

\* A shop that stops trading is closed in the end, in whatever order the sweeps
\* come, unless a customer is left with stamps (close_business.rs).
ShopsWindUp ==
  \A m \in Merchants : now > ClosingTime ~> shop[m] = NoAccount \/ StampsLeft(m)
=============================================================================
