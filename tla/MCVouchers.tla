----------------------------- MODULE MCVouchers -----------------------------
(***************************************************************************)
(* Vouchers with room for two at a time: a shop one second old, whose only *)
(* customer has claimed two receipts and can afford two rewards.  No more  *)
(* receipts are issued and the card's NFT is left out; shops still change  *)
(* their terms, close and open again.                                      *)
(***************************************************************************)
EXTENDS VoucherPromise, TLC

CONSTANT FirstCustomer

FullCard(b, relayer) ==
  [OpenedCard(b, relayer) EXCEPT
     !.stamps = 2, !.lifetime_stamps = 2, !.last_stamp_ts = Epoch + 1,
     !.claims_window_start = Epoch, !.claims_this_window = 2]

BusyShop(b) ==
  [b EXCEPT !.receipts_window_start = Epoch, !.receipts_this_window = 2,
            !.total_cards = 1, !.open_cards = 1, !.total_stamps_issued = 2]

VouchersInit ==
  \E relayer \in Relayers, ttl \in ReceiptTtls :
    LET b == NewBusiness(1, ttl, 0, relayer) IN
    /\ now = Epoch + 1
    /\ shop = [m \in Merchants |-> BusyShop(b)]
    /\ receipt = [m \in Merchants |-> [s \in Secrets |-> NoAccount]]
    /\ card = [m \in Merchants |-> [c \in Customers |->
                 IF c = FirstCustomer THEN FullCard(b, relayer) ELSE NoAccount]]
    /\ cardMint = {} /\ cardToken = {} /\ cardHeld = {}
    /\ voucher = [m \in Merchants |-> [i \in VoucherIds |-> NoAccount]]
    /\ voucherMint = {}
    /\ voucherToken = [m \in Merchants |->
                        [i \in VoucherIds |-> [w \in Customers |-> NoAccount]]]

VouchersNext ==
  \/ ShopNext
  \/ \E m \in Merchants, c \in Customers :
       \/ CloseDeadCard(m, c)
       \/ \E relayer \in Relayers : MintVoucher(m, c, relayer)
  \/ VoucherNext
  \/ WalletNext
  \/ Tick

VouchersSpec == VouchersInit /\ [][VouchersNext]_vars
=============================================================================
