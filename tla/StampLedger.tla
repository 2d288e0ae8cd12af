---------------------------- MODULE StampLedger ----------------------------
(***************************************************************************)
(* The stamps a shop has out, added up over its cards, against what its    *)
(* Business account says it issued: a stamp is a debt of the shop, made    *)
(* only by claiming a receipt and settled only by minting a voucher.       *)
(***************************************************************************)
EXTENDS Loyalty, Functions

StampsOn(k)  == IF k = NoAccount THEN 0 ELSE k.stamps
StampsOut(m) == SumFunction([c \in Customers |-> StampsOn(card[m][c])])

\* No reward comes from nothing: each voucher a shop gave out was paid with at
\* least one stamp it issued, and those still on cards are not among them.
NoFreeRewards ==
  \A m \in Merchants : shop[m] # NoAccount =>
    StampsOut(m) + shop[m].total_vouchers_issued <= shop[m].total_stamps_issued

\* What a card that went from k to kk paid: if it was cashed in, the goal it
\* was opened under.
Paid(k, kk) ==
  IF /\ k # NoAccount /\ kk # NoAccount
     /\ kk.rewards_earned > k.rewards_earned
  THEN k.stamps_required_snapshot ELSE 0

PaidForRewards(m) == SumFunction([c \in Customers |-> Paid(card[m][c], card'[m][c])])

Conserves(m) ==
  shop[m] # NoAccount /\ shop'[m] # NoAccount =>
    StampsOut(m)' = StampsOut(m) - PaidForRewards(m)
      + (shop'[m].total_stamps_issued - shop[m].total_stamps_issued)

\* In every step of a shop's life the stamps out change by those it issued and
\* those paid for rewards: passing them on, sweeping cards and recycling NFTs
\* neither make nor lose one.
StampsConserved == [][\A m \in Merchants : Conserves(m)]_vars
=============================================================================
