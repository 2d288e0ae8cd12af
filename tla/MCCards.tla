------------------------------ MODULE MCCards ------------------------------
(***************************************************************************)
(* Stamps and cards with room for several stamps: everything but what      *)
(* becomes of a voucher once it is minted, which touches no card.          *)
(***************************************************************************)
EXTENDS StampLedger, TLC

CardsNext ==
  \/ ShopNext
  \/ ReceiptNext
  \/ CardNext
  \/ \E id \in cardHeld : WalletBurnsCardToken(id)
  \/ Tick

CardsSpec == Init /\ [][CardsNext]_vars

Symmetry == Permutations(Customers)
=============================================================================
