--------------------------- MODULE VoucherPromise ---------------------------
(***************************************************************************)
(* The loyalty program as an implementation of Rewards: what its accounts, *)
(* mints and token accounts mean to the people who use them.               *)
(***************************************************************************)
EXTENDS Loyalty

\* A reward is being shown while the account that holds it is frozen.
StageOf(m, i) ==
  IF voucher[m][i] = NoAccount THEN "none"
  ELSE IF \E w \in Customers : Frozen(voucherToken[m][i][w]) THEN "shown" ELSE "out"

Trading  == [m \in Merchants |-> shop[m] # NoAccount]
Stages   == [m \in Merchants |-> [i \in VoucherIds |-> StageOf(m, i)]]
HeldBy   == [m \in Merchants |-> [i \in VoucherIds |-> Holders(m, i)]]
Overdue  == [m \in Merchants |-> [i \in VoucherIds |->
               voucher[m][i] # NoAccount /\ Expired(m, i)]]
Honoured == [m \in Merchants |->
               IF shop[m] = NoAccount THEN 0 ELSE shop[m].total_redemptions]

R == INSTANCE Rewards WITH
  Shops    <- Merchants,
  Numbers  <- VoucherIds,
  People   <- Customers,
  trading  <- Trading,
  stage    <- Stages,
  holder   <- HeldBy,
  late     <- Overdue,
  honoured <- Honoured

\* The program does with vouchers only what Rewards allows: whatever wallets,
\* relayers and clean-ups do meanwhile, a reward is honoured only once, only
\* while its one holder shows it and in date, it moves or is lost only while it
\* is not being shown, and a shop leaves only when none is out.
RewardsKept == R!Spec
=============================================================================
