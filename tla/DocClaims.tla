----------------------------- MODULE DocClaims -----------------------------
(***************************************************************************)
(* What the repository's documentation says of the program and the program *)
(* does not do.                                                            *)
(***************************************************************************)
EXTENDS Loyalty

\* reclaim_expired_receipt.rs:8: "an expired receipt can't be claimed anyway",
\* so a clean-up never takes a receipt its customer could still claim.
ReclaimTakesNothingClaimable ==
  \A m \in Merchants, s \in Secrets :
    receipt[m][s] # NoAccount /\ Reclaimable(receipt[m][s])
      => ~Claimable(receipt[m][s])

\* README.md:77: "nothing is permanently stranded": an account that only its
\* voucher may close does not outlive the voucher, after which no instruction
\* takes it (ids do not come back while the shop lasts).
NothingStranded ==
  \A m \in Merchants, i \in VoucherIds, w \in Customers :
    /\ voucherToken[m][i][w] # NoAccount
    /\ voucherToken[m][i][w].closer = "voucher"
    => voucher[m][i] # NoAccount
=============================================================================
