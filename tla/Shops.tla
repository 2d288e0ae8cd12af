------------------------------- MODULE Shops -------------------------------
(***************************************************************************)
(* A shop's own instructions: register_business, update_business_config    *)
(* and close_business, with the rules of business_rules.rs.                *)
(***************************************************************************)
EXTENDS LoyaltyState

\* Mutation: a shop may ask for no stamps at all.
CheckSettingsZeroGoal(stamps_required, receipt_ttl_seconds) ==
  /\ stamps_required \in 0..MaxStampsRequired
  /\ receipt_ttl_seconds \in MinReceiptTtlSeconds..MaxReceiptTtlSeconds

CheckSettings(stamps_required, receipt_ttl_seconds) ==
  /\ stamps_required \in 1..MaxStampsRequired
  /\ receipt_ttl_seconds \in MinReceiptTtlSeconds..MaxReceiptTtlSeconds

CheckTermsLock(current_lock, proposed) ==
  \/ proposed = 0
  \/ /\ proposed >= now
     /\ proposed - now <= MaxTermsLockSeconds
     /\ proposed < current_lock => proposed - now >= MinTermsNoticeSeconds

NewBusiness(stamps_required, receipt_ttl_seconds, terms_locked_until, relayer) ==
  [stamps_required |-> stamps_required,
   receipt_ttl_seconds |-> receipt_ttl_seconds,
   receipts_window_start |-> 0, receipts_this_window |-> 0,
   total_cards |-> 0, total_stamps_issued |-> 0,
   total_vouchers_issued |-> 0, total_redemptions |-> 0,
   terms_locked_until |-> terms_locked_until,
   open_cards |-> 0, open_vouchers |-> 0,
   rent_payer |-> relayer]

RegisterBusiness(m, stamps_required, receipt_ttl_seconds, terms_locked_until, relayer) ==
  /\ shop[m] = NoAccount
  /\ CheckSettings(stamps_required, receipt_ttl_seconds)
  /\ CheckTermsLock(0, terms_locked_until)
  /\ shop' = [shop EXCEPT ![m] =
       NewBusiness(stamps_required, receipt_ttl_seconds, terms_locked_until, relayer)]
  /\ UNCHANGED <<now, receipt, card, cardNftVars, voucherVars>>

\* Mutation: only the new date is checked, not the promise it replaces.
UpdateAllowedAnyTime(m, stamps_required, receipt_ttl_seconds, terms_locked_until) ==
  /\ shop[m] # NoAccount
  /\ CheckSettings(stamps_required, receipt_ttl_seconds)
  /\ CheckTermsLock(shop[m].terms_locked_until, terms_locked_until)

\* What update_business_config demands before it writes anything.
UpdateAllowed(m, stamps_required, receipt_ttl_seconds, terms_locked_until) ==
  /\ shop[m] # NoAccount
  /\ CheckSettings(stamps_required, receipt_ttl_seconds)
  /\ now >= shop[m].terms_locked_until
  /\ CheckTermsLock(shop[m].terms_locked_until, terms_locked_until)

UpdateBusinessConfig(m, stamps_required, receipt_ttl_seconds, terms_locked_until) ==
  /\ UpdateAllowed(m, stamps_required, receipt_ttl_seconds, terms_locked_until)
  /\ shop' = [shop EXCEPT ![m] =
       [@ EXCEPT !.terms_locked_until = terms_locked_until,
                 !.stamps_required = stamps_required,
                 !.receipt_ttl_seconds = receipt_ttl_seconds]]
  /\ UNCHANGED <<now, receipt, card, cardNftVars, voucherVars>>

\* Mutation: a shop closes without asking after its vouchers.
MayCloseOwingVouchers(b) ==
  /\ now >= b.terms_locked_until
  /\ b.open_cards = 0

MayClose(b) ==
  /\ now >= b.terms_locked_until
  /\ b.open_cards = 0
  /\ b.open_vouchers = 0

\* Anyone may call it.
CloseBusiness(m) ==
  /\ shop[m] # NoAccount
  /\ MayClose(shop[m])
  /\ shop' = [shop EXCEPT ![m] = NoAccount]
  /\ UNCHANGED <<now, receipt, card, cardNftVars, voucherVars>>
=============================================================================
