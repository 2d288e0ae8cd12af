--------------------------- MODULE VoucherHistory ---------------------------
(***************************************************************************)
(* Loyalty with a memory of every voucher that has come to its end.        *)
(***************************************************************************)
EXTENDS Loyalty

VARIABLE closed      \* <<m, i>> of the vouchers redeemed or swept so far

Ended == {id \in Merchants \X VoucherIds : /\ voucher[id[1]][id[2]] # NoAccount
                                           /\ voucher'[id[1]][id[2]] = NoAccount}

HistoryInit == Init /\ closed = {}
HistoryNext == Next /\ closed' = closed \cup Ended
HistorySpec == HistoryInit /\ [][HistoryNext]_<<vars, closed>>

\* README.md:279: "A closed voucher can never come back, because only this
\* program can create that address and voucher ids only go up."
ClosedNeverComesBack ==
  \A id \in closed : voucher[id[1]][id[2]] = NoAccount
=============================================================================
