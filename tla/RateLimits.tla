----------------------------- MODULE RateLimits -----------------------------
(***************************************************************************)
(* What the rate limits come to.  The program keeps one fixed window for a *)
(* shop's receipts and one for a card's claims, each started afresh by the *)
(* first use after the last one has run out, and forgets both with the     *)
(* account; here the times of all of them are remembered beside it.        *)
(***************************************************************************)
EXTENDS Loyalty, Functions

\* There are windows and something fits in them (constants.rs).  A card is dead
\* only when its limits have long run out.
ASSUME RateAssumption ==
  /\ Epoch <= MaxTime
  /\ HourSeconds > 0 /\ MaxReceiptsPerHour > 0
  /\ DaySeconds > 0 /\ MaxClaimsPerCardPerDay > 0
  /\ CardDeadSeconds >= DaySeconds
  /\ CardDeadSeconds >= StampCooldownSeconds

VARIABLES
  issued,     \* issued[m][t]: receipts m has issued at time t since it registered
  claimed     \* claimed[m][c][t]: claims of c at m at time t, on any card

rateVars == <<vars, issued, claimed>>

Times == Epoch..MaxTime
Never == [t \in Times |-> 0]

RateInit ==
  /\ Init
  /\ issued = [m \in Merchants |-> Never]
  /\ claimed = [m \in Merchants |-> [c \in Customers |-> Never]]

\* A shop is forgotten with its account.
ShopStep ==
  \E m \in Merchants :
    \/ /\ \E stamps \in StampGoals, ttl \in ReceiptTtls, lock \in LockDates :
            \/ \E relayer \in Relayers : RegisterBusiness(m, stamps, ttl, lock, relayer)
            \/ UpdateBusinessConfig(m, stamps, ttl, lock)
       /\ UNCHANGED <<issued, claimed>>
    \/ /\ CloseBusiness(m)
       /\ issued' = [issued EXCEPT ![m] = Never]
       /\ UNCHANGED claimed

ReceiptStep ==
  \E m \in Merchants, s \in Secrets :
    \/ /\ \E relayer \in Relayers : IssueReceipt(m, s, relayer)
       /\ issued' = [issued EXCEPT ![m][now] = @ + 1]
       /\ UNCHANGED claimed
    \/ \E c \in Customers :
         /\ \E relayer \in Relayers : ClaimReceipt(m, s, c, relayer)
         /\ claimed' = [claimed EXCEPT ![m][c][now] = @ + 1]
         /\ UNCHANGED issued
    \/ ReclaimExpiredReceipt(m, s) /\ UNCHANGED <<issued, claimed>>

RateNext ==
  \/ ShopStep
  \/ ReceiptStep
  \/ (CardNext \/ VoucherNext \/ WalletNext \/ Tick) /\ UNCHANGED <<issued, claimed>>

RateSpec == RateInit /\ [][RateNext]_rateVars
-----------------------------------------------------------------------------
\* How often something happened in the given seconds that start at t.
Within(times, t, seconds) ==
  SumFunctionOnSet(times, {u \in Times : t <= u /\ u < t + seconds})

\* In any hour at all, the edge of a window in the middle of it, a shop issues
\* fewer than twice the hourly limit while it lasts (issue_receipt.rs).
HourlyIssueBounded ==
  \A m \in Merchants, t \in Times :
    Within(issued[m], t, HourSeconds) <= 2 * MaxReceiptsPerHour - 1

\* A customer's claims at a shop are a cooldown apart, and in any day fewer than
\* twice the daily limit, also when a card is cashed in, closed and opened again
\* between them: the limits a card forgets with its account have run out by the
\* time the account may be closed (claim_receipt.rs, close_dead_card.rs).
ClaimsPaced ==
  \A m \in Merchants, c \in Customers, t \in Times :
    /\ Within(claimed[m][c], t, DaySeconds) <= 2 * MaxClaimsPerCardPerDay - 1
    /\ claimed[m][c][t] > 0 =>
         Within(claimed[m][c], t, StampCooldownSeconds) <= 1
=============================================================================
