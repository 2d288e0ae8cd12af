---------------------------- MODULE RewardProofs ----------------------------
(***************************************************************************)
(* The loyalty program implements Rewards, for any number of shops,        *)
(* customers and vouchers and any limits.  Each event of VoucherProofs is  *)
(* one step of Rewards, seen through VoucherPromise's mapping, or none.    *)
(***************************************************************************)
EXTENDS VoucherProofs, VoucherPromise

-----------------------------------------------------------------------------
(* Functions of one and of two arguments, written in one place.            *)

LEMMA WriteOne ==
  ASSUME NEW F, NEW G, NEW m \in Merchants, NEW x,
         F = [n \in Merchants |-> F[n]], G = [n \in Merchants |-> G[n]],
         G[m] = x, \A n \in Merchants \ {m} : G[n] = F[n]
  PROVE  G = [F EXCEPT ![m] = x]
<1> DEFINE H == [F EXCEPT ![m] = x]
<1>1. H = [n \in Merchants |-> H[n]] BY Zenon
<1>2. \A n \in Merchants : G[n] = H[n] OBVIOUS
<1> HIDE DEF H
<1>3. G = H BY <1>1, <1>2
<1> QED BY <1>3 DEF H

LEMMA WriteTwo ==
  ASSUME NEW F, NEW G, NEW m \in Merchants, NEW i \in VoucherIds, NEW x,
         F = [n \in Merchants |-> [j \in VoucherIds |-> F[n][j]]],
         G = [n \in Merchants |-> [j \in VoucherIds |-> G[n][j]]],
         G[m][i] = x,
         \A n \in Merchants, j \in VoucherIds : n # m \/ j # i => G[n][j] = F[n][j]
  PROVE  G = [F EXCEPT ![m][i] = x]
<1>1. F[m] = [j \in VoucherIds |-> F[m][j]] /\ G[m] = [j \in VoucherIds |-> G[m][j]]
  OBVIOUS
<1>2. G[m] = [F[m] EXCEPT ![i] = x]
  <2> DEFINE f == F[m]
             g == G[m]
             h == [f EXCEPT ![i] = x]
  <2>1. h = [j \in VoucherIds |-> h[j]] BY <1>1
  <2>2. \A j \in VoucherIds : g[j] = h[j] BY <1>1
  <2>3. g = [j \in VoucherIds |-> g[j]] BY <1>1
  <2> HIDE DEF g, h
  <2>4. g = h BY <2>1, <2>2, <2>3
  <2> QED BY <2>4 DEF g, h
<1>3. ASSUME NEW n \in Merchants \ {m} PROVE G[n] = F[n]
  <2>1. \A j \in VoucherIds : G[n][j] = F[n][j] BY <1>3
  <2>2. F[n] = [j \in VoucherIds |-> F[n][j]] /\ G[n] = [j \in VoucherIds |-> G[n][j]]
    OBVIOUS
  <2> QED BY <2>1, <2>2
<1>4. F = [n \in Merchants |-> F[n]] /\ G = [n \in Merchants |-> G[n]] OBVIOUS
<1>5. G = [F EXCEPT ![m] = [F[m] EXCEPT ![i] = x]] BY <1>2, <1>3, <1>4, WriteOne
<1> QED BY <1>5

LEMMA SameTwo ==
  ASSUME NEW F, NEW G,
         F = [n \in Merchants |-> [j \in VoucherIds |-> F[n][j]]],
         G = [n \in Merchants |-> [j \in VoucherIds |-> G[n][j]]],
         \A n \in Merchants, j \in VoucherIds : G[n][j] = F[n][j]
  PROVE  G = F
<1>1. ASSUME NEW n \in Merchants PROVE G[n] = F[n]
  <2>1. F[n] = [j \in VoucherIds |-> F[n][j]] /\ G[n] = [j \in VoucherIds |-> G[n][j]]
    OBVIOUS
  <2> QED BY <2>1
<1>2. F = [n \in Merchants |-> F[n]] /\ G = [n \in Merchants |-> G[n]] OBVIOUS
<1> QED BY <1>1, <1>2
-----------------------------------------------------------------------------
(* What Rewards sees of one shop and of one voucher.                       *)

Late(m, i)         == voucher[m][i] # NoAccount /\ Expired(m, i)
TradingAt(m)       == shop[m] # NoAccount
HonouredAt(m)      == IF shop[m] = NoAccount THEN 0 ELSE shop[m].total_redemptions

LEMMA Views ==
  /\ Trading = [m \in Merchants |-> Trading[m]]
  /\ Honoured = [m \in Merchants |-> Honoured[m]]
  /\ Stages = [m \in Merchants |-> [i \in VoucherIds |-> Stages[m][i]]]
  /\ HeldBy = [m \in Merchants |-> [i \in VoucherIds |-> HeldBy[m][i]]]
  /\ Overdue = [m \in Merchants |-> [i \in VoucherIds |-> Overdue[m][i]]]
BY DEF Trading, Honoured, Stages, HeldBy, Overdue

LEMMA ViewsAfter ==
  /\ Trading' = [m \in Merchants |-> Trading'[m]]
  /\ Honoured' = [m \in Merchants |-> Honoured'[m]]
  /\ Stages' = [m \in Merchants |-> [i \in VoucherIds |-> Stages'[m][i]]]
  /\ HeldBy' = [m \in Merchants |-> [i \in VoucherIds |-> HeldBy'[m][i]]]
  /\ Overdue' = [m \in Merchants |-> [i \in VoucherIds |-> Overdue'[m][i]]]
BY DEF Trading, Honoured, Stages, HeldBy, Overdue

LEMMA ShopView ==
  ASSUME NEW m \in Merchants
  PROVE  /\ Trading[m] = TradingAt(m) /\ Trading'[m] = TradingAt(m)'
         /\ Honoured[m] = HonouredAt(m) /\ Honoured'[m] = HonouredAt(m)'
BY DEF Trading, Honoured, TradingAt, HonouredAt

LEMMA VoucherView ==
  ASSUME NEW m \in Merchants, NEW i \in VoucherIds
  PROVE  /\ Stages[m][i] = StageOf(m, i) /\ Stages'[m][i] = StageOf(m, i)'
         /\ HeldBy[m][i] = Holders(m, i) /\ HeldBy'[m][i] = Holders(m, i)'
         /\ Overdue[m][i] = Late(m, i) /\ Overdue'[m][i] = Late(m, i)'
BY DEF Stages, HeldBy, Overdue, Late

LEMMA SameBooksSeen ==
  ASSUME NEW m, SameBooks(m)
  PROVE  TradingAt(m)' = TradingAt(m) /\ HonouredAt(m)' = HonouredAt(m)
BY DEF SameBooks, TradingAt, HonouredAt

LEMMA SameVoucherSeen ==
  ASSUME NEW m, NEW i, SameVoucher(m, i), now' = now
  PROVE  Late(m, i)' = Late(m, i)
BY DEF SameVoucher, Late, Expired

LEMMA UntouchedSeen ==
  ASSUME NEW m, NEW i, Untouched(m, i)
  PROVE  /\ StageOf(m, i)' = StageOf(m, i)
         /\ Holders(m, i)' = Holders(m, i)
         /\ now' = now => Late(m, i)' = Late(m, i)
<1>1. \A w \in Customers : /\ Holds(voucherToken'[m][i][w]) <=> Holds(voucherToken[m][i][w])
                           /\ Frozen(voucherToken'[m][i][w]) <=> Frozen(voucherToken[m][i][w])
  BY DEF Untouched, SameInHand, InHand, Shown
<1>2. SameVoucher(m, i) BY DEF Untouched
<1>3. StageOf(m, i)' = StageOf(m, i) BY <1>1, <1>2 DEF SameVoucher, StageOf
<1>4. Holders(m, i)' = Holders(m, i) BY <1>1 DEF Holders
<1> QED BY <1>2, <1>3, <1>4, SameVoucherSeen

\* The shops' part of a step that leaves every shop's books alone.
LEMMA NoShopSeen ==
  ASSUME \A m \in Merchants : SameBooks(m)
  PROVE  Trading' = Trading /\ Honoured' = Honoured
<1>1. ASSUME NEW m \in Merchants
      PROVE  Trading'[m] = Trading[m] /\ Honoured'[m] = Honoured[m]
  BY ShopView, SameBooksSeen
<1>2. Trading' = Trading BY <1>1, Views, ViewsAfter
<1>3. Honoured' = Honoured BY <1>1, Views, ViewsAfter
<1> QED BY <1>2, <1>3

LEMMA OneShopSeen ==
  ASSUME NEW m \in Merchants, \A n \in Merchants \ {m} : SameBooks(n)
  PROVE  /\ Trading' = [Trading EXCEPT ![m] = TradingAt(m)']
         /\ Honoured' = [Honoured EXCEPT ![m] = HonouredAt(m)']
         /\ TradingAt(m)' = TradingAt(m) => Trading' = Trading
         /\ HonouredAt(m)' = HonouredAt(m) => Honoured' = Honoured
<1>1. \A n \in Merchants \ {m} : Trading'[n] = Trading[n] /\ Honoured'[n] = Honoured[n]
  BY ShopView, SameBooksSeen
<1>2. Trading'[m] = TradingAt(m)' /\ Honoured'[m] = HonouredAt(m)' BY ShopView
<1>3. Trading' = [Trading EXCEPT ![m] = TradingAt(m)']
  BY <1>1, <1>2, Views, ViewsAfter, WriteOne
<1>4. Honoured' = [Honoured EXCEPT ![m] = HonouredAt(m)']
  BY <1>1, <1>2, Views, ViewsAfter, WriteOne
<1>5. TradingAt(m)' = TradingAt(m) => Trading' = Trading
  BY <1>1, ShopView, Views, ViewsAfter
<1>6. HonouredAt(m)' = HonouredAt(m) => Honoured' = Honoured
  BY <1>1, ShopView, Views, ViewsAfter
<1> QED BY <1>3, <1>4, <1>5, <1>6

LEMMA NoVoucherSeen ==
  ASSUME \A m \in Merchants, i \in VoucherIds : Untouched(m, i)
  PROVE  Stages' = Stages /\ HeldBy' = HeldBy /\ (now' = now => Overdue' = Overdue)
<1>1. ASSUME NEW m \in Merchants, NEW i \in VoucherIds
      PROVE  /\ Stages'[m][i] = Stages[m][i]
             /\ HeldBy'[m][i] = HeldBy[m][i]
             /\ now' = now => Overdue'[m][i] = Overdue[m][i]
  BY VoucherView, UntouchedSeen
<1>2. Stages' = Stages BY <1>1, Views, ViewsAfter, SameTwo
<1>3. HeldBy' = HeldBy BY <1>1, Views, ViewsAfter, SameTwo
<1>4. now' = now => Overdue' = Overdue BY <1>1, Views, ViewsAfter, SameTwo
<1> QED BY <1>2, <1>3, <1>4

LEMMA OneVoucherSeen ==
  ASSUME NEW m \in Merchants, NEW i \in VoucherIds, OthersUntouched(m, i), now' = now
  PROVE  /\ Stages' = [Stages EXCEPT ![m][i] = StageOf(m, i)']
         /\ HeldBy' = [HeldBy EXCEPT ![m][i] = Holders(m, i)']
         /\ Overdue' = [Overdue EXCEPT ![m][i] = Late(m, i)']
         /\ StageOf(m, i)' = StageOf(m, i) => Stages' = Stages
         /\ Holders(m, i)' = Holders(m, i) => HeldBy' = HeldBy
         /\ Late(m, i)' = Late(m, i) => Overdue' = Overdue
<1>1. ASSUME NEW n \in Merchants, NEW j \in VoucherIds, n # m \/ j # i
      PROVE  /\ Stages'[n][j] = Stages[n][j]
             /\ HeldBy'[n][j] = HeldBy[n][j]
             /\ Overdue'[n][j] = Overdue[n][j]
  <2>1. Untouched(n, j) BY <1>1 DEF OthersUntouched
  <2> QED BY <2>1, VoucherView, UntouchedSeen
<1>2. /\ Stages'[m][i] = StageOf(m, i)'
      /\ HeldBy'[m][i] = Holders(m, i)'
      /\ Overdue'[m][i] = Late(m, i)'
  BY VoucherView
<1>3. Stages' = [Stages EXCEPT ![m][i] = StageOf(m, i)']
  BY <1>1, <1>2, Views, ViewsAfter, WriteTwo
<1>4. HeldBy' = [HeldBy EXCEPT ![m][i] = Holders(m, i)']
  BY <1>1, <1>2, Views, ViewsAfter, WriteTwo
<1>5. Overdue' = [Overdue EXCEPT ![m][i] = Late(m, i)']
  BY <1>1, <1>2, Views, ViewsAfter, WriteTwo
<1>6. ASSUME StageOf(m, i)' = StageOf(m, i) PROVE Stages' = Stages
  <2>1. Stages'[m][i] = Stages[m][i] BY <1>6, VoucherView
  <2>2. \A n \in Merchants, j \in VoucherIds : Stages'[n][j] = Stages[n][j] BY <1>1, <2>1
  <2> QED BY <2>2, Views, ViewsAfter, SameTwo
<1>7. ASSUME Holders(m, i)' = Holders(m, i) PROVE HeldBy' = HeldBy
  <2>1. HeldBy'[m][i] = HeldBy[m][i] BY <1>7, VoucherView
  <2>2. \A n \in Merchants, j \in VoucherIds : HeldBy'[n][j] = HeldBy[n][j] BY <1>1, <2>1
  <2> QED BY <2>2, Views, ViewsAfter, SameTwo
<1>8. ASSUME Late(m, i)' = Late(m, i) PROVE Overdue' = Overdue
  <2>1. Overdue'[m][i] = Overdue[m][i] BY <1>8, VoucherView
  <2>2. \A n \in Merchants, j \in VoucherIds : Overdue'[n][j] = Overdue[n][j] BY <1>1, <2>1
  <2> QED BY <2>2, Views, ViewsAfter, SameTwo
<1> QED BY <1>3, <1>4, <1>5, <1>6, <1>7, <1>8
-----------------------------------------------------------------------------
(* Each event is a step of Rewards.                                        *)

LEMMA ShopEventRefines ==
  ASSUME Settled, NEW m \in Merchants, ShopEvent(m)
  PROVE  R!Open(m) \/ R!Leave(m)
<1>1. Stages' = Stages /\ HeldBy' = HeldBy /\ Overdue' = Overdue
  BY NoVoucherSeen DEF ShopEvent
<1>2. \A n \in Merchants \ {m} : SameBooks(n) BY DEF ShopEvent
<1>3. CASE IsOpened(m)
  <2>1. /\ TradingAt(m) = FALSE /\ TradingAt(m)' = TRUE
        /\ HonouredAt(m) = 0 /\ HonouredAt(m)' = 0
    BY <1>3 DEF IsOpened, TradingAt, HonouredAt
  <2>2. Trading' = [Trading EXCEPT ![m] = TRUE] /\ Honoured' = Honoured
    BY <1>2, <2>1, OneShopSeen
  <2>3. ~Trading[m] BY <2>1, ShopView
  <2> QED BY <1>1, <2>2, <2>3 DEF R!Open
<1>4. CASE IsLeft(m)
  <2>1. /\ TradingAt(m) = TRUE /\ TradingAt(m)' = FALSE /\ HonouredAt(m)' = 0
    BY <1>4 DEF IsLeft, TradingAt, HonouredAt
  <2>2. /\ Trading' = [Trading EXCEPT ![m] = FALSE]
        /\ Honoured' = [Honoured EXCEPT ![m] = 0]
    BY <1>2, <2>1, OneShopSeen
  <2>3. Trading[m] BY <2>1, ShopView
  <2>4. ASSUME NEW i \in VoucherIds PROVE Stages[m][i] = "none"
    <3>1. voucher[m][i] = NoAccount BY <1>4, LiveIsOpen DEF IsLeft
    <3> QED BY <3>1, VoucherView DEF StageOf
  <2> QED BY <1>1, <2>2, <2>3, <2>4 DEF R!Leave
<1> QED BY <1>3, <1>4 DEF ShopEvent

\* What Rewards sees of the voucher an event concerns, before it.
LEMMA Before ==
  ASSUME TypeOK, NEW m \in Merchants, NEW i \in VoucherIds, VoucherSound(m, i),
         NEW w \in Customers, InHand(m, i, w)
  PROVE  /\ voucher[m][i] # NoAccount
         /\ Holders(m, i) = {w}
         /\ \A y \in Customers \ {w} : ~InHand(m, i, y) /\ ~Shown(m, i, y)
         /\ StageOf(m, i) = IF Shown(m, i, w) THEN "shown" ELSE "out"
         /\ Usable(m, i) => ~Late(m, i)
<1>1. voucher[m][i] # NoAccount BY DEF VoucherSound
<1>2. \A y \in Customers \ {w} : ~InHand(m, i, y) /\ ~Shown(m, i, y) BY DEF VoucherSound
<1>3. Holders(m, i) = {w} BY <1>2 DEF Holders, InHand
<1>4. StageOf(m, i) = IF Shown(m, i, w) THEN "shown" ELSE "out"
  BY <1>1, <1>2 DEF StageOf, Shown
<1>5. now \in Nat /\ voucher[m][i].expires_at \in Nat
  BY <1>1, AccountType DEF TypeOK, Voucher
<1>6. Usable(m, i) => ~Late(m, i) BY <1>5 DEF Usable, Late, Expired
<1> QED BY <1>1, <1>2, <1>3, <1>4, <1>6

LEMMA GivenRefines ==
  ASSUME TypeOK, NEW m \in Merchants, NEW i \in VoucherIds, NEW w \in Customers,
         VoucherSound(m, i), IsGiven(m, i, w),
         \A y \in Customers \ {w} : SameInHand(m, i, y),
         OthersUntouched(m, i), now' = now
  PROVE  R!Give(m, i, w)
<1>1. \A y \in Customers \ {w} : ~InHand(m, i, y)' /\ ~Shown(m, i, y)'
  BY DEF IsGiven, VoucherSound, SameInHand
<1>2. StageOf(m, i) = "none" /\ StageOf(m, i)' = "out"
  BY <1>1 DEF IsGiven, StageOf, Shown
<1>3. Holders(m, i)' = {w} BY <1>1 DEF IsGiven, Holders, InHand
<1>4. Late(m, i)' = Late(m, i)
  <2>1. now \in Nat BY DEF TypeOK
  <2>2. ~(now > now + VoucherValidSeconds) BY <2>1, LimitsAssumption
  <2> QED BY <2>2 DEF IsGiven, Late, Expired
<1>5. TradingAt(m) = TRUE /\ TradingAt(m)' = TradingAt(m) /\ HonouredAt(m)' = HonouredAt(m)
  BY DEF IsGiven, TradingAt, HonouredAt
<1>6. Trading' = Trading /\ Honoured' = Honoured
  BY <1>5, OneShopSeen DEF OthersUntouched
<1>7. /\ Stages' = [Stages EXCEPT ![m][i] = "out"]
      /\ HeldBy' = [HeldBy EXCEPT ![m][i] = {w}]
      /\ Overdue' = Overdue
  BY <1>2, <1>3, <1>4, OneVoucherSeen
<1>8. Trading[m] /\ Stages[m][i] = "none" BY <1>2, <1>5, ShopView, VoucherView
<1> QED BY <1>6, <1>7, <1>8 DEF R!Give

\* A step that changes hands or shows, and leaves the books and the date alone.
LEMMA HandSeen ==
  ASSUME NEW m \in Merchants, NEW i \in VoucherIds, SameBooks(m), SameVoucher(m, i),
         OthersUntouched(m, i), now' = now
  PROVE  Trading' = Trading /\ Honoured' = Honoured /\ Overdue' = Overdue
<1>1. \A n \in Merchants : SameBooks(n) BY DEF OthersUntouched
<1> QED BY <1>1, NoShopSeen, SameVoucherSeen, OneVoucherSeen

LEMMA ShownRefines ==
  ASSUME TypeOK, NEW m \in Merchants, NEW i \in VoucherIds, NEW w \in Customers,
         VoucherSound(m, i),
         \A y \in Customers \ {w} : SameInHand(m, i, y),
         OthersUntouched(m, i), now' = now
  PROVE  /\ IsShown(m, i, w) => R!Show(m, i)
         /\ IsTakenBack(m, i, w) => R!TakeBack(m, i)
<1>1. ASSUME InHand(m, i, w), InHand(m, i, w)', SameVoucher(m, i)
      PROVE  /\ Holders(m, i)' = Holders(m, i)
             /\ StageOf(m, i)' = IF Shown(m, i, w)' THEN "shown" ELSE "out"
  <2>1. /\ voucher[m][i] # NoAccount /\ Holders(m, i) = {w}
        /\ \A y \in Customers \ {w} : ~InHand(m, i, y) /\ ~Shown(m, i, y)
    BY <1>1, Before
  <2>2. \A y \in Customers \ {w} : ~InHand(m, i, y)' /\ ~Shown(m, i, y)'
    BY <2>1 DEF SameInHand
  <2>3. Holders(m, i)' = {w} BY <1>1, <2>2 DEF Holders, InHand
  <2>4. voucher'[m][i] # NoAccount BY <1>1, <2>1 DEF SameVoucher
  <2>5. StageOf(m, i)' = IF Shown(m, i, w)' THEN "shown" ELSE "out"
    BY <2>2, <2>4 DEF StageOf, Shown
  <2> QED BY <2>1, <2>3, <2>5
<1>2. ASSUME IsShown(m, i, w) PROVE R!Show(m, i)
  <2>1. /\ StageOf(m, i) = "out" /\ StageOf(m, i)' = "shown"
        /\ Holders(m, i) = {w} /\ Holders(m, i)' = Holders(m, i) /\ ~Late(m, i)
    BY <1>1, <1>2, Before DEF IsShown
  <2>2. Trading' = Trading /\ Honoured' = Honoured /\ Overdue' = Overdue
    BY <1>2, HandSeen DEF IsShown
  <2>3. Stages' = [Stages EXCEPT ![m][i] = "shown"] /\ HeldBy' = HeldBy
    BY <2>1, OneVoucherSeen
  <2>4. Stages[m][i] = "out" /\ HeldBy[m][i] # {} /\ ~Overdue[m][i]
    BY <2>1, VoucherView
  <2> QED BY <2>2, <2>3, <2>4 DEF R!Show
<1>3. ASSUME IsTakenBack(m, i, w) PROVE R!TakeBack(m, i)
  <2>1. /\ StageOf(m, i) = "shown" /\ StageOf(m, i)' = "out"
        /\ Holders(m, i)' = Holders(m, i)
    BY <1>1, <1>3, Before DEF IsTakenBack
  <2>2. Trading' = Trading /\ Honoured' = Honoured /\ Overdue' = Overdue
    BY <1>3, HandSeen DEF IsTakenBack
  <2>3. Stages' = [Stages EXCEPT ![m][i] = "out"] /\ HeldBy' = HeldBy
    BY <2>1, OneVoucherSeen
  <2>4. Stages[m][i] = "shown" BY <2>1, VoucherView
  <2> QED BY <2>2, <2>3, <2>4 DEF R!TakeBack
<1> QED BY <1>2, <1>3

LEMMA LostRefines ==
  ASSUME TypeOK, NEW m \in Merchants, NEW i \in VoucherIds, NEW w \in Customers,
         VoucherSound(m, i), IsLost(m, i, w), OthersUntouched(m, i), now' = now
  PROVE  /\ (\A y \in Customers \ {w} : SameInHand(m, i, y)) => R!Lose(m, i)
         /\ \A to \in Customers :
              /\ \A y \in Customers \ {w, to} : SameInHand(m, i, y)
              /\ IsHandedOn(m, i, w, to)
              => R!HandOn(m, i, to)
<1>1. /\ voucher[m][i] # NoAccount /\ Holders(m, i) = {w} /\ StageOf(m, i) = "out"
      /\ \A y \in Customers \ {w} : ~InHand(m, i, y) /\ ~Shown(m, i, y)
  BY Before DEF IsLost
<1>2. Trading' = Trading /\ Honoured' = Honoured /\ Overdue' = Overdue
  BY HandSeen DEF IsLost
<1>3. voucher'[m][i] # NoAccount /\ ~InHand(m, i, w)' /\ ~Shown(m, i, w)'
  BY <1>1 DEF IsLost, SameVoucher
<1>4. Stages[m][i] = "out" /\ HeldBy[m][i] # {} BY <1>1, VoucherView
<1>5. ASSUME \A y \in Customers \ {w} : SameInHand(m, i, y) PROVE R!Lose(m, i)
  <2>1. \A y \in Customers : ~InHand(m, i, y)' /\ ~Shown(m, i, y)'
    BY <1>1, <1>3, <1>5 DEF SameInHand
  <2>2. Holders(m, i)' = {} BY <2>1 DEF Holders, InHand
  <2>3. StageOf(m, i)' = StageOf(m, i) BY <1>1, <1>3, <2>1 DEF StageOf, Shown
  <2>4. Stages' = Stages /\ HeldBy' = [HeldBy EXCEPT ![m][i] = {}]
    BY <2>2, <2>3, OneVoucherSeen
  <2> QED BY <1>2, <1>4, <2>4 DEF R!Lose
<1>6. ASSUME NEW to \in Customers, \A y \in Customers \ {w, to} : SameInHand(m, i, y),
             IsHandedOn(m, i, w, to)
      PROVE  R!HandOn(m, i, to)
  <2>1. \A y \in Customers \ {to} : ~InHand(m, i, y)' /\ ~Shown(m, i, y)'
    BY <1>1, <1>3, <1>6 DEF SameInHand
  <2>2. InHand(m, i, to)' /\ ~Shown(m, i, to)' BY <1>1, <1>6 DEF IsHandedOn
  <2>3. Holders(m, i)' = {to} BY <2>1, <2>2 DEF Holders, InHand
  <2>4. StageOf(m, i)' = StageOf(m, i) BY <1>1, <1>3, <2>1, <2>2 DEF StageOf, Shown
  <2>5. Stages' = Stages /\ HeldBy' = [HeldBy EXCEPT ![m][i] = {to}]
    BY <2>3, <2>4, OneVoucherSeen
  <2> QED BY <1>2, <1>4, <2>5 DEF R!HandOn
<1> QED BY <1>5, <1>6

LEMMA EndRefines ==
  ASSUME TypeOK, NEW m \in Merchants, NEW i \in VoucherIds, NEW w \in Customers,
         VoucherSound(m, i),
         \A y \in Customers \ {w} : SameInHand(m, i, y),
         OthersUntouched(m, i), now' = now
  PROVE  /\ IsHonoured(m, i, w) => R!Honour(m, i)
         /\ IsSwept(m, i, w) => R!Lapse(m, i)
<1>1. ASSUME Ends(m, i, w), Holders(m, i) \subseteq {w}
      PROVE  /\ R!End(m, i) /\ Trading[m] /\ Trading' = Trading
             /\ Stages[m][i] # "none"
             /\ Honoured' = [Honoured EXCEPT ![m] = shop'[m].total_redemptions]
             /\ Honoured[m] = shop[m].total_redemptions
             /\ HonouredAt(m)' = HonouredAt(m) => Honoured' = Honoured
  <2>1. \A y \in Customers : ~InHand(m, i, y)'
    BY <1>1 DEF Ends, Holders, InHand, SameInHand
  <2>2. /\ StageOf(m, i)' = "none" /\ Holders(m, i)' = {} /\ Late(m, i)' = FALSE
        /\ StageOf(m, i) # "none"
    BY <1>1, <2>1 DEF Ends, VoucherLive, StageOf, Holders, InHand, Late
  <2>3. R!End(m, i) BY <2>2, OneVoucherSeen DEF R!End
  <2>4. /\ TradingAt(m) = TRUE /\ TradingAt(m)' = TradingAt(m)
        /\ HonouredAt(m) = shop[m].total_redemptions
        /\ HonouredAt(m)' = shop'[m].total_redemptions
    BY <1>1 DEF Ends, TradingAt, HonouredAt
  <2>5. /\ Trading' = Trading
        /\ Honoured' = [Honoured EXCEPT ![m] = shop'[m].total_redemptions]
        /\ HonouredAt(m)' = HonouredAt(m) => Honoured' = Honoured
    BY <2>4, OneShopSeen DEF OthersUntouched
  <2> QED BY <2>2, <2>3, <2>4, <2>5, ShopView, VoucherView
<1>2. ASSUME IsHonoured(m, i, w) PROVE R!Honour(m, i)
  <2>1. Holders(m, i) = {w} /\ StageOf(m, i) = "shown" /\ ~Late(m, i)
    BY <1>2, Before DEF IsHonoured
  <2>2. /\ R!End(m, i) /\ Trading[m] /\ Trading' = Trading
        /\ Honoured' = [Honoured EXCEPT ![m] = shop'[m].total_redemptions]
        /\ Honoured[m] = shop[m].total_redemptions
    BY <1>1, <1>2, <2>1 DEF IsHonoured
  <2>3. Honoured' = [Honoured EXCEPT ![m] = Honoured[m] + 1]
    BY <1>2, <2>2 DEF IsHonoured
  <2>4. Stages[m][i] = "shown" /\ ~Overdue[m][i] BY <2>1, VoucherView
  <2> QED BY <2>2, <2>3, <2>4 DEF R!Honour
<1>3. ASSUME IsSwept(m, i, w) PROVE R!Lapse(m, i)
  <2>1. /\ R!End(m, i) /\ Trading[m] /\ Trading' = Trading /\ Stages[m][i] # "none"
        /\ HonouredAt(m)' = HonouredAt(m) => Honoured' = Honoured
    BY <1>1, <1>3 DEF IsSwept
  <2>2. HonouredAt(m)' = HonouredAt(m) BY <1>3 DEF IsSwept, Ends, HonouredAt
  <2>3. Overdue[m][i] BY <1>3, VoucherView DEF IsSwept, Ends, VoucherLive, Late
  <2> QED BY <2>1, <2>2, <2>3 DEF R!Lapse
<1> QED BY <1>2, <1>3

LEMMA VoucherEventRefines ==
  ASSUME TypeOK, NEW m \in Merchants, NEW i \in VoucherIds, NEW w \in Customers,
         VoucherSound(m, i), VoucherEvent(m, i, w), OthersUntouched(m, i), now' = now
  PROVE  R!Next
<1>1. \/ \E c \in Customers : R!Give(m, i, c) \/ R!HandOn(m, i, c)
      \/ R!Show(m, i)
      \/ R!TakeBack(m, i)
      \/ R!Lose(m, i)
      \/ R!Honour(m, i)
      \/ R!Lapse(m, i)
  <2>1. ASSUME \A y \in Customers \ {w} : SameInHand(m, i, y)
        PROVE  /\ IsGiven(m, i, w) => R!Give(m, i, w)
               /\ IsShown(m, i, w) => R!Show(m, i)
               /\ IsTakenBack(m, i, w) => R!TakeBack(m, i)
               /\ IsLost(m, i, w) => R!Lose(m, i)
               /\ IsHonoured(m, i, w) => R!Honour(m, i)
               /\ IsSwept(m, i, w) => R!Lapse(m, i)
    BY <2>1, GivenRefines, ShownRefines, LostRefines, EndRefines
  <2>2. ASSUME NEW to \in Customers,
               \A y \in Customers \ {w, to} : SameInHand(m, i, y), IsHandedOn(m, i, w, to)
        PROVE  R!HandOn(m, i, to)
    <3>1. IsLost(m, i, w) BY <2>2 DEF IsHandedOn
    <3> QED BY <2>2, <3>1, LostRefines
  <2> QED BY <2>1, <2>2 DEF VoucherEvent
<1> QED BY <1>1 DEF R!Next

LEMMA QuietRefines ==
  ASSUME TypeOK, Quiet
  PROVE  R!GrowLate \/ UNCHANGED R!rewardVars
<1>1. Trading' = Trading /\ Honoured' = Honoured BY NoShopSeen DEF Quiet
<1>2. Stages' = Stages /\ HeldBy' = HeldBy /\ (now' = now => Overdue' = Overdue)
  BY NoVoucherSeen DEF Quiet
<1>3. CASE now' = now BY <1>1, <1>2, <1>3 DEF R!rewardVars
<1>4. CASE now' = now + 1
  <2>1. Overdue' \in [Merchants -> [VoucherIds -> BOOLEAN]] BY DEF Overdue
  <2>2. ASSUME NEW m \in Merchants, NEW i \in VoucherIds
        PROVE  /\ Overdue[m][i] => Overdue'[m][i]
               /\ Overdue'[m][i] => Stages[m][i] # "none"
    <3>1. SameVoucher(m, i) BY DEF Quiet, Untouched
    <3>2. now \in Nat /\ (voucher[m][i] # NoAccount => voucher[m][i].expires_at \in Nat)
      BY AccountType DEF TypeOK, Voucher
    <3>3. Late(m, i) => Late(m, i)' BY <1>4, <3>1, <3>2 DEF Late, Expired, SameVoucher
    <3>4. Late(m, i)' => StageOf(m, i) # "none" BY <3>1 DEF Late, SameVoucher, StageOf
    <3> QED BY <3>3, <3>4, VoucherView
  <2> QED BY <1>1, <1>2, <2>1, <2>2 DEF R!GrowLate
<1> QED BY <1>3, <1>4 DEF Quiet
-----------------------------------------------------------------------------
LEMMA InitRefines == Init => R!Init
<1> SUFFICES ASSUME Init PROVE R!Init
  OBVIOUS
<1>1. Trading \in [Merchants -> BOOLEAN] BY DEF Trading
<1>2. Honoured = [m \in Merchants |-> 0] BY DEF Init, Honoured
<1>3. ASSUME NEW m \in Merchants, NEW i \in VoucherIds
      PROVE  StageOf(m, i) = "none" /\ Holders(m, i) = {} /\ ~Late(m, i)
  BY NothingThere DEF Init, StageOf, Holders, Late
<1>4. Stages = [m \in Merchants |-> [i \in VoucherIds |-> "none"]] BY <1>3 DEF Stages
<1>5. HeldBy = [m \in Merchants |-> [i \in VoucherIds |-> {}]] BY <1>3 DEF HeldBy
<1>6. Overdue = [m \in Merchants |-> [i \in VoucherIds |-> FALSE]]
  BY <1>3 DEF Overdue, Late
<1> QED BY <1>1, <1>2, <1>4, <1>5, <1>6 DEF R!Init

LEMMA NextRefines == Settled /\ Sound /\ [Next]_vars => [R!Next]_(R!rewardVars)
<1> SUFFICES ASSUME Settled, Sound, [Next]_vars PROVE R!Next \/ UNCHANGED R!rewardVars
  OBVIOUS
<1>0. TypeOK /\ Event BY SoundMeans, StepIsEvent DEF Settled
<1>1. CASE Quiet BY <1>0, <1>1, QuietRefines DEF R!Next
<1>2. ASSUME NEW m \in Merchants, ShopEvent(m) PROVE R!Next
  <2>1. R!Open(m) \/ R!Leave(m) BY <1>2, ShopEventRefines
  <2> QED BY <2>1 DEF R!Next
<1>3. ASSUME NEW m \in Merchants, NEW i \in VoucherIds, NEW w \in Customers,
             now' = now, VoucherEvent(m, i, w), OthersUntouched(m, i)
      PROVE  R!Next
  <2>1. VoucherSound(m, i) BY DEF Sound
  <2> QED BY <1>0, <1>3, <2>1, VoucherEventRefines
<1> QED BY <1>0, <1>1, <1>2, <1>3 DEF Event

\* Whatever merchants, customers, relayers, wallets and anyone who cleans up
\* do, in any order, the program does with vouchers only what Rewards allows:
\* a reward is in one hand or none, is honoured once and only while its holder
\* shows it and in date, and a shop leaves only when nothing it gave is out.
THEOREM ImplementsRewards == Spec => RewardsKept
BY AlwaysSettled, InitRefines, NextRefines, PTL DEF Spec, RewardsKept, R!Spec
=============================================================================
