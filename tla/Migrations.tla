----------------------------- MODULE Migrations -----------------------------
(***************************************************************************)
(* An upgrade in the middle of trading: shops and cards of older layouts,  *)
(* migrate_business and migrate_card, and the program as it is today       *)
(* working on whatever it can read meanwhile.                              *)
(*                                                                         *)
(* An old card is too short to be read at all.  An old shop is 48 bytes    *)
(* short of today's fields, but its three strings take only the room they  *)
(* use: if they leave 48 bytes, Borsh reads the new fields from what is    *)
(* behind them, zeros, or what an edit left there that made a string       *)
(* shorter.                                                                *)
(***************************************************************************)
EXTENDS Loyalty, Functions

CONSTANTS
  Blank,          \* the key of all zeros: a rent payer never written
  OldCustomers,   \* who may have had a card on the day of the upgrade
  OldPayers,      \* the relayers that paid before it
  OldGoals,       \* stamps_required of the shops and cards of that day
  Signers,        \* the relayers that sign since
  TailDates,      \* what an old shop with room may read as its commitment,
  TailCards,      \* its open cards
  TailPayers      \* and its rent payer

ASSUME OldAssumption ==
  /\ Blank \in Relayers
  /\ OldCustomers \subseteq Customers
  /\ OldPayers \subseteq Relayers \ {Blank}
  /\ Signers \subseteq Relayers \ {Blank}
  /\ OldGoals \subseteq 0..U8Max
  /\ TailDates \subseteq Nat
  /\ TailCards \subseteq Nat
  /\ TailPayers \subseteq Relayers

\* Nothing was left as far behind the strings as the rent payer.
TailClean == TailPayers = {Blank}

VARIABLES
  shopLayout,       \* "current", or old with short strings or long ones
  cardLayout,       \* "current", or one of the two old lengths
  record,           \* the payer an old card_nft record of the card's NFT names
  earned,           \* rewards a card really finished, which no old layout says
  free              \* how many of them cost it no stamps before the upgrade

rewardVars == <<earned, free>>
mvars == <<vars, shopLayout, cardLayout, record, rewardVars>>

MigrationTypeOK ==
  /\ TypeOK
  /\ shopLayout \in [Merchants -> {"current", "V1 short", "V1 long"}]
  /\ cardLayout \in [Merchants -> [Customers -> {"current", "V1", "V2"}]]
  /\ record \in [Merchants -> [Customers -> OldPayers \cup {NoAccount}]]
  /\ earned \in [Merchants -> [Customers -> Nat]]
  /\ free \in [Merchants -> [Customers -> Nat]]

ShopReadable(m)    == shopLayout[m] # "V1 long"
CardReadable(m, c) == cardLayout[m][c] = "current"
-----------------------------------------------------------------------------
\* Mutation: the counters are left as the trailing zeros give them.
MigratedUncounted(b, relayer) ==
  [b EXCEPT !.terms_locked_until = now, !.rent_payer = relayer]

\* Mutation: the rewards a shop owes are those it has redeemed.
MigratedSwapped(b, relayer) ==
  [b EXCEPT !.terms_locked_until = now,
            !.open_cards = b.total_cards,
            !.rent_payer = relayer,
            !.open_vouchers = b.total_redemptions]

\* Mutation: redemptions minus vouchers issued.
MigratedBackwards(b, relayer) ==
  [b EXCEPT !.terms_locked_until = now,
            !.open_cards = b.total_cards,
            !.rent_payer = relayer,
            !.open_vouchers = b.total_redemptions - b.total_vouchers_issued]

\* saturating_sub: more redeemed than issued would count as none open.
Migrated(b, relayer) ==
  [b EXCEPT !.terms_locked_until = now,
            !.open_cards = b.total_cards,
            !.rent_payer = relayer,
            !.open_vouchers = IF b.total_vouchers_issued < b.total_redemptions THEN 0
                              ELSE b.total_vouchers_issued - b.total_redemptions]

\* Anyone may call it, on a shop the program can read or on one it cannot.
MigrateBusiness(m, relayer) ==
  /\ shop[m] # NoAccount
  /\ shopLayout[m] # "current"
  /\ shop' = [shop EXCEPT ![m] = Migrated(@, relayer)]
  /\ shopLayout' = [shopLayout EXCEPT ![m] = "current"]
  /\ UNCHANGED <<now, receipt, card, cardNftVars, voucherVars, cardLayout, record, rewardVars>>

\* saturating_sub, and no division by zero.
GoalsIn(k, goal) ==
  IF goal = 0 \/ k.lifetime_stamps < k.stamps THEN 0
  ELSE (k.lifetime_stamps - k.stamps) \div goal

\* Mutation: the goal is taken from the shop as it is today.
RewardsRebuiltToday(m, c) == GoalsIn(card[m][c], shop[m].stamps_required)

\* What (lifetime - stamps) / snapshot says; the snapshot has not moved yet.
RewardsRebuilt(m, c) == GoalsIn(card[m][c], card[m][c].stamps_required_snapshot)

\* Mutation: whoever migrates a card takes over its rent.
PayerAfterCaller(m, c, relayer) == relayer

\* The payer on the card, on its NFT's old record, or the one who asks.
PayerAfter(m, c, relayer) ==
  IF cardLayout[m][c] = "V2" THEN card[m][c].rent_payer
  ELSE IF record[m][c] # NoAccount THEN record[m][c] ELSE relayer

\* Anyone may call it; it closes the old record if there is one.
MigrateCard(m, c, relayer) ==
  /\ card[m][c] # NoAccount
  /\ ~CardReadable(m, c)
  /\ card' = [card EXCEPT ![m][c].rent_payer = PayerAfter(m, c, relayer),
                          ![m][c].rewards_earned = RewardsRebuilt(m, c)]
  /\ cardLayout' = [cardLayout EXCEPT ![m][c] = "current"]
  /\ record' = [record EXCEPT ![m][c] = NoAccount]
  /\ UNCHANGED <<now, shop, receipt, cardNftVars, voucherVars, shopLayout, rewardVars>>
-----------------------------------------------------------------------------
\* An instruction that names a shop or a card it cannot read fails.
ReadableShopNext(m) ==
  /\ ShopReadable(m)
  /\ \/ \E stamps \in StampGoals, ttl \in ReceiptTtls, lock \in LockDates :
          \/ \E relayer \in Signers : RegisterBusiness(m, stamps, ttl, lock, relayer)
          \/ UpdateBusinessConfig(m, stamps, ttl, lock)
     \/ \E s \in Secrets, relayer \in Signers : IssueReceipt(m, s, relayer)
     \/ \E i \in VoucherIds, w \in Customers :
          RedeemVoucher(m, i, w) \/ CloseExpiredVoucher(m, i, w)
  /\ UNCHANGED rewardVars

\* The rent of a shop goes to a wallet, and none has the blank key.  Whatever is
\* registered at the address next has today's layout.
CloseReadableShop(m) ==
  /\ ShopReadable(m)
  /\ shop[m] # NoAccount
  /\ shop[m].rent_payer # Blank
  /\ CloseBusiness(m)
  /\ shopLayout' = [shopLayout EXCEPT ![m] = "current"]
  /\ UNCHANGED <<cardLayout, record, rewardVars>>

ReadableCardNext(m, c) ==
  /\ CardReadable(m, c)
  /\ \/ /\ ShopReadable(m)
        /\ \/ \E s \in Secrets, relayer \in Signers : ClaimReceipt(m, s, c, relayer)
           \/ \E to \in Customers, amount \in 1..U8Max :
                CardReadable(m, to) /\ TransferStamps(m, c, to, amount)
           \/ MintCardNft(m, c)
        /\ UNCHANGED rewardVars
     \/ RetireIdleCardNft(m, c) /\ UNCHANGED rewardVars
     \/ /\ ShopReadable(m)
        /\ CloseDeadCard(m, c)
        /\ earned' = [earned EXCEPT ![m][c] = 0]
        /\ free' = [free EXCEPT ![m][c] = 0]
     \/ /\ ShopReadable(m)
        /\ \E relayer \in Signers : MintVoucher(m, c, relayer)
        /\ earned' = [earned EXCEPT ![m][c] = @ + 1]
        /\ UNCHANGED free

\* What reads neither a shop nor a card.  What wallets do to voucher tokens, which
\* touches neither, is left out.
UnreadNext ==
  /\ \/ \E m \in Merchants, s \in Secrets : ReclaimExpiredReceipt(m, s)
     \/ \E m \in Merchants, i \in VoucherIds, w \in Customers :
          \/ PresentVoucher(m, i, w)
          \/ CancelPresentation(m, i, w)
          \/ \E to \in Customers : TransferVoucher(m, i, w, to)
     \/ \E id \in cardHeld : WalletBurnsCardToken(id)
     \/ Tick
  /\ UNCHANGED rewardVars

MigrationNext ==
  \/ \E m \in Merchants, relayer \in Signers :
       \/ MigrateBusiness(m, relayer)
       \/ \E c \in Customers : MigrateCard(m, c, relayer)
  \/ \E m \in Merchants : CloseReadableShop(m)
  \/ /\ \/ \E m \in Merchants : \/ ReadableShopNext(m)
                                \/ \E c \in Customers : ReadableCardNext(m, c)
        \/ UnreadNext
     /\ UNCHANGED <<shopLayout, cardLayout, record>>
-----------------------------------------------------------------------------
\* The day of the upgrade.  Cards hold stamps under the goal they were opened
\* with and have bought rewards; of those vouchers some are still out, some were
\* redeemed, and the rest expired and were swept, which an old shop did not count.
\* Nobody checked the settings then: a goal is any u8, zero included.

\* What today's fields read as behind the old ones.  open_vouchers is the last,
\* too far behind for what a shorter string leaves.
Tails == [date : TailDates, cards : TailCards, payer : TailPayers]

OldBusiness(stamps_required, ttl, cards, stamps, issued, redeemed, tail) ==
  [NewBusiness(stamps_required, ttl, tail.date, tail.payer) EXCEPT
     !.total_cards = cards, !.total_stamps_issued = stamps,
     !.total_vouchers_issued = issued, !.total_redemptions = redeemed,
     !.open_cards = tail.cards]

OldCard(goal, stamps, rewards, payer) ==
  [stamps |-> stamps, last_stamp_ts |-> Epoch,
   claims_window_start |-> Epoch, claims_this_window |-> 1,
   lifetime_stamps |-> stamps + rewards * goal, nft_cycle |-> 0,
   stamps_required_snapshot |-> goal,
   rent_payer |-> payer, rewards_earned |-> 0]

\* One card's history.  A record is one of the card's NFT.
OldCards ==
  {o \in [goal : OldGoals, stamps : 0..U8Max, rewards : 0..MaxVouchers,
          layout : {"V1", "V2"}, nft : BOOLEAN, payer : OldPayers, recorded : BOOLEAN] :
     o.recorded => o.nft}

UpgradeOf(m, olds, layout, live, redeemed) ==
  LET had      == {c \in OldCustomers : olds[c] # NoAccount}
      issued   == SumFunction([c \in had |-> olds[c].rewards])
      lifetime == SumFunction([c \in had |-> olds[c].stamps + olds[c].rewards * olds[c].goal])
  IN
  /\ issued <= MaxVouchers
  /\ \A i \in DOMAIN live : i < issued
  /\ redeemed + Cardinality(DOMAIN live) <= issued
  /\ \E stamps_required \in OldGoals, ttl \in ReceiptTtls, tail \in Tails :
       shop = [n \in Merchants |-> IF n # m THEN NoAccount ELSE
         OldBusiness(stamps_required, ttl, Cardinality(had), lifetime, issued, redeemed, tail)]
  /\ shopLayout = [n \in Merchants |-> IF n = m THEN layout ELSE "current"]
  /\ card = [n \in Merchants |-> [c \in Customers |->
       IF n # m \/ c \notin had THEN NoAccount ELSE
         OldCard(olds[c].goal, olds[c].stamps, olds[c].rewards,
                 IF olds[c].layout = "V1" THEN Blank ELSE olds[c].payer)]]
  /\ cardLayout = [n \in Merchants |-> [c \in Customers |->
       IF n # m \/ c \notin had THEN "current" ELSE olds[c].layout]]
  /\ record = [n \in Merchants |-> [c \in Customers |->
       IF n = m /\ c \in had /\ olds[c].recorded THEN olds[c].payer ELSE NoAccount]]
  /\ earned = [n \in Merchants |-> [c \in Customers |->
       IF n = m /\ c \in had THEN olds[c].rewards ELSE 0]]
  /\ free = [n \in Merchants |-> [c \in Customers |->
       IF n = m /\ c \in had /\ olds[c].goal = 0 THEN olds[c].rewards ELSE 0]]
  /\ cardMint = {<<m, c, 0>> : c \in {x \in had : olds[x].nft}}
  /\ \E payer \in OldPayers :
       voucher = [n \in Merchants |-> [i \in VoucherIds |->
         IF n # m \/ i \notin DOMAIN live THEN NoAccount ELSE
           [owner |-> live[i], rent_payer |-> payer,
            expires_at |-> Epoch + VoucherValidSeconds]]]
  /\ voucherMint = {<<m, i>> : i \in DOMAIN live}
  /\ voucherToken = [n \in Merchants |-> [i \in VoucherIds |-> [w \in Customers |->
       IF n = m /\ i \in DOMAIN live /\ live[i] = w
       THEN [EmptyToken EXCEPT !.amount = 1, !.closer = "voucher"] ELSE NoAccount]]]

\* One old shop, at any moment of its life; other merchants have none yet.
MigrationInit ==
  /\ now = Epoch
  /\ receipt = [m \in Merchants |-> [s \in Secrets |-> NoAccount]]
  /\ \E m \in Merchants, layout \in {"V1 short", "V1 long"},
        olds \in [OldCustomers -> OldCards \cup {NoAccount}],
        ids \in SUBSET VoucherIds, redeemed \in 0..MaxVouchers :
       \E live \in [ids -> Customers] : UpgradeOf(m, olds, layout, live, redeemed)
  /\ cardToken = cardMint
  /\ cardHeld = cardMint

MigrationSpec == MigrationInit /\ [][MigrationNext]_mvars
-----------------------------------------------------------------------------
\* A migrated shop's counters never say less than there is, whatever happened
\* while it waited: so nobody loses a card or a voucher to an early close
\* (migrate_business.rs).
CountersNeverUnderstate ==
  \A m \in Merchants : shop[m] # NoAccount /\ shopLayout[m] = "current" =>
    /\ shop[m].open_cards >= Cardinality(OpenCards(m))
    /\ shop[m].open_vouchers >= Cardinality(LiveVouchers(m))

\* A card that can be read says how many rewards it has really finished, also
\* when its shop changed the goal before somebody migrated it, but for exactly
\* those that an old goal of zero gave away (migrate_card.rs).
RewardsRemembered ==
  \A m \in Merchants : \A c \in OpenCards(m) :
    CardReadable(m, c) => card[m][c].rewards_earned + free[m][c] = earned[m][c]

KnownPayer(m, c) ==
  IF cardLayout[m][c] = "V1" THEN record[m][c] ELSE card[m][c].rent_payer

KeepsPayer(m, c) ==
  KnownPayer(m, c) # NoAccount /\ card'[m][c] # NoAccount
    => KnownPayer(m, c)' = KnownPayer(m, c)

\* The wallet the chain remembers as a card's rent payer stays the one, whoever
\* migrates the card, stamps it or cashes it in (migrate_card.rs).
PayerStays == [][\A m \in Merchants : \A c \in OpenCards(m) : KeepsPayer(m, c)]_mvars

\* README.md:151, of a shop's commitment: "while it stands the reward cannot be
\* changed at all"; a migration does not end one either.
PromiseOutlivesMigration == [][\A m \in Merchants : KeepsTerms(m)]_mvars

\* close_business.rs:21: "nobody is left holding a voucher for a shop that no
\* longer exists".
NobodyLeftHolding ==
  \A m \in Merchants, i \in VoucherIds : voucher[m][i] # NoAccount => shop[m] # NoAccount

\* migrate_business.rs:18, of the rebuilt counts: "They settle to the truth as
\* cards and vouchers are closed from here on", so when the last is closed they
\* are zero.
CountersSettle ==
  \A m \in Merchants :
    /\ shop[m] # NoAccount /\ shopLayout[m] = "current"
    /\ OpenCards(m) = {} /\ LiveVouchers(m) = {}
    => shop[m].open_cards = 0 /\ shop[m].open_vouchers = 0
=============================================================================
