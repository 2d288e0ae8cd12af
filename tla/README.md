# A verification of the loyalty program

TLA+ modules that model the Solana program in `programs/loyalty`, the TLC
configurations that check them on small instances, and theorems about them that
TLAPS checks for every instance. Every definition is read off the Rust source;
`PROJECT.json` names, for each, the lines it stands for.

## The system

A shop gives a customer a stamp for a purchase; enough stamps buy a voucher; the
shop takes the voucher back for a reward. Everything lives in accounts at
addresses derived from who owns them, and one program writes them. The parts:

| Part | State (accounts) | Operations |
|---|---|---|
| Shops | `Business` per merchant: terms, commitment date, hourly window, counters | `register_business`, `update_business_config`, `close_business` |
| Receipts | `Receipt` per (shop, secret hash): expiry | `issue_receipt`, `claim_receipt`, `reclaim_expired_receipt` |
| Stamp cards | `LoyaltyCard` per (shop, customer): stamps, goal snapshot, cooldown and daily window, NFT cycle | `claim_receipt` (opens and stamps), `transfer_stamps`, `mint_voucher` (cashes in), `close_dead_card` |
| Card NFTs | a mint and a token account per (card, cycle) | `mint_card_nft`, `mint_voucher` (burns), `retire_idle_card_nft`; the holder's own burn |
| Vouchers | `Voucher` per (shop, id), its mint, and a token account per wallet that has held it | `mint_voucher`, `present_voucher`, `cancel_presentation`, `transfer_voucher`, `redeem_voucher`, `close_expired_voucher`; the holder's own transfer, burn, close and set-authority |
| Token-2022, associated tokens | external: amount, frozen or not, close authority | what the program's CPIs and wallets ask of them |
| Rent | lamports, and the `rent_payer` each account names | every create and close |
| Migrations | short accounts of two older layouts | `migrate_business`, `migrate_card` |
| Relayer web app | outside this repository | signs and pays for every transaction |
| `initialize` / `Counter` | the framework's template | - |

They interact through shared accounts. A claim reads the shop's goal into a new
card and counts the card on the shop; a cash-in reads the card and the shop's next
voucher id and writes four accounts and two mints; a close reads counters that four
other instructions keep. Addresses are a second channel: the card's NFT address
comes from `nft_cycle`, the voucher's from `total_vouchers_issued`, and both
numbers start again when the account holding them is closed and opened again.

A transaction runs alone and fails as a whole, so there are no torn writes. What is
hard is the order of transactions: anyone may call the six clean-ups at any time;
a wallet moves or burns a token without the program hearing of it; merchant,
holder and clean-up race for the same voucher; every rule is a comparison with the
clock; shops and cards die and are born again at the same address while receipts,
NFTs and token accounts of their former life may still be there; and a counter that
comes down with `saturating_sub` hides an earlier mistake.

What makes each part correct:

- shops: a promise is kept until its date; a shop closes only when it owes nobody;
- receipts: one stamp each, in time, within the limits;
- cards: stamps are neither made nor lost except by claims and cash-ins; the goal of
  a card in progress stays; the leaderboard figure is honest;
- card NFTs: one per card, at its current cycle, so the next address is free;
- vouchers: one token each; ends by redemption of a presented voucher in date, or by
  a sweep after it; a presented one stays put;
- counters: exact, in every order of events.

`PROJECT.json` lists the hazards one by one, at the line where each bites, with the
properties that would catch it.

## The modules

- `Token2022` - the external token program, as far as the program leans on it: a
  token account of a one-token mint (amount, frozen, who may close it) and what
  transfers, burns, thaws and closes make of it.
- `LoyaltyState` - the accounts as functions from address seeds to contents
  (`shop[m]`, `receipt[m][s]`, `card[m][c]`, `voucher[m][i]`,
  `voucherToken[m][i][w]`) or sets (`cardMint`, `cardToken`, `cardHeld`,
  `voucherMint`), the limits as constants with their assumptions, `TypeOK`, `Init`
  and the clock.
- `Shops`, `Receipts`, `Cards`, `Vouchers` - one action per instruction, guards from
  its `require!`s and account constraints, with helpers named after what they write
  (`Stamped`, `CashedIn`, `CountRedeemed`, ...). `Cards` and `Vouchers` also hold what
  a wallet does on its own (`WalletMovesVoucher`, ...), and what anyone may do to one: create
  its account of a mint (`WalletOpensToken`).
- `Loyalty` - all of them together with any signer, the clock, and the properties.
- `StampLedger` - sums of stamps over cards, for the conservation properties.
- `Rewards` - the abstract specification: a numbered reward that is out, shown,
  handed on, honoured or lapsed, and a shop that leaves only when none is out.
  `VoucherPromise` maps accounts, mints and token accounts to it (a reward is shown
  while the token account that holds it is frozen) and states the refinement,
  `RewardsKept`.
- `WindUp` - `Loyalty` up to a closing time, then only the clean-ups, holders and
  wallets, under fairness: the liveness properties.
- `Migrations` - shops and cards of the older layouts, `migrate_business` and
  `migrate_card`, and which of today's instructions can read what meanwhile. `earned`
  remembers how many rewards a card really finished, which old layouts do not say, and
  `free` how many of them an old goal of zero gave away. `Tails` are what today's fields
  read as in an old shop that has room for them.
- `RateLimits` - remembers when every receipt was issued and claimed.
- `DocClaims`, `VoucherHistory` - claims of the documentation the program does not
  keep; the latter adds a history of ended vouchers.
- `MC*` - instances for TLC. Operators marked "Mutation" are plausible bugs, kept
  beside the definition they would replace to show each property can fail.
- `LoyaltyProofs` (types, counters), `CardProofs`, `VoucherProofs`, `RewardProofs` (the
  refinement), `SumProofs` (sums over finite sets, with nothing of the program in it),
  `LedgerProofs` (sums of stamps), `RateProofs`, `MigrationProofs` - the theorems.

What the model abstracts: names, labels, currency, minimum purchase, metadata and
events, which no check reads after registration; the amount band, only refused when
zero; bumps; the receipt's secret, whose hash is its address, so a secret stands for
both; `issued_at`, `minted_at`, read by nothing; the voucher's mint, fixed by its id.
The `u32` and `u64` counters are natural numbers: the release profile has
`overflow-checks = true`, so one at its limit makes the transaction fail. The `u8`
of stamps is kept, since 255 is near. A wallet has one token account per mint (the
associated one). Giving a voucher to oneself is left out. Lamports are not counted:
the recorded `rent_payer` says whose they are. A clock in the model moves
by one unit at a time and has instants in which several transactions run.

## What is checked

Bounds are chosen so that each limit is met and passed. The clock runs from `Epoch`
to `MaxTime`, two to five instants, with validity, cooldown and idle periods of one unit and
a dead period of two or three: everything that can expire does, also one after
another. (`migrations`, with two instants, has a validity of zero and a dead period of
one.) Except in `terms` and `voucher_comes_back`, the windows are as wide as the run,
so the hourly limit bounds receipts by a rule of the program. `MaxVouchers` bounds ids
and `MaxNftCycle` the mint-and-retire cycle, which could otherwise go round within one
instant. Customers are symmetric, except in
`vouchers`, where one of them starts with a card. The model may stop at its bounds
(clock out, ids used up), so deadlock is not checked.

| Run | Instance | What it shows |
|---|---|---|
| `loyalty` | the whole program, 1 shop, 2 customers, goals 0 and 1, 1 receipt at a time, 1 voucher id; at most 2 stamps exist at once (the `u8`'s limit is met in `cards`) | `GoalsInRange`: no goal of zero reaches a shop or a card; `CountersExact` and `NoOrphans`: the shop's live counters are exact through opening, closing, re-registering, redeeming and sweeping in any order, so closing never orphans anyone; `NextRewardMintable`: of all a former life leaves behind, only an empty token account at a customer's address can be in the way of that customer's next voucher (it does happen that one is) |
| `terms` | 1 customer, goals 0..3, legal and illegal TTLs and dates, 2 uses per window, an hour of 2 and a day of 3 | `TermsHonoured`: no change or close before the date; `GoalpostsStay`: a card's goal changes only at cash-in, to the shop's of that moment; `HourlyIssueBounded`, `ClaimsPaced`: at most 2 x limit - 1 in any hour or day (tight: one less is violated), across cards closed and opened again |
| `cards` | 2 customers, goals 0 (refused) and 2, 4 claims and a `u8` of 3, vouchers minted but not followed further | `TypeOK`; `CardNftAtCurrentCycle`; `LeaderboardHonest`: `lifetime_stamps - stamps` is exactly what rewards cost, whoever passes stamps to whom; `NoFreeRewards`, `StampsConserved` |
| `vouchers` | 2 customers, 2 vouchers; starts from a shop whose customer has claimed two receipts, at `Epoch` and `Epoch + 1` | `VoucherNftSound`, `VouchersAccounted`, `VoucherEndsFairly`, `PresentedStaysPut`, and the refinement `RewardsKept` |
| `wind_up` | 2 customers, 1 voucher, two instants of trading under a commitment that outlasts it, fairness | `ReceiptsSwept`, `NftsRecycled`, `VouchersEnd`, `ShopsWindUp` |
| `migrations` | 1 old shop at any moment of its life, with or without an old card of either layout, a second customer who comes later, another relayer signing than paid before, old goals 0 and 2 and today's 1; a short shop reads a past or a future date, 0 or 1 open cards, and a blank payer | `MigrationTypeOK`; `CountersNeverUnderstate`, `NoOrphans`: a rebuilt counter errs on the safe side in every order; `RewardsRemembered`, `PayerStays` |
| `reclaim_boundary` | as `loyalty` | finding: claim (`<=`) and reclaim (`>=`) overlap in the second of expiry |
| `voucher_comes_back` | a shop that closes and registers again | finding: ids, and so addresses, are used again |
| `promise_wiped` | 1 old shop with short strings | finding: a migration ends a commitment made before it |
| `counters_settle` | 1 old shop | finding: vouchers swept before the migration are counted for good |
| `closed_on_leftovers` | 1 old shop whose payer reads as something | finding: it can close, unmigrated, on a voucher's holder |
| `rent_stranded` | 2 customers | finding: a token account whose close right the voucher held outlives it |

The two partial runs leave out what cannot touch their properties: what becomes of a
minted voucher writes no card (`cards`), and receipts and card NFTs touch no voucher
(`vouchers`); the `loyalty` run has everything at once, with one voucher.

The findings are disagreements of code and documentation. In the first, the customer
loses a stamp only if someone reclaims in that very second. The second needs a shop that
closed, which it can do only with no voucher out, so no living voucher is affected. One
more disagreement is plain from the text and has no run: `business_rules.rs:41` says that
a shop may always extend its commitment, and a running one may be brought forward with two
weeks' notice, but `update_business_config` has already refused while
`now < terms_locked_until`, and after that no allowed date is before the current one. So
`TermsHonoured` holds without exception.

A migrated shop is the reason the counters' `saturating_sub` matters: there the
counters overstate, and the runs `migrations` and `counters_settle` say how far.

Old goals are any `u8`. `check_settings` did not exist then, and `business_rules.rs:7-10`
says that shops did ask for zero stamps. So `OldCards` has cards with a snapshot of zero
and any number of rewards, and `RewardsRemembered` says what becomes of them: a migrated
card counts all its rewards but those, exactly. Those are lost (`migrate_card.rs:103`:
`if snapshot > 0 {..} else {0}`), though the comment above says that the derivation "is
still correct". Nor does a migration mend the goal (`migrate_business.rs:81`), so rewards
stay free at such a shop until it edits its terms, and for each of its cards once more
after that. An old card's `lifetime_stamps` is its stamps and what its rewards cost; this
assumes that a gift of stamps always moved both, as today's does.

An old shop is where the framework matters. Borsh reads a prefix of the account, and an
old shop keeps room for the longest strings, so with 48 bytes of that room unused today's
fields are read from what is behind the old ones. (The test of an unreadable account
shrinks a card, which has no strings.) Mostly those are the zeros the account was created
with. But an edit that makes the shop longer and then shorter leaves the end of the longer
one there, since only the serialised length is written. The last 13 bytes of an old shop
are vouchers issued, redemptions and bump; a reward label shortened by as much puts them
where the commitment, the open cards and the first byte of the rent payer are read.

- `promise_wiped` needs only the zeros.
- `migrations` lets date and card count be leftovers and keeps the payer blank
  (`TailClean`). A blank payer is no wallet, so such a shop trades but cannot close before
  it is migrated. `CountersNeverUnderstate` and `NoOrphans` rest on this, in the run and
  as theorems; the other properties do not.
- `closed_on_leftovers` shows what happens without it: no redemption yet, so no card is
  read as open; a payer that anyone can name, being the bump and zeros; and a customer who
  holds a voucher that the shop's last field, `open_vouchers`, never counted.

In `migrations` what wallets do to voucher tokens is left out: it touches neither shop nor
card. `rent_stranded` needs no more than a holder who sends a voucher on with a wallet of
their own: `mint_voucher` gives the close right to the voucher (`mint_voucher.rs:117-131`),
so that wallet cannot close the account it emptied, and after the redemption nobody can.

`ClaimsPaced` holds across a card's lives because `CARD_DEAD_SECONDS` (a year) is at
least the day and the cooldown; the run keeps that order, and with a shorter dead
period the property fails. The hourly limit is bounded within one life of a shop only:
closing an unused shop and registering it again starts a new window.

### Fairness

`WindUp` assumes weak fairness of the clock and of each clean-up for each account:
reclaiming a receipt, retiring an idle NFT, closing a dead card, sweeping an expired
voucher, closing a shop. Nobody's signature but a fee payer's is needed for any of
them; the project's README says that anyone may call them and that the web app runs
the sweeps of vouchers and NFTs as a background job. `SweepVoucher` is fair as a
whole: the sweeper looks up where the token is, which is public, and names that
account, or none. Nothing is assumed of merchants, customers or wallets; they may do
what they like with a voucher for ever, and after `ClosingTime` nobody comes to a
counter any more. Weak fairness is enough because what may be swept stays so until it
is swept, and holders racing the sweep run out of allowed steps when the date passes
(only a wallet can still move a token, and `SweepVoucher` follows it).

## What is proved

Every invariant, every action property and the refinement that a passing run checks are
also theorems; only liveness is model-checked alone. They hold for every set of
merchants, relayers and receipts, every finite set of customers, and all limits that
satisfy the assumptions: in `LoyaltyState` and `Loyalty`, limits and arguments are natural
numbers, the windows are no wider than the clock is old, and no account is `NoAccount`;
in `Migrations`, the blank key is no payer and no signer, and old goals are any `u8`; in
`RateLimits`, the windows and their limits are not zero and a card's death takes at
least a day and a cooldown, as `constants.rs` has it, and the model's clock has an instant
to run in.

Hardly any property is inductive as it stands. The arguments:

- `LoyaltyProofs`. `TypeCorrect` (`TypeOK`) is: each handler's helper has a lemma that it
  returns what the account may hold. `CountersAreExact` (`CountersExact`) and
  `NobodyOrphaned` (`NoOrphans`) need each other. A new shop's zeros are exact only
  because its predecessor left nothing behind, and that is so only because the
  predecessor's counters were exact when `close_business` read them; the invariant
  `Settled` states both for each shop, and each step moves one counter of one shop
  together with the set it counts, or neither. In particular the `saturating_sub`s never
  saturate.
- `CardProofs`. `NftAddressFree` (`CardNftAtCurrentCycle`, inductive with `TypeOK`; the
  step that matters is that a card's only NFT is the one a burn takes, so what is left
  belongs to other cards). The action properties `LeaderboardStaysHonest`
  (`LeaderboardHonest`), `GoalpostsStand` (`GoalpostsStay`) and `PromisesKept`
  (`TermsHonoured`): from typed states, every step that writes a card or a shop is shown to
  keep its figure, its goal or its terms, or to be the one allowed exception (a cash-in; a
  date that has passed). `GoalsStayInRange` (`GoalsInRange`): `TypeOK` lets a goal be any
  `u8`; what `check_settings` lets through is what shops have, and a card takes its goal
  only from its shop.
- `VoucherProofs`. `StepIsEvent`: seen from the vouchers, every step of anybody is one of a
  few events - nothing, a shop opening or leaving, a voucher minted, shown, taken back,
  handed on, honoured, swept, or its token destroyed - at one voucher, with all others
  untouched. The invariants and action properties are then shown of the events alone.
  `VouchersAreSound` (`VoucherNftSound`) is inductive with `TypeOK` in the form `Sound`:
  account and mint are there together, and in at most one wallet there is a token. It is
  what makes the step of a burn or an abandoned account harmless. `VouchersAreAccounted`
  (`VouchersAccounted`) says that ids given out, redeemed and still out add up; its proof
  needs `Settled`, because a shop that leaves with a voucher out would leave a voucher
  with a number nobody gave. `NextRewardIsMintable` (`NextRewardMintable`) follows from
  the two. `VouchersEndFairly` (`VoucherEndsFairly`) and `PresentedStays`
  (`PresentedStaysPut`) are read off the events.
- `RewardProofs`. `ImplementsRewards`: the program implements `Rewards` under the mapping of
  `VoucherPromise`. No reward is out at first, and each event is a step of `Rewards` or a
  stutter. `Sound` says there is only one token to see a reward by, and `Settled` and
  `Accounted` that a shop which leaves owes nothing, as `Rewards` demands.
- `SumProofs`, `LedgerProofs`. A sum over a finite set is a recursive function inside a
  community module, and an induction principle takes an operator that no prover here can
  instantiate. So facts about sums (they are natural numbers, any element may be taken out
  first, one changed summand changes the sum by as much, disjoint sets add up) are shown
  by the least counterexample: the set of subsets for which one fails has a smallest
  member, and taking an element out of it gives a smaller one. From them
  `StampsAreConserved` (`StampsConserved`), over any number of cards, and `NoRewardIsFree`
  (`NoFreeRewards`), with the invariant `Covered` beside `GoalsInRange`, because a reward
  pays only if its goal is not zero, and `Settled`, because a new shop's books start at
  zero while `StampsOut` must too.
- `RateProofs`. `HoursAreBounded` (`HourlyIssueBounded`) and `ClaimsArePaced`
  (`ClaimsPaced`). The invariant relates the program's one window to the remembered times:
  the window counts what happened since its start, its start is itself a use, and what
  happened before leaves room for one more in every stretch that reaches into it
  (`Window`). So a stretch across the edge holds at most limit - 1 before it and limit
  after it. For a card that is gone nothing was claimed for as long as a card takes to
  die, so the limits it forgot have run out (`CardPaced`).
- `MigrationProofs`. `MigrationTypeCorrect`, `RebuiltCountersCover`
  (`CountersNeverUnderstate`), `UpgradeOrphansNobody` (`NoOrphans`), `RewardsStayRemembered`
  (`RewardsRemembered`), `PayersStay` (`PayerStays`), for any history of the old shop, in two
  invariants. `CardInv` needs nothing of what is behind an old shop's fields: the stamps an
  unreadable card has spent are its rewards times its own snapshot, nothing that runs
  meanwhile moves either, and the rewards that division does not give back, with a snapshot
  of zero, are those in `free` (`CardSafe`). The first, fourth and fifth theorem follow.
  `BooksInv` is for the other two, which assume `TailClean`. Before the migration
  `open_cards` and `open_vouchers` say nothing, so `CountersExact` is lost. What holds
  throughout is that the totals cover what is open (`BooksSafe`: `total_cards` is at least
  the open cards, redeemed and live vouchers at most those issued), which the rebuilt
  counters inherit; and that an old shop keeps the blank rent payer, so it cannot close
  before.

Model-checked only: `ReceiptsSwept`, `NftsRecycled`, `VouchersEnd` and `ShopsWindUp`, since
liveness under fairness is out of the prover's reach. The findings' runs show violations
and have nothing to prove. Two bounds of the models stay in the theorems because they are
in the actions: ids below `MaxVouchers` and a clock up to `MaxTime`, both arbitrary.

## Not modelled

Not modelled: amounts of lamports, and who paid for the accounts that have no payer of
their own (a card NFT's, refunded to the card's payer, and a gift's token account,
refunded to the voucher's; both may be other relayers than the one that paid); card
NFTs minted before the program kept the right to close their token account; token
accounts of card NFTs at other wallets' addresses, always empty, since an NFT cannot move and
its burn names the customer's own account; the metadata a mint carries, which no check reads.

Left out: `initialize` (the template's counter, read by nothing else), error texts
and module wiring, and the relayer's web app, which is not in this repository: the
model lets every relayer sign anything, so nothing here depends on its limits.
