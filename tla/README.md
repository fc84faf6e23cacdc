# Viral-Sync: a TLA+ model

This directory models Viral-Sync, a loyalty-token system on Solana: an Anchor program that watches every
Token-2022 transfer of a merchant's token, attributes tokens to the customers who passed them on, and pays
those customers a commission when the tokens are redeemed; a relayer that pays for the customers'
transactions; and the app both sides use. The modules translate the source under `src/`; line numbers below
are of files under `src/`, and `PROJECT.json` ("map") names the lines behind every definition.

## The system

| Component | State | Operations | Interacts with | What is hard | What makes it correct |
|---|---|---|---|---|---|
| `TokenGeneration` account, one per wallet and mint | Gen-1, Gen-2 and dead balances; a 16-entry ring of inbound transfers; share counter; redemption lock | open, finalize inbound, burn | written by the hook on both ends of every transfer | writes arriving between finalisations; a ring whose head outlives its count; unchecked subtraction | nothing unfinalised is overwritten, books cover tokens unless a burn named two owners, spending order |
| Transfer hook | none of its own | `execute_transfer_hook`, six paths by early return | called by Token-2022 inside each transfer; reads `MerchantConfig` and the vault registry | an error fails the customer's transfer; classification by several flags; rules checked before the split of the amount | a recipient never blocks a transfer, daily limit, depth rule |
| Redemption settlement | redemption lock; `ReferralRecord` | settle one slot, clear the lock, close an expired record | the hook takes the lock, cranks release it | settled by separate transactions in any order; records may be closed meanwhile | each slot once, no second redemption before, none charged beyond its attribution, the wallet reopens |
| Commission ledger | claimable, fractional dust, frozen flag, totals | credit, claim | claim transfers out of the treasury through the hook | fractions, several writers | every token earned is claimable, paid or lost to a dispute; a claim brings the account it names what it was for, to a token |
| Disputes, reputation | `DisputeRecord`, `MerchantReputation` | raise, resolve after 14 days, recompute the score | freeze and debit the ledger | several disputes on one ledger; two writers of one score | contested ledger frozen, timeouts never forgotten |
| Escrow shares | an intermediary `TokenGeneration` | create, claim, (harvest: empty) | transfers by CPI, whose hook calls the program again | re-entry; stale copies across the call | not modelled, see below |
| Merchant lifecycle and bond | `MerchantConfig`, `MerchantBond` | create, first issuance, withdraw, initiate and finalise closing, redeem a share | its transactions come through the relayer | order of transactions, closing window, saturated comparison before a plain subtraction | no bond falls below its minimum before a merchant begins to close |
| On-chain session keys, geofencing | `SessionKey`; none | create, revoke; a check | read by no other instruction | -- | -- |
| Relayer (`relayer/src/index.ts`) and its client (`lib/relayer.ts`) | per-address times of requests; requests at an await | limit, parse, sign, simulate, send, answer; health; clean-up timer | app, RPC node, chain | state moving between simulation and landing; lost answers; restarts; a timer pruning what a check reads | at most 30 requests a minute per address, a request the server has is answered, success means broadcast |
| Session key of the browser (`session-keys.ts`) | a keypair in memory, its copy in `sessionStorage` | create, restore, renew, sign, register, destroy | the relayer registers it | two copies written separately; what is restored may not parse or have expired | memory and storage agree |
| Sign-in and navigation (`auth.tsx`, login and settings pages) | account, role, modal, page, pending role; `localStorage` | restore, log in, choose a role, log out, switch role, navigate, reload | other tabs write the saved session; decides the wallet every page reads | effects after one render on a ref that outlives it; another tab in between | a reload restores the session, nobody signed in stays on the login page |
| Account polling (`hooks.ts`) | shown data, requests in flight | ask at once and every poll; apply answers | address follows the wallet; RPC node | late, reordered and lost answers; one "mounted" flag for several effects | nobody sees another account's data, what is shown catches up |
| Account decoding (`hooks.ts`, `types.ts`) | none | decode, filter lists, map status | the layouts of the program's structs | one width out of step shifts everything behind it | every field is read from its bytes |
| Scan page | state and timers | scan | -- | timers of earlier scans firing into later ones | a scan never hangs |
| Viral oracle, cranks, actions server, POS and web clients, launch scripts | -- | stateless or placeholders | -- | -- | -- |

## Modules

| Module | Models |
|---|---|
| `Generation` | the `TokenGeneration` record and the pure operations on it: buffer, FIFO split, finalise, burn, lock and unlock |
| `TransferHook` | `execute_transfer_hook`: `HookPath` is the order of the early returns, one operator per path gives `[ok, src, dst]` |
| `TokenFlow` | the state machine of one mint: opening accounts, a transfer on each path, finalise, burn, clear the lock, the clock |
| `Commission` | extends `TokenFlow` with records, ledgers, disputes and reputation; composes every step of it, burns and pool trades included, with settlement, claims and disputes |
| `RedemptionLock` | abstract: what a redemption lock promises; `Commission` implements it |
| `Clock` | the clock the off-chain modules share |
| `SlidingWindow` | abstract: admit a request exactly when fewer than the limit were admitted in the window before it, by the whole history |
| `RateLimiter` | the relayer's limiter: pruned lists, the clean-up timer, restarts; implements `SlidingWindow` |
| `SessionKeys` | `session-keys.ts`: the key in memory and its stored copy, one step per call |
| `MerchantChain` | the handlers of a merchant's life and of session keys as operators: whether one succeeds on the accounts it is given, which need not belong together, and what it leaves |
| `Relay` | composes the three: the app's request, each await of the relay handler, the RPC node, the landing of a transaction, restarts, the health check |
| `SignIn` | `AuthProvider`, the login modal, the login page's effects, sign-out and role switch, tabs, another tab writing the session |
| `AccountFeed` | one data hook on the pages that mount it, following the wallet of `SignIn` |
| `Layouts` | byte offsets the decoders read and those of the structs; list filters; the status map |
| `ScanPage` | the scan page and its timers |
| `Client` | composes `SignIn`, `AccountFeed`, `Layouts` and `ScanPage`: one browser tab |
| `MCTokenFlow`, `MCCommission`, `MCRelay`, `MCClient` | instances for TLC: owners, configurations, scenarios, bounds |
| `TransferHook_proofs` | lemmas on the operations of `Generation` and on the paths of the hook |
| `TokenFlow_proofs`, `Guards_proofs`, `Supply_proofs` | theorems of `TokenFlow`: books and ring; limits, lock and spending order; the supply, with a small library of finite sums |
| `Commission_proofs`, `RedemptionLock_proofs` | theorems of `Commission`: its invariant, the supply and what a claim pays; the refinement of the lock, what a redemption charges and that it goes through |
| `Relay_proofs` | theorems of `RateLimiter`, `SessionKeys`, `MerchantChain` and `Relay` |
| `Client_proofs` | theorems of `SignIn`, `AccountFeed`, `ScanPage`, `Layouts` and `Client` |

On chain, the variables are the accounts: `gen` (by owner), `initialized`, `tokens` (balances of the token
accounts), `config`, `now`; `Commission` adds `record`, `open`, `ledger`, `dispute`, `reputation`. History
variables are kept apart from the program's own counters: `sharesMade` (peer transfers of the running day),
`misbooked` (owners of books and of tokens that one burn named without the other), `accrued`, `wiped`, `forfeited`. An action is one instruction; a transfer is one action with the hook's whole
effect in it. A Rust panic (`overflow-checks = true`, `Cargo.toml`; `checked_add(..).unwrap()`) reverts the
transaction, so it is a disabled action: `Fits`, `SharesFit` and `LedgerFits` are those tests.

In `Relay` a request is followed by `client` (what `relayTransaction` is doing), `server` (the await its
handler is at) and `tx` (the transaction on the network). One action runs the handler from one `await` to the
next, so anything can happen in between: other requests, time, a restart, a lost connection. `accounts` are
the merchant's, changed only when a transaction lands; `overtaken` remembers whether anything moved since a
request was simulated.

In `Client` an action is one event of the browser (a click, an answer, a timer) with the render and all the
effects it causes, because React runs those before the next event; the navigation an effect asks for arrives
later as an action of its own (`Arrive`). `flight` is the sequence of a hook's requests whose answer can still
be shown; `Serve` is the moment the node reads the chain, `Deliver` the moment the answer is applied, and they
may happen in any order. `RefreshPage`, `Reload` lose what is in memory and keep what is stored.

### What is assumed of the environment

* R1. Token-2022 calls the hook once per transfer, and nothing else calls it, with the gross amount and the accounts derived from the
  owners stored in the two token accounts (`transfer_hook.rs:12-61`). The treasury's account is found this
  way only if the key `init_treasury_token_generation` was given is the owner of its token account, and
  the deployment opens the treasury's account, and no other, with that instruction. `execute_transfer_hook` is an
  entry point of the program (`lib.rs:43`) and asks neither whether a transfer is under way nor whether the
  config is the mint's; that it runs only inside a transfer of this mint, with this mint's config, is assumed.
* R2. An instruction commits whole or not at all.
* R3. Anchor reads accounts at entry and writes them at exit.
* R4. Transactions that write the same account take turns.
* R5. `claim_commission` and `burn_tokens` transfer or burn by a call into Token-2022. For the claim's
  transfer the model lets Token-2022 call the hook back, as the comments of the source expect; nothing that
  the claim itself holds is written by the hook, so the result is the same whether it runs inside or after.
  (The Solana runtime refuses a program that is re-entered through another one; on a runtime that does, a
  claim always fails.)
* One token account per wallet, so no transfer from a wallet to itself.
* Which accounts an instruction is given. Assumed: a settlement gets the record and the ledger of its slot, a claim
  the treasury, the mint and the config of this merchant, a dispute the ledger of its referral (the
  comments at `claim_commission.rs:15` and 61 leave such checks to a full deployment). Not assumed, because the program
  does not compare them and a property depends on it: that the books `burn_tokens` lowers are of the owner of the tokens
  it burns (`burn_tokens.rs:8-14`; they may even be of another mint, `NoOwner` in `BurnTokens`), that `claim_commission`
  pays the ledger's referrer (`claim_commission.rs:25-26`), that the config, the bond and the books
  `redeem_bond_share` reads are of one merchant (`bond_management.rs:112-127`), that who signs `withdraw_bond` is the
  bond's merchant. `Bond` and `Mint` are separate sets in `MerchantChain`, and an instruction names one of each.
* Slot and unix time are one clock, starting above 0 because the program uses 0 for "never".
* Marked external in the modules: vaults and DEX pools are registered by no instruction
  (`RegisterDexPool`); referral records, ledgers, disputes and referrer slots are created by none
  (`finalize_inbound.rs:20` leaves it to "full deployment"). `AttributeReferral` writes what that comment
  describes, for no more Gen-2 tokens than the wallet has, one slot per referrer, and not while a redemption of the
  wallet is pending. The code states none of the three conditions, having no such writer; `ImplementsLock` rests on the
  last one, since a slot added under a pending redemption would be due without a share.
* The RPC node simulates on the accounts as they are, may err on any call, and may take a transaction without
  its answer arriving; a transaction lands later, once, or never. JavaScript runs one callback at a time, and
  `sessionStorage.setItem` does not throw. The relayer's limit on the size of the data (`index.ts:82-84`) is left out:
  the body parser refuses what would exceed it.

## Runs

| Run | Question | Result |
|---|---|---|
| `TokenFlow_sharing` | do the books, the ring and the limits survive any interleaving of shares, finalisations and burns, matched and not? | holds |
| `TokenFlow_market` | the same with vault, pool and treasury: spending order, frozen redemption | holds |
| `Commission_ledger` | does the referrer's ledger account for every token and fraction, and does a claim bring what it was for? | holds (about 63,000 states) |
| `Commission_lock` | does the program implement `RedemptionLock`, with two slots, a pool and burns; does any history make a redemption panic, or charge a slot beyond its attribution; can every wallet redeem again and again? | holds (about 131,000 states), the last under the fairness below |
| `Client_tab` | does the session survive reloads and other tabs, is nobody shown another's data, does what is shown catch up with the chain, are the decoders in step with the structs? | holds (about 360,000 states) |
| `Relay_pipeline` | does the limiter implement a sliding window, what can keep a request waiting, what does simulating first guarantee, do the key's copies agree, until when does a bond cover its minimum? | holds (about 790,000 states) |
| `TokenFlow_payout` | is a payout booked identically to an issuance? (`claim_commission.rs:52-53`) | violated |
| `TokenFlow_depth` | are Gen-2 tokens never passed on where not allowed? (`errors.rs:35`) | violated |
| `Commission_closing` | is a record with a commission owed never closed? (`referral_cleanup.rs:31`) | violated |
| `Commission_contested` | is a ledger frozen while contested? (`ARCHITECTURE_V4.md:105`) | violated |
| `Commission_payout` | does a claim bring exactly what was earned? (`claim_commission.rs:45`) | violated |
| `Client_seeds` | does the app find a configuration that is on chain? (`solana.ts:3`) | violated |

What the violations show:

* `TokenFlow_payout`: the treasury path returns without stamping `first_received_at`. A wallet whose first
  tokens are a payout has held them "since 1970": the hold time is met and any expiry has passed.
* `TokenFlow_depth`: both depth guards look for transfers with no Gen-1 token at all. A transfer of the
  last Gen-1 token together with Gen-2 tokens passes, and all of it arrives as a viral share.
* `Commission_closing`: `commission_earned == commission_settled` is `0 == 0` before settlement. Once the
  record is closed its slot cannot be settled, and the redeemer's lock cannot be cleared.
* `Commission_contested`: one `frozen` flag serves all disputes on a ledger; resolving one clears it.
* `Commission_payout`: the gross-up rounds down and the transfer fee rounds up. At a fee of 25 % a claim of one token
  sends one, and the fee is all of it.
* `Client_seeds`: the app derives the configuration's address from `"merchant_config"` and the merchant, the
  program from `"merchant_v4"` and the mint. The account is never found, however often it is polled, and the
  page shows it as missing.

What some of the passing properties say:

* `RevertedOnlyIfOvertaken` states how far `index.ts:98` goes ("simulating the transaction prior to broadcast
  prevents draining relayer funds on failed TXs"): a transaction the relayer paid for reverts only if the
  accounts or the clock moved after its simulation.
* `TrackedCoversBalance` excepts the two owners of a burn whose books and tokens did not match. Of these the books may
  be below the tokens, and a spend may panic, or above. It says that nobody else is touched: a transfer with one of them
  moves the same amount on both sides or does not happen.
* `ClaimsPayAsEarned` states how far `claim_commission.rs:45` goes ("so real amount received exactly matches
  earned"): one account, the one the caller names, gets the amount or one token less, and all of it where the division
  leaves no rest. Whose account it is the program does not ask.
* `BondsHoldUntilAClose` is what holds of the bonds of all merchants together. Once some merchant has begun to close, its
  config serves to redeem shares of any bond; nothing in the program stops that, and the property does not claim it.
* `EveryRequestResolves` has a premise for each request, `SilenceEnds`: neither the network nor the node stays silent on it
  for ever. With it the handler's `catch` and the connections a restart closes are what make the client's wait end.
* `RedemptionGoesThrough` says when a customer with the tokens can redeem: with an empty buffer, no redemption
  pending, nothing expired and no unmatched burn, in a mint whose supply squared fits u64 (about 4.29 * 10^9 base units). Beyond that the
  product `gen2_consumed * tokens_attributed` (`transfer_hook.rs:168`) can panic.
* `ChargedWithinAttribution` is about each slot; the shares of all slots together can exceed what was consumed.
* `NobodyElsesData` allows the data of the build's own shop besides the account's, because pages ask about it
  until the session has been read. All effects of a hook built on `useAccountData` share one flag, so the
  answer to an earlier address can still be applied; it is never another customer's.
* `EventuallyCurrent` says that answers applied out of order do not matter in the end: while page, address and
  chain stay, a poll brings the current data.
* `SuccessWasBroadcast` says broadcast and not landed: the client cannot know more.

### Bounds

* Buffers of 1 and 2 entries instead of 16: full, wrap-around and refused writes happen with two transfers;
  nothing in the code depends on the size but the modulus and the comparison (`TokenFlow_proofs` covers every
  size). One or two of the four slots.
* `MaxU64` 7 or 15: large enough that only the treasury's symbolic balance and genuinely excessive products
  reach it. Two or three customers, two to four tokens, two or three seconds, days of two seconds.
* `OpenConfig`, `StrictConfig`, `FeeConfig` and `CreatedConfigWithMax` switch hold time, limits, expiry,
  Gen-2 sharing, the fee, and `slots_per_day = 0` on and off. `Commission_ledger` runs with fees of 0, 2500
  and 5000 basis points, of which 5000 divides every claim and 2500 does not; where there is a fee a redemption earns its
  whole amount in commission (`RateByFee`) and the merchant issues a token more for each quarter the fee takes
  (`IssuedFirst`), so that claims of one and two tokens meet both roundings. In `Commission_lock` a supply of 3 keeps its square
  within `MaxU64` 15, which is the premise of `RedemptionGoesThrough`.
* State constraints, each named where it is defined: `NoReturns` (nobody sends tokens to the merchant, the
  vault or the treasury by a path that books them), `Matched` (burns name books and tokens of one owner),
  `OpenedFirst` (accounts exist before tokens move), `OneWay` (merchant, then alice, then bob, then the vault),
  `IssuedFirst` (the merchant issues, then the clock moves), `RateByFee` and `OneSource`; one action constraint,
  `NoBurns`. What a run leaves out another has: opening in every order and unmatched burns are in
  `TokenFlow_sharing` and, with the commission loop, in `Commission_closing`; burns of both kinds, pool trades and
  redemptions together are in `Commission_lock`. The theorems have none of these bounds.
* `Permutations` of the two customers is a symmetry of the sharing and market instances, which check no
  liveness. The liveness runs use no symmetry. `Commission_lock` has two state constraints under its liveness
  property: none of the actions it takes to be fair makes one false, so no behaviour is cut off while one of them is due.
* `Client`: two people and a shop; builds with and without a merchant key (`Envs`); each behaviour watches one
  of the nine data hooks; data of one address changes (`Publishing`), once created and once written
  (`MaxVersion` 2); no poll starts while `MaxInFlight` 2 requests are under way, which is enough for an old
  answer to overtake a new one across a change of address; at most two scan timers when a scan starts
  (`MaxTimers` 2), enough for a rest timer of one scan to meet the next.
* `Relay`: three requests, two addresses, limit 2 per window of 2, `MaxTime` 3: a window fills, moves and
  empties. Each behaviour follows one of eight scenarios (`MCScenario`: a flood over the limit with restarts,
  a merchant opening, with restarts at every await of its transactions and an issue that does not fit, a merchant
  closing while shares of its bond are redeemed, the same with the bond of another one and withdrawals, closing
  through the window, delegating a key, a tab registering its key, a health check), chosen in the initial state, so that what interacts is
  interleaved and what does not is not multiplied. Keys live one tick (`SESSION_DURATION`) and a tab makes at
  most two (`MaxKeys`), so that a key expires and is renewed.
* Deadlock is checked in all runs of `TokenFlow` and `Commission`: finalisation is always possible. It is off
  for `Client` and `Relay`, whose bounded instances really stop: a tab that nobody uses, with no hook mounted,
  has nothing to do, and a relayer has nothing to do when the scenario's requests are done. `EventuallyCurrent`
  and `EveryRequestResolves` are the progress checked there.

### Fairness

* `RedemptionReopens` assumes weak fairness of `FinalizeInbound`, of `ProcessRedemptionSlot` for each slot
  and of `ClearRedemptionPending`. These are transactions the wallet itself or a crank has to submit
  (`cranks/mainnet_cranks.ts` names the job; as shipped it only logs). Once enabled each stays enabled until it
  is executed, so repeated submission gives weak fairness. No fairness is assumed of transfers. The run
  lets referrals live forever; with expiry the lock can be orphaned, which `Commission_closing` shows.
* `Client`: the poll interval fires (weak fairness of `Tick`), and the network does not fail for ever (strong
  fairness of `Answer` and `Receive`): any single request may be lost, but not all of them.
* `Relay`: the server writes the answers it has (weak fairness of `Answer`, per request), time passes (`Tick`), and the
  browser fires `AbortSignal.timeout` (`HealthExpired`). Nothing is assumed of the network or the node: `fetch`
  (`relayer.ts:35`), `simulateTransaction` and `sendRawTransaction` (`index.ts:99`, 108) have no timeout, so any of them
  may stay pending for ever, and so may the way of the answer back. `EveryRequestResolves` has the premise that they do
  not; `HealthDecides` needs none.

## What is proved

Proved for every value of the constants that satisfies the named assumptions: any set of owners, any
`BufferSize`, `ReferrerSlots` and `MaxU64`, any configurations, rates, amounts, windows and limits, any clients,
scenarios, browser accounts and builds. Every safety property of the passing runs is proved.

| Theorem | Module | States |
|---|---|---|
| `TypeCorrect` | `TokenFlow_proofs` | `Spec => []TypeOK` |
| `BooksCoverBalances` | `TokenFlow_proofs` | `Spec => []TrackedCoversBalance` |
| `ShareLimitHolds` | `Guards_proofs` | `Spec => []DailyShareLimit` |
| `LockFreezes` | `Guards_proofs` | `Spec => LockFreezesRedemption` |
| `SpendsInOrder` | `Guards_proofs` | `Spec => SpendingOrder` |
| `WindowHolds` | `TokenFlow_proofs` | `Spec => []BufferWindow` |
| `AttributionsSafe` | `TokenFlow_proofs` | `Spec => NoAttributionLost` |
| `NothingBeyondSupply` | `Supply_proofs` | `Spec => [](Total(Held, Owner) <= Supply)` |
| `RecipientsNeverBlock` | `Supply_proofs` | `Spec => []RecipientNeverBlocks` |
| `CommissionTypesHold` | `Commission_proofs` | `CommissionSpec => []CommissionTypeOK` |
| `LedgersBalance` | `Commission_proofs` | `CommissionSpec => []LedgerBalanced` |
| `FractionsKept` | `Commission_proofs` | `CommissionSpec => []NoFractionLost` |
| `TimeoutsCount` | `Commission_proofs` | `CommissionSpec => []TimeoutsCostReputation` |
| `RecordsStayWithinLedger` | `Commission_proofs` | `CommissionSpec => []RecordsWithinLedger` |
| `LoopWithinSupply` | `Commission_proofs` | `CommissionSpec => [](Total(Held, Owner) <= Supply)` |
| `ClaimsPay` | `Commission_proofs` | `CommissionSpec => ClaimsPayAsEarned` |
| `LockImplemented` | `RedemptionLock_proofs` | `CommissionSpec => ImplementsLock` (refinement) |
| `LoopFreezesLock` | `RedemptionLock_proofs` | `CommissionSpec => LockFreezesRedemption` |
| `ChargesWithinAttribution` | `RedemptionLock_proofs` | `CommissionSpec => []ChargedWithinAttribution` |
| `RedemptionsGoThrough` | `RedemptionLock_proofs` | `CommissionSpec => []RedemptionGoesThrough` |
| `LimitHoldsAlways` | `Relay_proofs` | `LimiterSpec => []LimitHolds` |
| `LimiterRefines` | `Relay_proofs` | `LimiterSpec => SlidesTheWindow` (refinement) |
| `RelayKeepsLimiter` | `Relay_proofs` | `Spec => LimiterSpec` |
| `RelayLimitHolds` | `Relay_proofs` | `Spec => []LimitHolds` |
| `RelaySlidesTheWindow` | `Relay_proofs` | `Spec => SlidesTheWindow` (refinement) |
| `RelayTypes` | `Relay_proofs` | `Spec => []RelayTypeOK` |
| `SuccessMeansBroadcast` | `Relay_proofs` | `Spec => []SuccessWasBroadcast` |
| `RevertsOnlyIfOvertaken` | `Relay_proofs` | `Spec => []RevertedOnlyIfOvertaken` |
| `BondsHold` | `Relay_proofs` | `Spec => []BondsHoldUntilAClose` |
| `RefreshFindsTheKey` | `Relay_proofs` | `Spec => []MemoryMatchesStorage` |
| `ClientTypes` | `Client_proofs` | `Spec => []ClientTypeOK` |
| `ReloadRestores` | `Client_proofs` | `Spec => []ReloadRestoresSession` |
| `LoginIsLeft` | `Client_proofs` | `Spec => []SignedInLeavesLogin` |
| `NeverSomebodyElsesData` | `Client_proofs` | `Spec => []NobodyElsesData` |
| `LateAnswersNeverShown` | `Client_proofs` | `Spec => LateAnswersDropped` |
| `ScanAlwaysEnds` | `Client_proofs` | `Spec => []ScanNeverStuck` |
| `NothingMisread` | `Client_proofs` | `Misreading = {}` |
| `DecodersAgree` | `Client_proofs` | `Spec => []DecodersMatchStructs` |

**Books.** `TypeCorrect` and `BooksCoverBalances` come from the inductive invariant

    BooksInv == TypeOK /\ Accounts /\ Unopened /\ TrackedCoversBalance

`TrackedCoversBalance` is not inductive alone. The hook decides by flags in the accounts whether to
deduct, so one must know who can carry which flag (`Accounts`: owners never change, no account of this module
is an intermediary, only the treasury's and the pools' are special); and opening an account resets its
books, so one must know that an account that is not open has none (`Unopened`). `BurnBooks` is the case
of a burn: where books and tokens are of one owner they move together, else both owners are `misbooked` from then on. The argument goes up in
three layers: `TransferHook_proofs` shows for each pure operation that it returns a well-formed account,
keeps the identity and moves the books by exactly its amount (`ReceiveTracked`, `FifoDeductTracked`,
`BurnedType`, `LockedType`), and lifts that to each path's outcome; `TokenFlow_proofs`
combines the paths (`HookBooks`) with Token-2022's balance update, where the only arithmetic is that the
fee is never negative and zero at rate zero (`FeeArithmetic`), and has one step per action (`NextBooks`).

**Limits and the lock of a wallet.** `HookFrame` goes through the six paths and shows that a receiver keeps its
share counter and its pending redemption, and that a sender's counter moves only in a peer transfer the limit
allows and its redemption only when none was pending. `StepKinds` says what any step does to one owner's counter
and lock. `DailyShareLimit` speaks of the shares really made and the code only looks at a counter, so it is
inductive with `ShareCount`: shares were made today only if the counter is of today, and it is at least their
number. Opening an account resets the counter; `Unopened` says it was zero. The invariant is
`ShareInv == BooksInv /\ ShareCount /\ DailyShareLimit`.

**Order of spending.** `HookOrder` shows that on every path what leaves the sender is nothing or a FIFO deduction,
directly, under the lock or after the share was counted; `FifoOrder` and `BurnOrder` are the arithmetic of the two
splits; receiving never lowers the books (`HookBooks`).

**The ring.** The invariant is `BufferInv == BooksInv /\ BufferWindow`. `RingPosition` turns the modulus of
`PendingWindow` into a case on whether the window wraps; with it `WindowGrows` shows that a write at the head
extends the window by exactly the slot behind which it lies, and that this slot is outside the window unless the
buffer is full. Every step then does one of three things to a ring (`StepRings`): keeps it, writes one entry while
there is room, or finalises it (`RingKept`). `NoAttributionLost` follows because a write never meets a live entry.

**The supply.** A recipient's counters overflow only if one wallet could come to hold more than `MaxU64`, so
`RecipientNeverBlocks` rests on the sum of all balances. `Held` counts a customer's books (which cover the tokens)
and the others' tokens; the invariant is

    SupplyInv == BooksInv /\ Solvent /\ Total(Held, Owner) <= Supply

`Supply_proofs` first proves what it needs of sums over a finite set: a sum exists and is unique, and replacing, adding
or removing one term changes it by that term (`TotalUpdate`, `TotalRemove`, `TotalCovers`). The library's induction
theorems cannot be instantiated, so the induction is done by hand: a finite set of counterexamples has a smallest one
(`SmallestSubset`). Then a transfer takes from one owner at least what the other receives (`TransferHoldings`), a burn
takes from the books of one owner and the tokens of one, the same or another (`BurnHoldings`, `TotalShrinks`). A customer
whose tokens no books cover cannot send them (`VerdictCovered`), so nothing is received beyond what the books hold. With the bound, `ReceiveFits` shows that a receipt into any account fits u64, and
`HookVerdict` that the six paths then answer as they would for a fresh account.

**The ledger.** `Commission_proofs` extends `BooksInv` to

    CommissionInv == BooksInv /\ AccountsOK /\ HistoriesOK /\ TimeoutsCostReputation

`CommissionBooks` repeats the step argument for the instructions that change an account without moving tokens
(`StillAccount`) and for a claim, whose amount is the cast `gross_to_send` (`GrossType`). `HistoriesOK` says of each
ledger that it is `LedgerGood`: it earned what is claimable, was claimed or was forfeited, and what accrued is what it
earned plus dust plus what claims wiped. Each instruction rewrites one ledger (`OneLedger`), and there is one lemma per
kind of rewrite: `CreditGood` (with `DustArithmetic`: whole tokens, dust and the token made of dust add up),
`ClaimGood`, `FreezeGood`, `ForfeitGood`. `RecordsWithinLedger` sums over the records that name
a referrer: `RecordsInv == CommissionInv /\ RecordsSum`. A settlement adds one commission to one record and to that
record's ledger (`SettleRecords`); closing a record or attributing a referral replaces it by one that has earned
nothing (`TotalAround`, `AttributeRecords`).

**What a claim pays.** The supply bound carries over to the commission loop (`CommissionSupply`): a settlement moves no
tokens, an attribution no books, and a claim is a transfer from the treasury to whomever it names. `GrossArithmetic` is about the two
roundings alone: for a claim of c at fee rate f, the gross amount `(c * 10000) \div (10000 - f)` less the fee rounded up is
c or c - 1, and c where the division leaves no rest. `ClaimPays` adds that the cast to u64 keeps a gross amount that fits
(`UncutGross`), and `ClaimsAreClaims` that only `claim_commission` raises `total_claimed`, so the action property is
about every step.

**The refinement of the lock.** `OneLock` says that a step moves the redemption lock of at most one owner: it leaves it
alone, moves one that was not pending, settles one due slot, or ends a redemption that owes nothing (`LockMoves`);
`CommissionLock` proves it for every action, and `LockSteps` reads the result as a step of `RedemptionLock` or a
stutter under the mapping of `Commission!Lock`.

**What a redemption charges.** `SupplyInv /\ ChargedInv` is inductive, where `ChargedInv` says of each customer's account
that it is `Modest`: no slot is charged beyond its attribution, nothing is charged while no redemption is pending, and no
attribution exceeds the supply. The second part matters because an attribution rewrites the slot it takes; the supply
because `tokens_attributed` outlives the Gen-2 balance it was checked against, so the balance of the moment says nothing
of it. A share is `consumed * attributed \div gen2_balance` with `consumed` at most that balance
(`transfer_hook.rs:159-171`), hence at most what was attributed. `RedemptionGoesThrough` is then no accident of
bounds: the books cover the amount, so the unchecked subtraction from the dead balance does not underflow
(`CoveredFits`, for whoever is not `misbooked`), and both factors of every product are within the supply (`ProductsFit`).

**The rate limiter.** The invariant is `LimiterInv == LimiterTypeOK /\ Past /\ Linked /\ Bounded`: entries are of the
past, what a list still holds of the window is what the history holds (`Linked`), and no window of the history exceeds
the limit (`Bounded`). The limiter looks only at the window ending now; a window ending later holds no more of today's
entries than that one does.

**The relayer.** `LimiterSteps` shows that every step of `Relay` is a step of the limiter or leaves its variables alone,
which carries the theorems of the limiter over to the composition. The invariant of the whole is

    RelayInv == LimiterInv /\ refused \subseteq Entry /\ now <= MaxTime /\ KeysInv /\ PipeInv

`PipeInv` has the types and, for each request, `Coherent`: what client, server and network see of it fits together. A
request goes past the first checks only with a transaction; success needs a 200 and that a broadcast; and a request
that is about to be sent or is under way would succeed if executed now, unless it was overtaken. The last is what makes
`RevertedOnlyIfOvertaken` inductive: `LandInv` uses that a landing which changes the accounts overtakes every other
request. `RunKeeps` proves that each instruction
keeps `Bonded`: some merchant has begun to close, which is never undone, or every bond covers its minimum. `WithdrawKeeps`
is the saturated comparison followed by a plain subtraction, `RedeemKeeps` that a share needs a config that exists and
is not active, whichever bond it is taken from.

**The app.** The invariant is `ClientInv == SignInInv /\ FeedInv /\ ScanInv`. `SignInInv` joins `ReloadRestoresSession`
and `SignedInLeavesLogin` with `Provider`: until the session is read there is neither account nor modal, and the modal
is open only while nobody is signed in. `FeedInv` follows whose answers can still reach the mounted hook. `Owners` is
the build's shop as long as somebody may sign in without the page being left (`Early`); the account and the shop while
somebody is signed in; anyone after a sign-out, because the hook of the settings page keeps its requests. From there
nobody can sign in before the login page was visited, where no hook is mounted (`LoginUnmounted`). `WalletMoves` goes
through the events of the tab and shows that on a page that stays `Owners` only grows, and so does `Allowance`, the
number of requests that may be in flight: one more for each change of the wallet.

**The decoders.** `InStepReads` is about any struct and any decoder whose readers are the types of the struct's fields in their
order: each reads the bytes of its field. The running offset and the concatenation that lays an account out are recursive
functions (a fold, inside `FlattenSeq`), and the library's induction theorems cannot be used, so `ReachesAll` restates
induction up to a number for sets instead of predicates; `Iterates` and `FlattenSteps` turn the definitions into equations
from one field to the next, and `FindsItsOwn` goes along both at once: the first j fields take the bytes up to where the
next begins, and the i-th keeps its own when more are appended. Each layout is then a comparison of two lists
(`ConfigMirrors` to `OpenDisputeMirrors`), and the filters of the list hooks are one more reader (`FilterReads`).

Assumptions used: `WidthAssumption`, `BufferAssumption`, `SlotsAssumption`, `RolesAssumption` (customers,
merchant, treasury, pools and vaults are different keys), `MintedAssumption` (tokens are minted to the
merchant and the treasury), `ConfigsAssumption`, `AmountsAssumption`, `ClockAssumption`, `MerchantAssumption`,
`BpsAssumption`, `LifetimesAssumption`, `ContestedAssumption`, `SuspicionsAssumption`, `SupplyAssumption`
(finitely many owners; what is minted fits u64, as a mint's supply does); `LimiterAssumption` (finitely many requests,
natural window, limit and time), `KeysAssumption`, `ChainAssumption`, `ScenarioAssumption` (payloads are
instructions of the program with natural arguments or no transaction at all, the initial accounts are well formed and
their bonds cover their minimum; no instruction of the program sets a bond up); `SignInAssumption`, `FeedAssumption`
(signed-in accounts and the build's shop are addresses; the tokens for "nothing", "missing" and "unreadable" are not
values of the types they stand beside; at least one poll may be in flight), `TimersAssumption`.

Model-checked only:

* `RedemptionReopens`, `EventuallyCurrent`, `EveryRequestResolves`, `HealthDecides`, `ConfigurationFound`:
  liveness; the prover handles neither `ENABLED` nor fairness;
* the properties of the other runs that expect a violation.

## Observed while modelling, without a run

On chain:

* Pro-rata shares divide by the Gen-2 balance of the moment while `tokens_attributed` is never reduced, so
  shares can exceed what the redemption consumed (`transfer_hook.rs:164-171`, `ARCHITECTURE_V4.md:86`).
* A claim discards the ledger's dust (`claim_commission.rs:68-69`) where `PUBLIC_RELEASE.md:16` says "Not a
  single penny is lost"; the modelled ledger identity counts it as `wiped`.
* The instructions listed under "Not assumed" above compare fewer accounts than their names suggest: a burn may leave
  books below tokens, a claim pays the account it is given, a bond share needs only that some merchant is closing.
* No instruction sets `max_tokens_per_referral`; as created a configuration lets no positive peer share
  through, hence `CreatedConfigWithMax`.
* Gen-2 tokens whose sharing is allowed arrive as dead passes without a referrer
  (`transfer_hook.rs:255-257`, against `merchant_guide.md:64`).
* Age counts from a wallet's first receipt, not from the tokens' (`transfer_hook.rs:148`).
* A pool's record is never credited, yet sending from it deducts, so a pool with tokens cannot pay out
  (`transfer_hook.rs:136-139`, against `README.md:83` "Transfers always succeed").
* `commission_settled` is written nowhere, so a record that ever earned can never be closed.
* Finalising a close before one was initiated passes, the window's end being zero (`bond_management.rs:97`), and a
  holder may redeem a bond share repeatedly (`bond_management.rs:129`).

Relayer and app:

* A transaction that was simulated may still revert and be paid for, against `index.ts:98`;
  `RevertedOnlyIfOvertaken` says exactly when.
* `relayTransaction` calls `tx.serialize()` with the default checks, which throws for a legacy transaction that
  lacks the relayer's signature, the case its header describes (`lib/relayer.ts:7-8`).
* `destroySessionKey` is "Called on logout" (`session-keys.ts:146`) and `markSessionKeyRegistered` marks a
  registration, but nothing calls either (no file of the repository uses `session-keys.ts`); the relayer's success means broadcast, not landed.
* The "Switch Role" button cannot reach the role chooser: the login page sends a user with an account and a role
  home at once (`settings/page.tsx:138-142`, `login/page.tsx:24-28`).
* `setRole` rewrites the session another tab has saved meanwhile (`auth.tsx:100`); `vs-user-role` is written and
  never read; two names that agree in 32 bytes are one account (`auth.tsx:116`).
* A failure of the node is shown as an account that does not exist (`hooks.ts:55-57`). The ledger hook is always given
  a null merchant. `types.ts:3` ("exactly matches") does not hold of `TokenGeneration` and `InboundEntry`, though the
  decoder does read them right. The list of disputes is asked for by a fixed size (`hooks.ts:387`). A u64 beyond 2^53
  loses its last digits in `Number`.
* The scan page's timers are never cleared, so the result of a scan may vanish early.

## Not modelled

* **Escrow shares.** `create_escrow_share` and `claim_escrow` transfer by a call into Token-2022, whose hook calls
  this program again: indirect re-entry, which the Solana runtime refuses, so neither can succeed. Were it
  allowed, Anchor would write the copies read before the call over what the hook wrote. `harvest` is empty. The hook's
  `release` path is an operator of `TransferHook`, composed by no action.
* **Geofencing** (a pure check read by nothing) and **the viral oracle** (stores its arguments; its layout is in
  `Layouts`). On-chain session keys are created and revoked in `Relay`; no instruction reads them.
* **Cranks** log what they would submit and send nothing; the fairness of `Commission_lock` stands for working
  ones. **The actions server, the POS and web clients, the launch scripts and tests** are stateless or placeholders
  (the POS `RedemptionScanner` and the web client's sign-in are mocks).
* Display helpers and formatting of the app; fields of accounts that nothing reads, named at the head of each module.
  `timeout_disputes * 500` in 32 bits is not bounded. `PROJECT.json` lists each part with its reason.

## What is left

Everything the source does that can be modelled faithfully is, and every safety property of the passing runs is
proved; what stays with TLC is liveness. Worth proving next are properties no
run needs so far, such as what a closed merchant's bond can pay at most. Escrow becomes worth a module if the runtime
comes to allow the re-entry it relies on.
