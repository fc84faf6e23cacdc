------------------------------ MODULE TokenFlow ------------------------------
(***************************************************************************)
(* The life of one merchant's token: transfers under the hook, the         *)
(* finalisation of inbound buffers, burns, and the redemption lock of      *)
(* wallets without referrer slots (no instruction of the program fills     *)
(* one).  One action per path of the hook and per instruction.             *)
(*                                                                         *)
(* External: the Token-2022 program (balances, its transfer fee, calling   *)
(* the hook on every transfer with the accounts derived from the owners of *)
(* the two token accounts), the runtime (a transaction commits whole or    *)
(* not at all, transactions on one account take turns), the clock, and the *)
(* registration of vaults and DEX pools, which no instruction performs.    *)
(*                                                                         *)
(* Assumed of callers: execute_transfer_hook is a public instruction and   *)
(* asks neither whether a transfer is under way nor whether the config is  *)
(* that of the mint; here it runs only inside a transfer of this mint,     *)
(* with this mint's config.  burn_tokens asks for no relation between the  *)
(* books it lowers and the tokens it burns, and none is assumed.           *)
(***************************************************************************)
EXTENDS TransferHook, Functions

CONSTANTS
    Wallet,          \* customers
    Treasury,        \* owner of the treasury's token account, or NoOwner
    Pools,           \* owners of DEX pool token accounts
    Vaults,          \* owners of registered redemption vaults
    Configs,         \* the merchant configurations considered
    Minted,          \* [Owner -> Nat]: what was minted to whom
    Amounts,         \* amounts of a transfer or burn
    Genesis,         \* the clock when the merchant starts: 0 means "never"
    MaxTime          \* bound on the clock

ASSUME RolesAssumption ==
    /\ Wallet \subseteq Owner /\ Pools \subseteq Owner /\ Vaults \subseteq Owner
    /\ Treasury \in Owner \cup {NoOwner}
    /\ Merchant \notin Wallet
    /\ Treasury \notin Wallet
    /\ Pools \cap Wallet = {} /\ Vaults \cap Wallet = {}
    /\ Merchant \notin Pools /\ Merchant # Treasury /\ Treasury \notin Pools
ASSUME ConfigsAssumption == Configs \subseteq MerchantConfig
ASSUME MintedAssumption ==
    /\ Minted \in [Owner -> Nat]
    /\ \A o \in Wallet : Minted[o] = 0        \* minted to the merchant and the treasury
\* External: Token-2022 keeps the supply of a mint in a u64.
ASSUME SupplyAssumption ==
    /\ IsFiniteSet(Owner)
    /\ FoldFunctionOnSet(+, 0, Minted, Owner) <= MaxU64
ASSUME AmountsAssumption == Amounts \subseteq U64
ASSUME ClockAssumption == Genesis \in Nat \ {0} /\ MaxTime \in Nat

VARIABLES
    gen,             \* the TokenGeneration accounts
    initialized,     \* owners whose account exists
    tokens,          \* token balances, summed over an owner's token account
    config,          \* the MerchantConfig account
    now,             \* Clock: unix_timestamp and slot
    sharesMade,      \* history: peer transfers made since the day began
    misbooked        \* history: owners of books and tokens a burn did not match

vars == <<gen, initialized, tokens, config, now, sharesMade, misbooked>>

-----------------------------------------------------------------------------

Init ==
    /\ gen = [o \in Owner |-> FreshGeneration(o)]
    /\ initialized = {}
    /\ tokens = Minted
    /\ config \in Configs
    /\ now = Genesis
    /\ sharesMade = [o \in Owner |-> 0]
    /\ misbooked = {}

\* The deployment opens the treasury's account with the other instruction.
InitTokenGeneration(o) ==
    /\ o \notin initialized
    /\ o # Treasury
    /\ initialized' = initialized \cup {o}
    /\ gen' = [gen EXCEPT ![o] = FreshGeneration(o)]
    /\ UNCHANGED <<tokens, config, now, sharesMade, misbooked>>

InitTreasuryTokenGeneration(o) ==
    /\ o \notin initialized
    /\ o = Treasury
    /\ initialized' = initialized \cup {o}
    /\ gen' = [gen EXCEPT ![o] = TreasuryGeneration(o)]
    /\ UNCHANGED <<tokens, config, now, sharesMade, misbooked>>

\* External: is_dex_pool is read by the hook and set by no instruction.
RegisterDexPool(o) ==
    /\ o \in Pools \cap initialized
    /\ ~gen[o].is_dex_pool
    /\ tokens[o] = 0
    /\ gen' = [gen EXCEPT ![o].is_dex_pool = TRUE]
    /\ UNCHANGED <<initialized, tokens, config, now, sharesMade, misbooked>>

-----------------------------------------------------------------------------
(* Transfers *)

\* External: Token-2022 withholds the fee from what arrives, rounding up, and
\* shows the hook the gross amount.
TransferFee(n) == (n * config.transfer_fee_bps + 9999) \div 10000

ToVault(d) == d \in Vaults

Hook(s, d, n) == ExecuteTransferHook(config, now, gen[s], gen[d], ToVault(d), n)

\* One transfer on the given path of the hook, if the hook lets it through.
Transfer(path, s, d, n) ==
    /\ s # d
    /\ {s, d} \subseteq initialized
    /\ tokens[s] >= n
    /\ HookPath(gen[s], gen[d], ToVault(d)) = path
    /\ Hook(s, d, n).ok
    /\ gen' = [gen EXCEPT ![s] = Hook(s, d, n).src, ![d] = Hook(s, d, n).dst]
    /\ tokens' = [tokens EXCEPT ![s] = @ - n, ![d] = @ + n - TransferFee(n)]
    /\ UNCHANGED <<initialized, config, now, misbooked>>

PayFromTreasury(s, d, n) == Transfer("treasury", s, d, n) /\ UNCHANGED sharesMade

TransferDex(s, d, n) == Transfer("dex", s, d, n) /\ UNCHANGED sharesMade

Redeem(s, d, n) == Transfer("redemption", s, d, n) /\ UNCHANGED sharesMade

Issue(s, d, n) == Transfer("issuance", s, d, n) /\ UNCHANGED sharesMade

PeerShare(s, d, n) ==
    /\ Transfer("peer", s, d, n)
    /\ sharesMade' = [sharesMade EXCEPT ![s] = @ + 1]

-----------------------------------------------------------------------------
(* The other instructions *)

FinalizeInbound(o) ==
    /\ o \in initialized
    /\ gen' = [gen EXCEPT ![o] = Finalized(@)]
    /\ UNCHANGED <<initialized, tokens, config, now, sharesMade, misbooked>>

\* The books of o and the tokens of b, who signs.  The program does not ask
\* that they belong together, nor that the tokens are of this mint: NoOwner
\* stands for the holder of another one.
BurnTokens(o, b, n) ==
    /\ o \in initialized
    /\ Burnable(gen[o], n)
    /\ b \in Owner => tokens[b] >= n
    /\ gen' = [gen EXCEPT ![o] = Burned(@, n)]
    /\ tokens' = [x \in Owner |-> IF x = b THEN tokens[x] - n ELSE tokens[x]]
    /\ misbooked' = IF b = o THEN misbooked ELSE misbooked \cup ({o, b} \cap Owner)
    /\ UNCHANGED <<initialized, config, now, sharesMade>>

ClearRedemptionPending(o) ==
    /\ o \in initialized
    /\ gen[o].redemption_pending
    /\ RedemptionSettled(gen[o])
    /\ gen' = [gen EXCEPT ![o] = Unlocked(@)]
    /\ UNCHANGED <<initialized, tokens, config, now, sharesMade, misbooked>>

\* External: the clock.
Tick ==
    /\ now < MaxTime
    /\ now' = now + 1
    /\ sharesMade' = IF Today(config, now') = Today(config, now)
                     THEN sharesMade
                     ELSE [o \in Owner |-> 0]
    /\ UNCHANGED <<gen, initialized, tokens, config, misbooked>>

Next ==
    \/ \E o \in Owner :
        \/ InitTokenGeneration(o)
        \/ InitTreasuryTokenGeneration(o)
        \/ RegisterDexPool(o)
        \/ FinalizeInbound(o)
        \/ ClearRedemptionPending(o)
        \/ \E b \in Owner \cup {NoOwner}, n \in Amounts : BurnTokens(o, b, n)
    \/ \E s, d \in Owner, n \in Amounts :
        \/ PayFromTreasury(s, d, n)
        \/ TransferDex(s, d, n)
        \/ Redeem(s, d, n)
        \/ Issue(s, d, n)
        \/ PeerShare(s, d, n)
    \/ Tick

Spec == Init /\ [][Next]_vars

-----------------------------------------------------------------------------
(* Correctness *)

TypeOK ==
    /\ gen \in [Owner -> TokenGeneration]
    /\ initialized \subseteq Owner
    /\ tokens \in [Owner -> Int]
    /\ config \in MerchantConfig
    /\ now \in Nat \ {0}
    /\ sharesMade \in [Owner -> Nat]
    /\ misbooked \subseteq Owner

\* The books of a customer cover the tokens the customer holds, so that no spend
\* of tokens one really has can panic in the dead-balance subtraction; without a
\* transfer fee books and balance agree exactly.  Only a burn that named books
\* and tokens of two owners breaks this, and only for these two: whatever they
\* do next, the difference does not spread to the customers they deal with.
TrackedCoversBalance ==
    \A o \in Wallet \ misbooked :
        /\ tokens[o] <= Tracked(gen[o])
        /\ config.transfer_fee_bps = 0 => tokens[o] = Tracked(gen[o])

\* The entries finalize_inbound has not seen are inside the buffer_pending
\* positions behind buffer_head: the next write, at the head, meets one only
\* when the buffer is full, and then write_inbound refuses.
PendingWindow(g) ==
    {i \in Index : (i - g.buffer_head + g.buffer_pending) % BufferSize < g.buffer_pending}

BufferWindow ==
    \A o \in Owner, i \in Index :
        Live(gen[o].inbound_buffer[i]) => i \in PendingWindow(gen[o])

AttributionsKept ==
    \A o \in initialized, i \in Index :
        Live(gen[o].inbound_buffer[i])
            => \/ gen'[o].inbound_buffer[i] = gen[o].inbound_buffer[i]
               \/ gen'[o].inbound_buffer[i] = FinalizedEntry(gen[o].inbound_buffer[i])
                  /\ gen'[o].buffer_pending = 0

\* An attribution waiting in the buffer is there until finalize_inbound has
\* processed it; no burst of transfers overwrites it.
NoAttributionLost == [][AttributionsKept]_vars

\* README: "Transfers always succeed; only attribution is lost."  Whether a
\* transfer goes through never depends on the inbound buffer or the redemption
\* lock of the customer who receives it.
RecipientNeverBlocks ==
    \A s \in initialized, d \in Wallet \cap initialized, n \in Amounts :
        s # d /\ tokens[s] >= n
            => (Hook(s, d, n).ok
                  <=> ExecuteTransferHook(config, now, gen[s], FreshGeneration(d), ToVault(d), n).ok)

\* No customer makes more peer transfers in a day than the merchant allows;
\* a limit of zero still admits the first of each day, which the restarted
\* count never compares with the limit.
DailyShareLimit ==
    \A o \in Owner :
        sharesMade[o] <= (IF config.max_referrals_per_wallet_per_day = 0
                          THEN 1 ELSE config.max_referrals_per_wallet_per_day)

SpentInOrder ==
    \A o \in Wallet :
        LET before == gen[o]
            after == gen'[o]
        IN Tracked(after) < Tracked(before)
             => \/ /\ after.gen2_balance < before.gen2_balance => after.gen1_balance = 0
                   /\ after.dead_balance < before.dead_balance
                        => after.gen1_balance = 0 /\ after.gen2_balance = 0
                \/ /\ \E b \in Owner \cup {NoOwner}, n \in Amounts : BurnTokens(o, b, n)
                   /\ after.gen2_balance < before.gen2_balance => after.dead_balance = 0
                   /\ after.gen1_balance < before.gen1_balance
                        => after.dead_balance = 0 /\ after.gen2_balance = 0

\* Spending consumes Gen-1 before Gen-2 before dead, burning the reverse.
SpendingOrder == [][SpentInOrder]_vars

RedemptionKept ==
    \A o \in Owner :
        gen[o].redemption_pending /\ gen'[o].redemption_pending
            => /\ gen'[o].redemption_gen2_consumed = gen[o].redemption_gen2_consumed
               /\ gen'[o].redemption_slot_consumed = gen[o].redemption_slot_consumed

\* The share of one redemption is fixed by its lock: until the lock is cleared
\* nothing the wallet sends or receives changes what its referrers are owed.
LockFreezesRedemption == [][RedemptionKept]_vars

\* A customer is never shut out of redeeming for good: again and again the
\* buffer is empty and no earlier redemption is in the way.
RedemptionReopens ==
    \A o \in Wallet : []<>(gen[o].buffer_pending = 0 /\ ~gen[o].redemption_pending)

-----------------------------------------------------------------------------
(* Claims of the repository the code does not meet *)

\* errors.rs: "Gen2 transfer not allowed by merchant".  Where it is not allowed
\* no wallet passes Gen-2 tokens on.
NoGen2Passed ==
    [][~config.allow_second_gen_transfer
        => \A s \in Wallet : \A d \in Owner, n \in Amounts :
            PeerShare(s, d, n) => gen'[s].gen2_balance = gen[s].gen2_balance]_vars

\* claim_commission.rs: a payout is tagged "identically as Gen-1 tokens issuance".
PayoutBookedAsIssuance ==
    [][\A d \in Wallet, n \in Amounts :
        PayFromTreasury(Treasury, d, n)
            => gen'[d] = IssuanceOutcome(now, gen[Treasury], gen[d], n).dst]_vars

=============================================================================
