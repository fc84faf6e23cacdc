---------------------------- MODULE MCTokenFlow ----------------------------
(* TokenFlow instances for TLC. *)
EXTENDS TokenFlow, TLC

CONSTANTS merchant, alice, bob, vault, pool, treasury, none

Customers == {alice, bob}
Symmetry == Permutations(Customers)

\* A merchant that set every limit: shares of 1 or 2 tokens, one per day of two
\* seconds, after one second, tokens good for one day.
StrictConfig ==
    [min_hold_before_share_secs |-> 1,
     min_tokens_per_referral |-> 0,
     max_tokens_per_referral |-> 2,
     max_referrals_per_wallet_per_day |-> 1,
     allow_second_gen_transfer |-> FALSE,
     slots_per_day |-> 2,
     token_expiry_days |-> 1,
     transfer_fee_bps |-> 0]

\* Gen-2 sharing allowed, no hold time or expiry, a limit of two shares.
OpenConfig ==
    [StrictConfig EXCEPT !.min_hold_before_share_secs = 0,
                         !.max_referrals_per_wallet_per_day = 2,
                         !.allow_second_gen_transfer = TRUE,
                         !.token_expiry_days = 0]

\* The same with a transfer fee of one half, rounded up.
FeeConfig == [OpenConfig EXCEPT !.transfer_fee_bps = 5000]

\* create_mint_and_config's zeros but for the largest share, without which no
\* share passes: a daily limit of 0, slots_per_day 0.
CreatedConfigWithMax == [CreatedConfig(0, 0) EXCEPT !.max_tokens_per_referral = 2]

AllConfigs == {StrictConfig, OpenConfig, FeeConfig, CreatedConfigWithMax}
OnceConfigs == {[OpenConfig EXCEPT !.max_referrals_per_wallet_per_day = 1]}
DepthConfigs == {[OpenConfig EXCEPT !.allow_second_gen_transfer = FALSE]}

MintTo(o, n, owners) == [x \in owners |-> IF x = o THEN n ELSE 0]

\* Two customers and the merchant.
SharingOwner == {merchant, alice, bob}
SharingMinted == MintTo(merchant, 2, SharingOwner)
DepthMinted == MintTo(merchant, 4, SharingOwner)

\* Every kind of counterparty.
MarketOwner == {merchant, alice, bob, vault, pool, treasury}
MarketMinted == [MintTo(merchant, 2, MarketOwner) EXCEPT ![treasury] = 1]

\* Bounds: nobody but the customers is sent tokens that would be booked; in the
\* market the accounts exist before the first token moves and burns name books and
\* tokens of one owner, the others being the sharing run's.
NoReturns == \A o \in {merchant, treasury, vault} \cap Owner : gen[o].buffer_pending = 0
Matched == misbooked = {}
OpenedFirst ==
    \/ tokens = Minted
    \/ initialized = Owner /\ \A p \in Pools : gen[p].is_dex_pool
=============================================================================
