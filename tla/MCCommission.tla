---------------------------- MODULE MCCommission ----------------------------
(* Commission instances for TLC. *)
EXTENDS Commission, TLC

CONSTANTS merchant, alice, bob, carol, vault, treasury, pool, none

\* Shares of up to two tokens, no hold time, no expiry.
LoopConfig ==
    [min_hold_before_share_secs |-> 0,
     min_tokens_per_referral |-> 1,
     max_tokens_per_referral |-> 2,
     max_referrals_per_wallet_per_day |-> 5,
     allow_second_gen_transfer |-> FALSE,
     slots_per_day |-> 100,
     token_expiry_days |-> 0,
     transfer_fee_bps |-> 0]
LoopConfigs == {LoopConfig}
\* Without a transfer fee and with two, one of which divides every claim.
FeeConfigs == {[LoopConfig EXCEPT !.transfer_fee_bps = fee] : fee \in {0, 2500, 5000}}

Stock(owners, shop, reserve) ==
    [o \in owners |-> CASE o = merchant -> shop [] o = treasury -> reserve [] OTHER -> 0]

\* Alice refers bob and is paid by the treasury.
LoopOwner == {merchant, alice, bob, vault, treasury}
LoopWallet == {alice, bob}
LoopMinted == Stock(LoopOwner, 4, 2)
\* Bound: tokens go from the merchant to alice to bob to the vault.
OneWay ==
    /\ \A o \in Owner \ {alice, bob} : gen[o].buffer_pending = 0
    /\ gen[bob].shares_today = 0
    /\ ~gen[alice].redemption_pending

\* Bound: half of what was redeemed is commission, or all of it where a fee is taken.
RateByFee ==
    \A o \in Owner, i \in SlotIndex :
        record[o][i].committed_commission_bps
            \in {0, IF config.transfer_fee_bps = 0 THEN 5000 ELSE 10000}

\* Bound: the accounts exist before the first token moves.
OpenedFirst == tokens = Minted \/ initialized = Owner

\* Bound: tokens are spent by shares and redemptions, not by burns.
NoBurns ==
    \A o \in Owner :
        Tracked(gen'[o]) < Tracked(gen[o])
            => \/ gen'[o].redemption_pending # gen[o].redemption_pending
               \/ gen'[o].shares_today # gen[o].shares_today
               \/ gen'[o].share_limit_day # gen[o].share_limit_day

\* Bound: the merchant issues two tokens, one more for each quarter the fee takes,
\* and the clock moves after that.
Kept == 2 - (config.transfer_fee_bps \div 2500)
IssuedFirst ==
    /\ tokens[merchant] >= Kept
    /\ now = Genesis \/ tokens[merchant] = Kept

\* Alice and carol both refer bob; there is a pool to trade with.  OneWay and
\* OpenedFirst also bound the liveness property of this instance.  The actions it
\* takes to be fair (FinalizeInbound, ProcessRedemptionSlot,
\* ClearRedemptionPending) make none of the two false, so no behaviour is cut
\* off while one of them is due.
SlotsOwner == {merchant, alice, bob, carol, vault}
SlotsWallet == {alice, bob, carol}
TradingOwner == SlotsOwner \cup {pool}
TradingMinted == Stock(TradingOwner, 3, 0)

\* Alice refers bob and carol, who share nothing on.
ContestedMinted == Stock(SlotsOwner, 2, 0)
OneSource ==
    /\ \A o \in {merchant, vault} : gen[o].buffer_pending = 0
    /\ \A o \in {bob, carol} : gen[o].shares_today = 0 /\ gen[o].gen1_balance = 0
    /\ ~gen[alice].redemption_pending

\* No treasury.
SmallOwner == {merchant, alice, bob, vault}
SmallMinted == Stock(SmallOwner, 2, 0)

\* A fee that takes all of a payout of one token.
DearConfigs == {[LoopConfig EXCEPT !.transfer_fee_bps = 2500]}
=============================================================================
