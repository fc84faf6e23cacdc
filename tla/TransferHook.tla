---------------------------- MODULE TransferHook ----------------------------
(***************************************************************************)
(* execute_transfer_hook (instructions/transfer_hook.rs): what one         *)
(* Token-2022 transfer does to the TokenGeneration accounts of its two     *)
(* ends.  The handler's early returns make six disjoint paths; HookPath    *)
(* names the one a transfer takes and there is one operator per path,      *)
(* giving the outcome as a record                                          *)
(*     [ok, src, dst]                                                      *)
(* where ok says the instruction returned Ok(()) without a panic.          *)
(***************************************************************************)
EXTENDS Generation

CONSTANTS
    Merchant,     \* config.merchant
    Day           \* seconds the hook counts to a day of token age, 86400

ASSUME MerchantAssumption == Merchant \in Owner
ASSUME DayAssumption == Day \in Nat \ {0}

\* The fields of MerchantConfig the instructions modelled here read.
MerchantConfig ==
    [min_hold_before_share_secs : Nat,
     min_tokens_per_referral : U64,
     max_tokens_per_referral : U64,
     max_referrals_per_wallet_per_day : Nat,
     allow_second_gen_transfer : BOOLEAN,
     slots_per_day : Nat,
     token_expiry_days : Nat,
     transfer_fee_bps : 0..9999]

\* A config as create_mint_and_config leaves it: rates and hold time are
\* arguments, every other field is the zero the account was allocated with.
CreatedConfig(hold, fee) ==
    [min_hold_before_share_secs |-> hold,
     min_tokens_per_referral |-> 0,
     max_tokens_per_referral |-> 0,
     max_referrals_per_wallet_per_day |-> 0,
     allow_second_gen_transfer |-> FALSE,
     slots_per_day |-> 0,
     token_expiry_days |-> 0,
     transfer_fee_bps |-> fee]

-----------------------------------------------------------------------------

FromMerchant(src) == src.owner = Merchant

\* The order of the handler's early returns.
HookPath(src, dst, toVault) ==
    IF src.is_treasury THEN "treasury"
    ELSE IF src.is_dex_pool \/ dst.is_dex_pool THEN "dex"
    ELSE IF toVault /\ ~FromMerchant(src) THEN "redemption"
    ELSE IF FromMerchant(src) THEN "issuance"
    ELSE IF src.is_intermediary THEN "release"
    ELSE "peer"

Outcome(guard, src, dst) ==
    [ok |-> guard /\ Fits(src) /\ Fits(dst), src |-> src, dst |-> dst]

\* Age counts from the first receipt ever, not from the tokens being spent.
Expired(config, now, src) ==
    /\ ~src.is_intermediary
    /\ config.token_expiry_days > 0
    /\ (now - src.first_received_at) \div Day > config.token_expiry_days

\* Commission payout: booked like an issuance, no timestamps, no deduction
\* from the treasury's symbolic balance.
TreasuryOutcome(src, dst, n) ==
    Outcome(TRUE, src, Receive(dst, NewEntry(NoOwner, n, "Issuance")))

\* To or from a DEX pool: what arrives at a wallet is dead, a pool's own
\* record is never credited.
DexOutcome(src, dst, n) ==
    Outcome(TRUE,
            IF src.is_intermediary \/ FromMerchant(src) THEN src ELSE FifoDeduct(src, n),
            IF dst.is_dex_pool \/ dst.is_intermediary
            THEN dst
            ELSE [dst EXCEPT !.dead_balance = @ + n])

\* Mutant: a second redemption may start over a pending one.
RedemptionOutcomeUnlocked(config, now, src, dst, n) ==
    Outcome(/\ ~Expired(config, now, src)
            /\ src.buffer_pending = 0
            /\ SharesFit(src, FromGen2(src, n)),
            LockedForRedemption(src, n),
            dst)

\* To a registered vault: spend, take the lock, leave the vault's record alone.
RedemptionOutcome(config, now, src, dst, n) ==
    Outcome(/\ ~Expired(config, now, src)
            /\ src.buffer_pending = 0
            /\ ~src.redemption_pending
            /\ SharesFit(src, FromGen2(src, n)),
            LockedForRedemption(src, n),
            dst)

\* Mutant: write_inbound's error is returned to the caller.
IssuanceOutcomeStrict(now, src, dst, n) ==
    Outcome(~BufferFull(dst),
            src,
            StampFirst(Receive(dst, NewEntry(NoOwner, n, "Issuance")), now))

IssuanceOutcome(now, src, dst, n) ==
    Outcome(TRUE, src, StampFirst(Receive(dst, NewEntry(NoOwner, n, "Issuance")), now))

\* Out of an escrow: the referrer is whoever funded it.  The escrow's record
\* is not deducted from.
ReleaseOutcome(now, src, dst, n) ==
    LET source == IF src.original_sender = NoOwner THEN "DeadPass" ELSE "ViralShare"
    IN Outcome(TRUE,
               src,
               IF dst.is_intermediary
               THEN dst
               ELSE StampFirst(Receive(dst, NewEntry(src.original_sender, n, source)), now))

-----------------------------------------------------------------------------
(* Wallet to wallet *)

\* Clock.slot / slots_per_day.max(1); the slot and the second are one clock here.
Today(config, now) ==
    now \div (IF config.slots_per_day = 0 THEN 1 ELSE config.slots_per_day)

\* Mutant: one share more than the limit.
ShareLimitLoose(config, now, src) ==
    src.share_limit_day = Today(config, now)
        => src.shares_today <= config.max_referrals_per_wallet_per_day

ShareLimitAllows(config, now, src) ==
    src.share_limit_day = Today(config, now)
        => src.shares_today < config.max_referrals_per_wallet_per_day

\* The first share of a day restarts the count without looking at the limit.
CountedShare(config, now, src) ==
    IF src.share_limit_day = Today(config, now)
    THEN [src EXCEPT !.shares_today = @ + 1]
    ELSE [src EXCEPT !.share_limit_day = Today(config, now), !.shares_today = 1]

PeerAllowed(config, now, src, n) ==
    /\ ~Expired(config, now, src)
    /\ now - src.first_received_at >= config.min_hold_before_share_secs
    /\ n >= config.min_tokens_per_referral
    /\ n <= config.max_tokens_per_referral
    /\ ShareLimitAllows(config, now, src)
    /\ src.gen1_balance = 0 => config.allow_second_gen_transfer

\* One Gen-1 token in the amount makes all of it a viral share; without one
\* the amount is passed on dead.
PeerEntry(src, n) ==
    IF FromGen1(src, n) > 0
    THEN NewEntry(src.owner, n, "ViralShare")
    ELSE NewEntry(NoOwner, n, "DeadPass")

\* allow_second_gen_transfer is asked again when only Gen-2 tokens are spent.
PeerOutcome(config, now, src, dst, n) ==
    Outcome(/\ PeerAllowed(config, now, src, n)
            /\ FromGen1(src, n) = 0 /\ FromGen2(src, n) > 0 => config.allow_second_gen_transfer,
            FifoDeduct(CountedShare(config, now, src), n),
            IF dst.is_intermediary
            THEN dst
            ELSE StampFirst(Receive(dst, PeerEntry(src, n)), now))

-----------------------------------------------------------------------------

\* execute_transfer_hook
ExecuteTransferHook(config, now, src, dst, toVault, n) ==
    LET path == HookPath(src, dst, toVault)
    IN CASE path = "treasury" -> TreasuryOutcome(src, dst, n)
         [] path = "dex" -> DexOutcome(src, dst, n)
         [] path = "redemption" -> RedemptionOutcome(config, now, src, dst, n)
         [] path = "issuance" -> IssuanceOutcome(now, src, dst, n)
         [] path = "release" -> ReleaseOutcome(now, src, dst, n)
         [] path = "peer" -> PeerOutcome(config, now, src, dst, n)
=============================================================================
