----------------------------- MODULE Commission -----------------------------
(***************************************************************************)
(* The commission loop on top of TokenFlow: a redemption locks the wallet  *)
(* and fixes what each referrer slot consumed, process_redemption_slot     *)
(* credits the referrer's ledger slot by slot, clear_redemption_pending    *)
(* releases the wallet, claim_commission pays a ledger out of the          *)
(* treasury.  Disputes freeze a ledger, expired referral records are       *)
(* closed, and the merchant's reputation follows.                          *)
(*                                                                         *)
(* External: no instruction of the program creates a ReferralRecord, a     *)
(* CommissionLedger, a DisputeRecord or a MerchantReputation, nor fills a  *)
(* referrer slot (finalize_inbound.rs:20 leaves it to a full deployment).  *)
(* AttributeReferral does so here, for Gen-2 tokens the wallet has, one    *)
(* slot per referrer, and not while a redemption of the wallet is pending: *)
(* the code knows none of the three conditions because it has no such      *)
(* writer.  ImplementsLock rests on the last: a slot added under a pending *)
(* redemption would be due without a share.                                *)
(*                                                                         *)
(* Assumed of callers: the instructions get the ledger, the record, the    *)
(* dispute and the reputation that belong together, and claim_commission   *)
(* the treasury, the mint and the config of this merchant (its comments at *)
(* lines 15 and 61 leave these checks to a full deployment).  The account  *)
(* a claim pays to is not assumed to be the referrer's.                    *)
(*                                                                         *)
(* Left out of the accounts: keys, total_redemptions_driven and            *)
(* highest_single_commission, which are only displayed, and                *)
(* max_commission_cap, resolved_at and stakes, which nothing enforces.     *)
(***************************************************************************)
EXTENDS TokenFlow

CONSTANTS
    Bps,                 \* commission rates committed to, in 1/10000
    Lifetimes,           \* seconds a referral lasts; 0 is no expiry
    Contested,           \* amounts a dispute freezes
    DisputeWindow,       \* DISPUTE_MERCHANT_RESPONSE_SECS, 14 days
    Suspicions           \* suspicion scores the oracle may report

\* Fractions of a token, rates and scores, all in 1/10000.
Dust == 0..9999
Rate == 0..10000

ASSUME BpsAssumption == Bps \subseteq Rate
ASSUME LifetimesAssumption == Lifetimes \subseteq Nat
ASSUME ContestedAssumption == Contested \subseteq U64
ASSUME WindowAssumption == DisputeWindow \in Nat
ASSUME SuspicionsAssumption == Suspicions \subseteq Nat

VARIABLES
    record,          \* [Owner -> [SlotIndex -> ReferralRecord]]
    open,            \* <<redeemer, slot>> pairs whose ReferralRecord account exists
    ledger,          \* [Owner -> CommissionLedger], by referrer
    dispute,         \* [Owner -> [SlotIndex -> DisputeRecord]], by referral
    reputation,      \* the MerchantReputation account
    accrued,         \* history: commission accrued per referrer, in 1/10000 tokens
    wiped,           \* history: dust discarded by claims, per referrer
    forfeited        \* history: tokens lost to disputes, per referrer

commissionVars == <<record, open, ledger, dispute, reputation, accrued, wiped, forfeited>>
allVars == <<vars, commissionVars>>

ReferralRecord ==
    [referrer : Owner \cup {NoOwner},
     expires_at : Nat,
     committed_commission_bps : Rate,
     commission_earned : U64,
     commission_settled : U64,
     is_active : BOOLEAN]

CommissionLedger ==
    [claimable : U64,
     dust_tenths_accumulated : Dust,
     frozen : BOOLEAN,
     frozen_amount : U64,
     total_earned : U64,
     total_claimed : U64]

\* "None": no DisputeRecord account.
DisputeRecord == [status : {"None", "Pending", "UpheldByTimeout"}, raised_at : Nat]

MerchantReputation == [reputation_score : Rate, timeout_disputes : Nat]

EmptyRecord ==
    [referrer |-> NoOwner, expires_at |-> 0, committed_commission_bps |-> 0,
     commission_earned |-> 0, commission_settled |-> 0, is_active |-> FALSE]

EmptyLedger ==
    [claimable |-> 0, dust_tenths_accumulated |-> 0, frozen |-> FALSE, frozen_amount |-> 0,
     total_earned |-> 0, total_claimed |-> 0]

-----------------------------------------------------------------------------

CommissionInit ==
    /\ Init
    /\ record = [o \in Owner |-> [i \in SlotIndex |-> EmptyRecord]]
    /\ open = {}
    /\ ledger = [o \in Owner |-> EmptyLedger]
    /\ dispute = [o \in Owner |-> [i \in SlotIndex |-> [status |-> "None", raised_at |-> 0]]]
    /\ reputation = [reputation_score |-> 10000, timeout_disputes |-> 0]
    /\ accrued = [o \in Owner |-> 0]
    /\ wiped = [o \in Owner |-> 0]
    /\ forfeited = [o \in Owner |-> 0]

\* Gen-2 tokens already attributed to the wallet's referrers.
Attributed(g) ==
    FoldFunctionOnSet(+, 0, [i \in ActiveSlots(g) |-> g.referrer_slots[i].tokens_attributed],
                      ActiveSlots(g))

\* External: what "a full deployment" of finalize_inbound writes for Gen-2
\* tokens that arrived from referrer a.  Its conditions are assumptions.
AttributeReferral(o, a, n, bps, life) ==
    LET i == gen[o].active_referrer_slots
    IN /\ o \in initialized /\ a # o
       /\ i \in SlotIndex
       /\ ~gen[o].redemption_pending
       /\ \A j \in ActiveSlots(gen[o]) : record[o][j].referrer # a
       /\ n > 0 /\ Attributed(gen[o]) + n <= gen[o].gen2_balance
       /\ gen' = [gen EXCEPT
                    ![o].referrer_slots[i] = [tokens_attributed |-> n, is_active |-> TRUE],
                    ![o].active_referrer_slots = @ + 1]
       /\ record' = [record EXCEPT ![o][i] =
                        [EmptyRecord EXCEPT
                            !.referrer = a,
                            !.expires_at = IF life = 0 THEN 0 ELSE now + life,
                            !.committed_commission_bps = bps,
                            !.is_active = TRUE]]
       /\ open' = open \cup {<<o, i>>}
       /\ UNCHANGED <<initialized, tokens, config, now, sharesMade, misbooked, ledger, dispute,
                      reputation, accrued, wiped, forfeited>>

-----------------------------------------------------------------------------
(* Settlement *)

\* Mutant: the dust that made a whole token stays in the ledger.
CreditedKeepingDust(l, exact) ==
    LET dust == l.dust_tenths_accumulated + (exact % 10000)
        gain == (exact \div 10000) + (dust \div 10000)
    IN [l EXCEPT !.claimable = @ + gain,
                 !.total_earned = @ + gain,
                 !.dust_tenths_accumulated = dust]

\* Mutant: dust is never turned into a token.
CreditedWithoutCarry(l, exact) ==
    LET dust == l.dust_tenths_accumulated + (exact % 10000)
        gain == exact \div 10000
    IN [l EXCEPT !.claimable = @ + gain,
                 !.total_earned = @ + gain,
                 !.dust_tenths_accumulated = dust % 10000]

\* Mutant: the token made of dust is claimable but not counted as earned.
CreditedUncounted(l, exact) ==
    LET dust == l.dust_tenths_accumulated + (exact % 10000)
    IN [l EXCEPT !.claimable = @ + (exact \div 10000) + (dust \div 10000),
                 !.total_earned = @ + (exact \div 10000),
                 !.dust_tenths_accumulated = dust % 10000]

\* Mutant: only the token made of dust is credited.
CreditedDustOnly(l, exact) ==
    LET dust == l.dust_tenths_accumulated + (exact % 10000)
    IN [l EXCEPT !.claimable = @ + (dust \div 10000),
                 !.total_earned = @ + (dust \div 10000),
                 !.dust_tenths_accumulated = dust % 10000]

\* The ledger after a commission of exact/10000 tokens: whole tokens are
\* claimable at once, fractions once they make a whole.
Credited(l, exact) ==
    LET dust == l.dust_tenths_accumulated + (exact % 10000)
        gain == (exact \div 10000) + (dust \div 10000)
    IN [l EXCEPT !.claimable = @ + gain,
                 !.total_earned = @ + gain,
                 !.dust_tenths_accumulated = dust % 10000]

LedgerFits(l) == l.claimable \in U64 /\ l.total_earned \in U64 /\ l.total_claimed \in U64

\* process_redemption_slot past its requires: a slot that consumed nothing or
\* whose referral is inactive is settled without a credit.
ProcessRedemptionSlot(o, i) ==
    LET g == gen[o]
        r == record[o][i]
        exact == g.redemption_slot_consumed[i] * r.committed_commission_bps
        paying == g.redemption_slot_consumed[i] > 0 /\ r.is_active
    IN /\ o \in initialized /\ <<o, i>> \in open
       /\ g.redemption_pending
       /\ i \in ActiveSlots(g)
       /\ i \notin g.redemption_slots_settled
       /\ IF paying
          THEN /\ ledger' = [ledger EXCEPT ![r.referrer] = Credited(@, exact)]
               /\ LedgerFits(ledger'[r.referrer])
               /\ record' = [record EXCEPT ![o][i].commission_earned = @ + (exact \div 10000)]
               /\ record'[o][i].commission_earned \in U64
               /\ accrued' = [accrued EXCEPT ![r.referrer] = @ + exact]
          ELSE UNCHANGED <<ledger, record, accrued>>
       /\ gen' = [gen EXCEPT ![o].redemption_slots_settled = @ \cup {i}]
       /\ UNCHANGED <<initialized, tokens, config, now, sharesMade, misbooked, open, dispute,
                      reputation, wiped, forfeited>>

\* Mutant: the claim is divided before it is multiplied.
GrossToSendDividedFirst(claimable) ==
    ((claimable \div (10000 - config.transfer_fee_bps)) * 10000) % (MaxU64 + 1)

\* gross_to_send, cast back to u64.
GrossToSend(claimable) ==
    ((claimable * 10000) \div (10000 - config.transfer_fee_bps)) % (MaxU64 + 1)

\* The transfer out of the treasury runs the hook; total_claimed counts the
\* claimable amount and the dust is dropped.  Nobody signs for the referrer and
\* referrer_ata is not compared with the ledger: d is whoever's account it is.
ClaimCommission(a, d) ==
    LET l == ledger[a]
    IN /\ ~l.frozen
       /\ l.claimable > 0
       /\ Treasury \in Owner
       /\ Transfer("treasury", Treasury, d, GrossToSend(l.claimable))
       /\ ledger' = [ledger EXCEPT ![a].total_claimed = @ + l.claimable,
                                   ![a].claimable = 0,
                                   ![a].dust_tenths_accumulated = 0]
       /\ LedgerFits(ledger'[a])
       /\ wiped' = [wiped EXCEPT ![a] = @ + l.dust_tenths_accumulated]
       /\ UNCHANGED <<sharesMade, record, open, dispute, reputation, accrued, forfeited>>

-----------------------------------------------------------------------------
(* Clean-up, disputes, reputation *)

IsExpired(r) == r.expires_at > 0 /\ now > r.expires_at

CloseExpiredReferral(o, i) ==
    /\ <<o, i>> \in open
    /\ IsExpired(record[o][i])
    /\ record[o][i].commission_earned = record[o][i].commission_settled
    /\ open' = open \ {<<o, i>>}
    /\ UNCHANGED <<vars, record, ledger, dispute, reputation, accrued, wiped, forfeited>>

\* The accounts are the ledger and the dispute; the referral record, which may
\* be closed by now, is not among them.
RaiseDispute(o, i, n) ==
    LET a == record[o][i].referrer
    IN /\ a \in Owner
       /\ dispute' = [dispute EXCEPT ![o][i] = [status |-> "Pending", raised_at |-> now]]
       /\ ledger' = [ledger EXCEPT ![a].frozen = TRUE, ![a].frozen_amount = n]
       /\ UNCHANGED <<vars, record, open, reputation, accrued, wiped, forfeited>>

Minus(a, b) == IF a >= b THEN a - b ELSE 0      \* saturating_sub

\* frozen_amount keeps its value.
ResolveExpiredDispute(o, i) ==
    LET a == record[o][i].referrer
        l == ledger[a]
    IN /\ dispute[o][i].status = "Pending"
       /\ now > dispute[o][i].raised_at + DisputeWindow
       /\ dispute' = [dispute EXCEPT ![o][i].status = "UpheldByTimeout"]
       /\ ledger' = [ledger EXCEPT ![a].frozen = FALSE,
                                   ![a].claimable = Minus(@, l.frozen_amount)]
       /\ reputation' = [reputation_score |-> Minus(reputation.reputation_score, 500),
                         timeout_disputes |-> reputation.timeout_disputes + 1]
       /\ forfeited' = [forfeited EXCEPT ![a] = @ + Lesser(l.claimable, l.frozen_amount)]
       /\ UNCHANGED <<vars, record, open, accrued, wiped>>

\* Mutant: the oracle forgets the disputes that timed out.
ComputeReputationAfresh(suspicion) ==
    /\ reputation' = [reputation EXCEPT !.reputation_score = Minus(10000, suspicion \div 10)]
    /\ UNCHANGED <<vars, record, open, ledger, dispute, accrued, wiped, forfeited>>

ComputeMerchantReputation(suspicion) ==
    /\ reputation' = [reputation EXCEPT
            !.reputation_score =
                Minus(10000, reputation.timeout_disputes * 500 + (suspicion \div 10))]
    /\ UNCHANGED <<vars, record, open, ledger, dispute, accrued, wiped, forfeited>>

-----------------------------------------------------------------------------

\* Every step of TokenFlow but PayFromTreasury: the treasury pays through
\* claim_commission.
FlowStep ==
    \/ \E o \in Owner :
        \/ InitTokenGeneration(o)
        \/ InitTreasuryTokenGeneration(o)
        \/ RegisterDexPool(o)
        \/ FinalizeInbound(o)
        \/ ClearRedemptionPending(o)
        \/ \E b \in Owner \cup {NoOwner}, n \in Amounts : BurnTokens(o, b, n)
    \/ \E s, d \in Owner, n \in Amounts :
        \/ TransferDex(s, d, n)
        \/ Redeem(s, d, n)
        \/ Issue(s, d, n)
        \/ PeerShare(s, d, n)
    \/ Tick

CommissionNext ==
    \/ FlowStep /\ UNCHANGED commissionVars
    \/ \E o, a \in Wallet, n \in Amounts, bps \in Bps, life \in Lifetimes :
        AttributeReferral(o, a, n, bps, life)
    \/ \E o \in Wallet, i \in SlotIndex :
        \/ ProcessRedemptionSlot(o, i)
        \/ CloseExpiredReferral(o, i)
        \/ \E n \in Contested : RaiseDispute(o, i, n)
        \/ ResolveExpiredDispute(o, i)
    \/ \E a \in Wallet, d \in Owner : ClaimCommission(a, d)
    \/ \E suspicion \in Suspicions : ComputeMerchantReputation(suspicion)

CommissionSpec == CommissionInit /\ [][CommissionNext]_allVars

\* The redeemer's client or the crank keeps finalizing, settling and clearing.
CommissionFairness ==
    \A o \in Wallet :
        /\ WF_allVars(FinalizeInbound(o) /\ UNCHANGED commissionVars)
        /\ \A i \in SlotIndex : WF_allVars(ProcessRedemptionSlot(o, i))
        /\ WF_allVars(ClearRedemptionPending(o) /\ UNCHANGED commissionVars)

FairCommissionSpec == CommissionSpec /\ CommissionFairness

-----------------------------------------------------------------------------
(* Correctness *)

CommissionTypeOK ==
    /\ TypeOK
    /\ record \in [Owner -> [SlotIndex -> ReferralRecord]]
    /\ open \subseteq Owner \X SlotIndex
    /\ ledger \in [Owner -> CommissionLedger]
    /\ dispute \in [Owner -> [SlotIndex -> DisputeRecord]]
    /\ reputation \in MerchantReputation
    /\ accrued \in [Owner -> Nat] /\ wiped \in [Owner -> Nat] /\ forfeited \in [Owner -> Nat]

\* Every token a ledger ever earned is claimable, paid, or was lost to an
\* upheld dispute.
LedgerBalanced ==
    \A a \in Owner :
        ledger[a].total_earned = ledger[a].claimable + ledger[a].total_claimed + forfeited[a]

\* Splitting a commission into whole tokens, dust and the token made of dust
\* loses nothing: what the settled slots accrued is what the ledger earned,
\* what it holds as dust, and what claims discarded.
NoFractionLost ==
    \A a \in Owner :
        accrued[a] = 10000 * ledger[a].total_earned
                        + ledger[a].dust_tenths_accumulated + wiped[a]

Earned == [p \in Owner \X SlotIndex |-> record[p[1]][p[2]].commission_earned]

RecordsOf(a) == {p \in Owner \X SlotIndex : record[p[1]][p[2]].referrer = a}

\* Across both files that touch them: a referrer's records never claim to
\* have earned more than the referrer's ledger did.
RecordsWithinLedger ==
    \A a \in Owner :
        FoldFunctionOnSet(+, 0, Earned, RecordsOf(a)) <= ledger[a].total_earned

\* Lowered by a timeout or recomputed by the oracle, in any order, the score
\* has lost at least 500 for every dispute the merchant let time out.
TimeoutsCostReputation ==
    reputation.reputation_score <= Minus(10000, 500 * reputation.timeout_disputes)

ClaimPaid ==
    \A a \in Wallet :
        LET owed == ledger[a].claimable
            rate == 10000 - config.transfer_fee_bps
            Got(d) == tokens'[d] - tokens[d]
        IN /\ ledger'[a].total_claimed > ledger[a].total_claimed
           /\ (owed * 10000) \div rate <= MaxU64
           => \E d \in Owner :
                /\ Got(d) \in {owed - 1, owed}
                /\ (owed * 10000) % rate = 0 => Got(d) = owed
                /\ \A o \in Owner \ {d, Treasury} : Got(o) = 0

\* A claim that fits a u64 brings one account, the one the caller named, what the
\* ledger owed, or one token less when the division that grosses the claim up
\* leaves a rest: it rounds down and the fee rounds up.  Nothing ties the account
\* to the referrer.
ClaimsPayAsEarned == [][ClaimPaid]_allVars

\* What was minted.
Supplied == FoldFunctionOnSet(+, 0, Minted, Owner)

\* Whatever was shared, burned, settled, claimed and disputed before, and however
\* old the attributions are, a customer who has the tokens can redeem them unless
\* they expired, the buffer is to be finalized or a redemption to be cleared: no
\* subtraction and no product of the hook panics, in a mint whose supply squared
\* fits a u64.  Excepted are the two ends of a burn whose books and tokens did not
\* match: it may leave tokens no books cover.
RedemptionGoesThrough ==
    Supplied * Supplied <= MaxU64 =>
        \A s \in (Wallet \ misbooked) \cap initialized, d \in Vaults \cap initialized, n \in Amounts :
            /\ tokens[s] >= n
            /\ gen[s].buffer_pending = 0 /\ ~gen[s].redemption_pending
            /\ ~Expired(config, now, gen[s])
            => Hook(s, d, n).ok

\* tokens_attributed stays while the Gen-2 balance it is compared with shrinks;
\* still no redemption charges a slot for more tokens than it was attributed.
ChargedWithinAttribution ==
    \A o \in Wallet, i \in SlotIndex :
        gen[o].redemption_slot_consumed[i] <= gen[o].referrer_slots[i].tokens_attributed

\* The program implements the abstract lock.
Lock == INSTANCE RedemptionLock WITH
            Holder <- Wallet,
            Slot <- SlotIndex,
            locked <- {o \in Wallet : gen[o].redemption_pending},
            due <- [o \in Wallet |->
                        IF gen[o].redemption_pending
                        THEN ActiveSlots(gen[o]) \ gen[o].redemption_slots_settled
                        ELSE {}]

ImplementsLock == Lock!LockSpec

-----------------------------------------------------------------------------
(* Claims of the repository the code does not meet *)

\* claim_commission.rs: the claim is grossed up "so real amount received exactly
\* matches earned".
ClaimPaidExactly ==
    \A a \in Wallet :
        ledger'[a].total_claimed > ledger[a].total_claimed
            => \E d \in Owner : tokens'[d] - tokens[d] = ledger[a].claimable

ClaimsPayExactly == [][ClaimPaidExactly]_allVars

\* referral_cleanup.rs: a record is closed only when all its commissions have
\* been paid out, so one that a pending redemption still has to pay is there.
OwedRecordStaysOpen ==
    \A o \in Wallet, i \in SlotIndex :
        /\ gen[o].redemption_pending
        /\ i \in ActiveSlots(gen[o]) \ gen[o].redemption_slots_settled
        /\ gen[o].redemption_slot_consumed[i] > 0
        => <<o, i>> \in open

\* ARCHITECTURE_V4.md 5.4: a contested ledger is frozen.
PendingDisputeFreezes ==
    \A p \in open :
        dispute[p[1]][p[2]].status = "Pending" => ledger[record[p[1]][p[2]].referrer].frozen

=============================================================================
