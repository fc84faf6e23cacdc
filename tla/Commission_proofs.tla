------------------------- MODULE Commission_proofs -------------------------
(***************************************************************************)
(* The commission loop, for any number of wallets, slots and tokens: the   *)
(* accounts stay well formed and cover the tokens while settlements,       *)
(* claims and disputes are interleaved with transfers; a ledger loses no   *)
(* token and no fraction; the reputation forgets no dispute; nothing is    *)
(* booked beyond the supply; and a claim pays what the ledger owed, but    *)
(* for a token lost to rounding.                                           *)
(***************************************************************************)
EXTENDS Commission, Supply_proofs, Guards_proofs

(* The accounts *)

LEMMA SlotFilled ==
    ASSUME NEW g \in TokenGeneration, NEW i \in SlotIndex, g.active_referrer_slots = i, NEW n \in U64
    PROVE  LET h == [g EXCEPT
                        !.referrer_slots[i] = [tokens_attributed |-> n, is_active |-> TRUE],
                        !.active_referrer_slots = @ + 1]
           IN h \in TokenGeneration /\ SameIdentity(g, h) /\ Tracked(h) = Tracked(g)
<1> DEFINE slot == [tokens_attributed |-> n, is_active |-> TRUE]
           slots == [g.referrer_slots EXCEPT ![i] = slot]
           active == g.active_referrer_slots + 1
           h == [g EXCEPT !.referrer_slots = slots, !.active_referrer_slots = active]
<1>1. slot \in ReferrerSlot
  BY DEF ReferrerSlot
<1> HIDE DEF slot
<1>2. slots \in [SlotIndex -> ReferrerSlot]
  BY <1>1 DEF TokenGeneration
<1>3. active \in 0..ReferrerSlots
  BY SlotsAssumption DEF SlotIndex
<1>4. [g EXCEPT !.referrer_slots[i] = slot, !.active_referrer_slots = @ + 1] = h
  BY DEF TokenGeneration
<1> HIDE DEF slots, active
<1>5. h \in TokenGeneration /\ SameIdentity(g, h) /\ Tracked(h) = Tracked(g)
  BY <1>2, <1>3 DEF TokenGeneration, SameIdentity, Tracked
<1> QED
  BY <1>4, <1>5 DEF slot

LEMMA SlotSettled ==
    ASSUME NEW g \in TokenGeneration, NEW i \in SlotIndex
    PROVE  LET h == [g EXCEPT !.redemption_slots_settled = @ \cup {i}]
           IN h \in TokenGeneration /\ SameIdentity(g, h) /\ Tracked(h) = Tracked(g)
BY DEF TokenGeneration, SameIdentity, Tracked

LEMMA KeptRate ==
    ASSUME NEW b, b \in 0..9999
    PROVE  10000 - b \in 1..10000
OBVIOUS

\* The cast of gross_to_send back to u64 leaves an amount in range.
LEMMA GrossType ==
    ASSUME config \in MerchantConfig, NEW c \in Nat
    PROVE  GrossToSend(c) \in U64
<1> DEFINE d == 10000 - config.transfer_fee_bps
           q == (c * 10000) \div d
<1>1. config.transfer_fee_bps \in 0..9999
  BY ConfigRate
<1>2. d \in 1..10000
  BY <1>1, KeptRate
<1>3. MaxU64 \in Nat
  BY WidthAssumption
<1> HIDE DEF d
<1>4. q \in Int
  BY <1>2
<1>5. GrossToSend(c) = q % (MaxU64 + 1)
  BY DEF GrossToSend, d
<1> HIDE DEF q
<1>6. q % (MaxU64 + 1) \in 0..MaxU64
  BY <1>3, <1>4
<1> QED
  BY <1>5, <1>6 DEF U64

\* Changing one account without moving tokens.
LEMMA StillAccount ==
    ASSUME BooksInv, NEW o \in initialized, NEW g \in TokenGeneration,
           SameIdentity(gen[o], g), Tracked(g) = Tracked(gen[o]),
           gen' = [gen EXCEPT ![o] = g],
           UNCHANGED <<initialized, tokens, config, now, sharesMade, misbooked>>
    PROVE  BooksInv'
<1>1. /\ gen[o] \in TokenGeneration
      /\ o \in Owner /\ tokens \in [Owner -> Int]
  BY DEF BooksInv, TypeOK
<1>2. Tracked(gen[o]) \in Int
  BY <1>1 DEF TokenGeneration, Tracked, U64
<1> DEFINE m == 0
<1>3. m \in Int /\ Tracked(g) = Tracked(gen[o]) + m /\ tokens' = [tokens EXCEPT ![o] = @ + m]
  BY <1>1, <1>2
<1> HIDE DEF m
<1> QED
  BY <1>3, OneAccount

-----------------------------------------------------------------------------
(* The parts of the state a step of CommissionNext disturbs *)

LEMMA FlowIsNext == FlowStep => Next
BY DEF FlowStep, Next

LEMMA AttributeBooks ==
    ASSUME BooksInv, NEW o \in Owner, NEW a, NEW n \in U64, NEW bps, NEW life,
           AttributeReferral(o, a, n, bps, life)
    PROVE  BooksInv'
<1> DEFINE i == gen[o].active_referrer_slots
           g == [gen[o] EXCEPT
                    !.referrer_slots[i] = [tokens_attributed |-> n, is_active |-> TRUE],
                    !.active_referrer_slots = @ + 1]
<1>1. gen \in [Owner -> TokenGeneration] /\ gen[o] \in TokenGeneration
  BY DEF BooksInv, TypeOK
<1>2. /\ o \in initialized /\ i \in SlotIndex
      /\ gen' = [gen EXCEPT ![o] = g]
      /\ UNCHANGED <<initialized, tokens, config, now, sharesMade, misbooked>>
  BY <1>1 DEF AttributeReferral
<1>3. g \in TokenGeneration /\ SameIdentity(gen[o], g) /\ Tracked(g) = Tracked(gen[o])
  BY <1>1, <1>2, SlotFilled
<1> HIDE DEF g, i
<1> QED
  BY <1>2, <1>3, StillAccount

LEMMA SettleBooks ==
    ASSUME BooksInv, NEW o \in Owner, NEW i \in SlotIndex, ProcessRedemptionSlot(o, i)
    PROVE  BooksInv'
<1> DEFINE g == [gen[o] EXCEPT !.redemption_slots_settled = @ \cup {i}]
<1>1. gen \in [Owner -> TokenGeneration] /\ gen[o] \in TokenGeneration
  BY DEF BooksInv, TypeOK
<1>2. /\ o \in initialized
      /\ gen' = [gen EXCEPT ![o] = g]
      /\ UNCHANGED <<initialized, tokens, config, now, sharesMade, misbooked>>
  BY <1>1 DEF ProcessRedemptionSlot
<1>3. g \in TokenGeneration /\ SameIdentity(gen[o], g) /\ Tracked(g) = Tracked(gen[o])
  BY <1>1, SlotSettled
<1> HIDE DEF g
<1> QED
  BY <1>2, <1>3, StillAccount

LEMMA ClaimBooks ==
    ASSUME BooksInv, ledger \in [Owner -> CommissionLedger], NEW a \in Owner, NEW d \in Owner,
           ClaimCommission(a, d)
    PROVE  BooksInv'
<1> DEFINE n == GrossToSend(ledger[a].claimable)
<1>1. ledger[a].claimable \in Nat
  BY WidthAssumption DEF CommissionLedger, U64
<1>2. n \in U64
  BY <1>1, GrossType DEF BooksInv, TypeOK
<1>3. /\ Treasury \in Owner /\ Transfer("treasury", Treasury, d, n)
      /\ sharesMade' \in [Owner -> Nat]
  BY DEF ClaimCommission, BooksInv, TypeOK
<1> HIDE DEF n
<1> QED
  BY <1>2, <1>3, TransferBooks

LEMMA StillBooks == BooksInv /\ UNCHANGED vars => BooksInv'
BY NextBooks

LEMMA CommissionBooks ==
    ASSUME BooksInv, ledger \in [Owner -> CommissionLedger], [CommissionNext]_allVars
    PROVE  BooksInv'
<1>1. CASE FlowStep
  BY <1>1, FlowIsNext, NextBooks
<1>2. ASSUME NEW o \in Wallet, NEW a \in Wallet, NEW n \in Amounts, NEW bps \in Bps,
             NEW life \in Lifetimes, AttributeReferral(o, a, n, bps, life)
      PROVE  BooksInv'
  BY <1>2, AttributeBooks, AmountsAssumption, RolesAssumption
<1>3. ASSUME NEW o \in Wallet, NEW i \in SlotIndex, ProcessRedemptionSlot(o, i)
      PROVE  BooksInv'
  BY <1>3, SettleBooks, RolesAssumption
<1>4. ASSUME NEW a \in Wallet, NEW d \in Owner, ClaimCommission(a, d)
      PROVE  BooksInv'
  BY <1>4, ClaimBooks, RolesAssumption
<1>5. CASE UNCHANGED vars
  BY <1>5, StillBooks
<1>6. ASSUME NEW o, NEW i, NEW n, NEW suspicion,
             \/ CloseExpiredReferral(o, i)
             \/ RaiseDispute(o, i, n)
             \/ ResolveExpiredDispute(o, i)
             \/ ComputeMerchantReputation(suspicion)
      PROVE  UNCHANGED vars
  BY <1>6 DEF CloseExpiredReferral, RaiseDispute, ResolveExpiredDispute, ComputeMerchantReputation
<1>7. CASE UNCHANGED allVars
  BY <1>5, <1>7 DEF allVars
<1>8. CASE CommissionNext
  BY <1>1, <1>2, <1>3, <1>4, <1>5, <1>6, <1>8 DEF CommissionNext
<1> QED
  BY <1>7, <1>8

-----------------------------------------------------------------------------
(* One ledger with its histories *)

\* A well-formed ledger that lost no token and no fraction.
LedgerGood(l, acc, lost, gone) ==
    /\ l \in CommissionLedger /\ acc \in Nat /\ lost \in Nat /\ gone \in Nat
    /\ l.total_earned = l.claimable + l.total_claimed + gone
    /\ acc = 10000 * l.total_earned + l.dust_tenths_accumulated + lost

LEMMA U64InNat == U64 \subseteq Nat
BY WidthAssumption DEF U64

LEMMA EmptyLedgerGood == LedgerGood(EmptyLedger, 0, 0, 0)
<1>1. 0 \in U64 /\ 0 \in Dust
  BY WidthAssumption DEF U64, Dust
<1>2. EmptyLedger \in CommissionLedger
  BY <1>1 DEF EmptyLedger, CommissionLedger
<1> QED
  BY <1>2 DEF LedgerGood, EmptyLedger

LEMMA LedgerFields ==
    ASSUME NEW l \in CommissionLedger
    PROVE  /\ l.claimable \in U64 /\ l.total_earned \in U64 /\ l.total_claimed \in U64
           /\ l.frozen_amount \in U64 /\ l.dust_tenths_accumulated \in Dust
BY DEF CommissionLedger

LEMMA LedgerNumbers ==
    ASSUME NEW l \in CommissionLedger
    PROVE  /\ l.claimable \in Nat /\ l.total_earned \in Nat /\ l.total_claimed \in Nat
           /\ l.frozen_amount \in Nat /\ l.dust_tenths_accumulated \in Nat
<1>1. Dust \subseteq Nat
  BY DEF Dust
<1> QED
  BY <1>1, LedgerFields, U64InNat

\* The amounts of a ledger, replaced.
WithAmounts(l, claimable, dust, earned, claimed) ==
    [l EXCEPT !.claimable = claimable, !.dust_tenths_accumulated = dust,
              !.total_earned = earned, !.total_claimed = claimed]

LEMMA WithAmountsType ==
    ASSUME NEW l \in CommissionLedger, NEW c \in U64, NEW d \in Dust, NEW e \in U64, NEW t \in U64
    PROVE  WithAmounts(l, c, d, e, t) \in CommissionLedger
BY DEF WithAmounts, CommissionLedger

LEMMA WithAmountsFields ==
    ASSUME NEW l \in CommissionLedger, NEW c, NEW d, NEW e, NEW t
    PROVE  LET m == WithAmounts(l, c, d, e, t)
           IN /\ m.claimable = c /\ m.dust_tenths_accumulated = d
              /\ m.total_earned = e /\ m.total_claimed = t
BY DEF WithAmounts, CommissionLedger

\* Balances of a ledger with these amounts.
LEMMA GoodFrom ==
    ASSUME NEW l \in CommissionLedger, NEW acc \in Nat, NEW lost \in Nat, NEW gone \in Nat,
           NEW c \in U64, NEW d \in Dust, NEW e \in U64, NEW t \in U64,
           e = c + t + gone, acc = 10000 * e + d + lost
    PROVE  LedgerGood(WithAmounts(l, c, d, e, t), acc, lost, gone)
BY WithAmountsType, WithAmountsFields DEF LedgerGood

\* Whole tokens, dust and the token made of dust add up.
LEMMA DustArithmetic ==
    ASSUME NEW d \in 0..9999, NEW x \in Nat
    PROVE  /\ (x \div 10000) + ((d + (x % 10000)) \div 10000) \in Nat
           /\ (d + (x % 10000)) % 10000 \in 0..9999
           /\ 10000 * ((x \div 10000) + ((d + (x % 10000)) \div 10000))
                + ((d + (x % 10000)) % 10000) = d + x
OBVIOUS

LEMMA CreditedAmounts ==
    ASSUME NEW l \in CommissionLedger, NEW exact
    PROVE  LET dust == l.dust_tenths_accumulated + (exact % 10000)
               gain == (exact \div 10000) + (dust \div 10000)
           IN Credited(l, exact) = WithAmounts(l, l.claimable + gain, dust % 10000,
                                               l.total_earned + gain, l.total_claimed)
<1> DEFINE dust == l.dust_tenths_accumulated + (exact % 10000)
           gain == (exact \div 10000) + (dust \div 10000)
           rest == dust % 10000
<1>1. Credited(l, exact) = [l EXCEPT !.claimable = @ + gain, !.total_earned = @ + gain,
                                     !.dust_tenths_accumulated = rest]
  BY DEF Credited
<1> HIDE DEF gain, rest
<1>2. [l EXCEPT !.claimable = @ + gain, !.total_earned = @ + gain,
                !.dust_tenths_accumulated = rest]
        = WithAmounts(l, l.claimable + gain, rest, l.total_earned + gain, l.total_claimed)
  BY DEF WithAmounts, CommissionLedger
<1> QED
  BY <1>1, <1>2 DEF gain, rest

LEMMA CreditGood ==
    ASSUME NEW l, NEW acc, NEW lost, NEW gone, LedgerGood(l, acc, lost, gone),
           NEW exact \in Nat, LedgerFits(Credited(l, exact))
    PROVE  LedgerGood(Credited(l, exact), acc + exact, lost, gone)
<1> DEFINE d == l.dust_tenths_accumulated
           able == l.claimable
           earned == l.total_earned
           t == l.total_claimed
           gain == (exact \div 10000) + ((d + (exact % 10000)) \div 10000)
           rest == (d + (exact % 10000)) % 10000
           c == able + gain
           e == earned + gain
<1>1. l \in CommissionLedger /\ acc \in Nat /\ lost \in Nat /\ gone \in Nat
  BY DEF LedgerGood
<1>2. able \in Nat /\ earned \in Nat /\ t \in Nat /\ d \in Nat /\ d \in Dust
  BY <1>1, LedgerNumbers, LedgerFields
<1>3. earned = able + t + gone /\ acc = 10000 * earned + d + lost
  BY DEF LedgerGood
<1>4. Credited(l, exact) = WithAmounts(l, c, rest, e, t)
  BY <1>1, CreditedAmounts
<1> HIDE DEF d, able, earned, t
<1>5. gain \in Nat /\ rest \in 0..9999 /\ 10000 * gain + rest = d + exact
  <2> DEFINE whole == exact \div 10000
             part == exact % 10000
             carry == (d + part) \div 10000
  <2>1. d \in 0..9999
    BY <1>2 DEF Dust
  <2>2. whole \in Nat /\ part \in 0..9999 /\ 10000 * whole + part = exact
    OBVIOUS
  <2>3. gain = whole + carry /\ rest = (d + part) % 10000
    OBVIOUS
  <2> HIDE DEF whole, part, gain, rest
  <2>4. carry \in Nat /\ (d + part) % 10000 \in 0..9999
          /\ 10000 * carry + ((d + part) % 10000) = d + part
    BY <2>1, <2>2
  <2> HIDE DEF carry
  <2> QED
    BY <2>1, <2>2, <2>3, <2>4
<1> HIDE DEF gain, rest
<1>6. rest \in Dust /\ rest \in Nat
  BY <1>5 DEF Dust
<1>7. e = c + t + gone
  BY <1>1, <1>2, <1>3, <1>5
<1>8. acc + exact = 10000 * e + rest + lost /\ acc + exact \in Nat
  BY <1>1, <1>2, <1>3, <1>5, <1>6
<1> HIDE DEF c, e
<1>9. c \in U64 /\ e \in U64 /\ t \in U64
  BY <1>1, <1>4, WithAmountsFields DEF LedgerFits
<1>10. LedgerGood(WithAmounts(l, c, rest, e, t), acc + exact, lost, gone)
  BY <1>1, <1>6, <1>7, <1>8, <1>9, GoodFrom
<1> QED
  BY <1>4, <1>10

\* The ledger claim_commission leaves.
Claimed(l) == [l EXCEPT !.total_claimed = @ + l.claimable, !.claimable = 0,
                        !.dust_tenths_accumulated = 0]

LEMMA ClaimedAmounts ==
    ASSUME NEW l \in CommissionLedger
    PROVE  Claimed(l) = WithAmounts(l, 0, 0, l.total_earned, l.total_claimed + l.claimable)
BY DEF Claimed, WithAmounts, CommissionLedger

\* The payment moves what was claimable, the dust is dropped and counted.
LEMMA ClaimGood ==
    ASSUME NEW l, NEW acc, NEW lost, NEW gone, LedgerGood(l, acc, lost, gone),
           LedgerFits(Claimed(l))
    PROVE  LedgerGood(Claimed(l), acc, lost + l.dust_tenths_accumulated, gone)
<1> DEFINE d == l.dust_tenths_accumulated
           able == l.claimable
           e == l.total_earned
           before == l.total_claimed
           t == before + able
<1>1. l \in CommissionLedger /\ acc \in Nat /\ lost \in Nat /\ gone \in Nat
  BY DEF LedgerGood
<1>2. able \in Nat /\ e \in Nat /\ before \in Nat /\ d \in Nat /\ e \in U64
  BY <1>1, LedgerNumbers, LedgerFields
<1>3. e = able + before + gone /\ acc = 10000 * e + d + lost
  BY DEF LedgerGood
<1>4. Claimed(l) = WithAmounts(l, 0, 0, e, t)
  BY <1>1, ClaimedAmounts
<1>5. 0 \in U64 /\ 0 \in Dust
  BY WidthAssumption DEF U64, Dust
<1> HIDE DEF e, able, d, before
<1>6. e = 0 + t + gone /\ acc = 10000 * e + 0 + (lost + d) /\ lost + d \in Nat
  BY <1>1, <1>2, <1>3
<1> HIDE DEF t
<1>7. t \in U64
  BY <1>1, <1>4, WithAmountsFields DEF LedgerFits
<1>8. LedgerGood(WithAmounts(l, 0, 0, e, t), acc, lost + d, gone)
  BY <1>1, <1>2, <1>5, <1>6, <1>7, GoodFrom
<1> QED
  BY <1>4, <1>8 DEF d

\* The ledgers raise_dispute and an expired dispute leave.
Frozen(l, n) == [l EXCEPT !.frozen = TRUE, !.frozen_amount = n]
Thawed(l) == [l EXCEPT !.frozen = FALSE, !.claimable = Minus(@, l.frozen_amount)]

LEMMA FrozenLedger ==
    ASSUME NEW l \in CommissionLedger, NEW n \in U64
    PROVE  LET m == Frozen(l, n)
           IN /\ m \in CommissionLedger
              /\ m.claimable = l.claimable /\ m.total_earned = l.total_earned
              /\ m.total_claimed = l.total_claimed
              /\ m.dust_tenths_accumulated = l.dust_tenths_accumulated
BY DEF Frozen, CommissionLedger

LEMMA FreezeGood ==
    ASSUME NEW l, NEW acc, NEW lost, NEW gone, LedgerGood(l, acc, lost, gone), NEW n \in U64
    PROVE  LedgerGood(Frozen(l, n), acc, lost, gone)
BY FrozenLedger DEF LedgerGood

LEMMA SubtractArithmetic ==
    ASSUME NEW a \in U64, NEW b \in U64
    PROVE  /\ Minus(a, b) \in U64 /\ Minus(a, b) \in Nat /\ Lesser(a, b) \in Nat
           /\ Minus(a, b) + Lesser(a, b) = a
BY WidthAssumption DEF Minus, Lesser, U64

LEMMA ThawedLedger ==
    ASSUME NEW l \in CommissionLedger
    PROVE  LET m == Thawed(l)
           IN /\ m \in CommissionLedger
              /\ m.claimable = Minus(l.claimable, l.frozen_amount)
              /\ m.total_earned = l.total_earned /\ m.total_claimed = l.total_claimed
              /\ m.dust_tenths_accumulated = l.dust_tenths_accumulated
<1> DEFINE left == Minus(l.claimable, l.frozen_amount)
<1>1. left \in U64
  BY LedgerFields, SubtractArithmetic
<1>2. Thawed(l) = [l EXCEPT !.frozen = FALSE, !.claimable = left]
  BY DEF Thawed, CommissionLedger
<1> HIDE DEF left
<1>3. LET m == [l EXCEPT !.frozen = FALSE, !.claimable = left]
      IN /\ m \in CommissionLedger
         /\ m.claimable = left
         /\ m.total_earned = l.total_earned /\ m.total_claimed = l.total_claimed
         /\ m.dust_tenths_accumulated = l.dust_tenths_accumulated
  BY <1>1 DEF CommissionLedger
<1> QED
  BY <1>2, <1>3 DEF left

\* What an upheld dispute takes off the ledger is forfeited.
LEMMA ForfeitGood ==
    ASSUME NEW l, NEW acc, NEW lost, NEW gone, LedgerGood(l, acc, lost, gone)
    PROVE  LedgerGood(Thawed(l), acc, lost, gone + Lesser(l.claimable, l.frozen_amount))
<1> DEFINE left == Minus(l.claimable, l.frozen_amount)
           taken == Lesser(l.claimable, l.frozen_amount)
           able == l.claimable
           t == l.total_claimed
           e == l.total_earned
<1>1. l \in CommissionLedger /\ acc \in Nat /\ lost \in Nat /\ gone \in Nat
  BY DEF LedgerGood
<1>2. able \in Nat /\ e \in Nat /\ t \in Nat
  BY <1>1, LedgerNumbers
<1>3. left \in Nat /\ taken \in Nat /\ left + taken = able
  BY <1>1, LedgerFields, SubtractArithmetic
<1>4. e = able + t + gone /\ acc = 10000 * e + l.dust_tenths_accumulated + lost
  BY DEF LedgerGood
<1>5. /\ Thawed(l) \in CommissionLedger
      /\ Thawed(l).claimable = left /\ Thawed(l).total_earned = e /\ Thawed(l).total_claimed = t
      /\ Thawed(l).dust_tenths_accumulated = l.dust_tenths_accumulated
  BY <1>1, ThawedLedger
<1> HIDE DEF left, taken, able, t, e
<1>6. e = left + t + (gone + taken) /\ gone + taken \in Nat
  BY <1>1, <1>2, <1>3, <1>4
<1>7. LedgerGood(Thawed(l), acc, lost, gone + taken)
  BY <1>1, <1>4, <1>5, <1>6 DEF LedgerGood
<1> QED
  BY <1>7 DEF taken

-----------------------------------------------------------------------------
(* All ledgers *)

HistoriesOK ==
    /\ ledger \in [Owner -> CommissionLedger]
    /\ accrued \in [Owner -> Nat] /\ wiped \in [Owner -> Nat] /\ forfeited \in [Owner -> Nat]
    /\ \A a \in Owner : LedgerGood(ledger[a], accrued[a], wiped[a], forfeited[a])

AccountsOK ==
    /\ record \in [Owner -> [SlotIndex -> ReferralRecord]]
    /\ open \subseteq Owner \X SlotIndex
    /\ dispute \in [Owner -> [SlotIndex -> DisputeRecord]]
    /\ reputation \in MerchantReputation

\* Inductive: the token accounts cover the tokens, the commission accounts are
\* well formed and every ledger balances with its histories.
CommissionInv == BooksInv /\ AccountsOK /\ HistoriesOK /\ TimeoutsCostReputation

LEMMA KeptHistories ==
    HistoriesOK /\ UNCHANGED <<ledger, accrued, wiped, forfeited>> => HistoriesOK'
BY DEF HistoriesOK, LedgerGood

LEMMA NoSuchKey ==
    ASSUME NEW S, NEW T, NEW f \in [S -> T], NEW b, b \notin S, NEW v
    PROVE  [f EXCEPT ![b] = v] = f
OBVIOUS

\* A step that rewrites the ledger and histories of one owner, if that; b may
\* be no owner at all, and then nothing changes.
LEMMA OneLedger ==
    ASSUME HistoriesOK, NEW b, NEW l, NEW acc, NEW lost, NEW gone,
           b \in Owner => LedgerGood(l, acc, lost, gone),
           ledger' = [ledger EXCEPT ![b] = l],
           accrued' = [accrued EXCEPT ![b] = acc],
           wiped' = [wiped EXCEPT ![b] = lost],
           forfeited' = [forfeited EXCEPT ![b] = gone]
    PROVE  HistoriesOK'
<1>1. CASE b \in Owner
  <2>1. LedgerGood(l, acc, lost, gone)
    BY <1>1
  <2>2. l \in CommissionLedger /\ acc \in Nat /\ lost \in Nat /\ gone \in Nat
    BY <2>1 DEF LedgerGood
  <2>3. /\ ledger' \in [Owner -> CommissionLedger]
        /\ accrued' \in [Owner -> Nat] /\ wiped' \in [Owner -> Nat]
        /\ forfeited' \in [Owner -> Nat]
    BY <1>1, <2>2 DEF HistoriesOK
  <2>4. ASSUME NEW a \in Owner
        PROVE  LedgerGood(ledger'[a], accrued'[a], wiped'[a], forfeited'[a])
    <3>1. CASE a = b
      <4>1. ledger'[a] = l /\ accrued'[a] = acc /\ wiped'[a] = lost /\ forfeited'[a] = gone
        BY <1>1, <3>1 DEF HistoriesOK
      <4> QED
        BY <2>1, <4>1
    <3>2. CASE a # b
      <4>1. /\ ledger'[a] = ledger[a] /\ accrued'[a] = accrued[a]
            /\ wiped'[a] = wiped[a] /\ forfeited'[a] = forfeited[a]
        BY <3>2 DEF HistoriesOK
      <4>2. LedgerGood(ledger[a], accrued[a], wiped[a], forfeited[a])
        BY DEF HistoriesOK
      <4> QED
        BY <4>1, <4>2
    <3> QED
      BY <3>1, <3>2
  <2> QED
    BY <2>3, <2>4 DEF HistoriesOK, LedgerGood
<1>2. CASE b \notin Owner
  <2>1. /\ ledger \in [Owner -> CommissionLedger] /\ accrued \in [Owner -> Nat]
        /\ wiped \in [Owner -> Nat] /\ forfeited \in [Owner -> Nat]
    BY DEF HistoriesOK
  <2>2. [ledger EXCEPT ![b] = l] = ledger
    BY <1>2, <2>1, NoSuchKey
  <2>3. [accrued EXCEPT ![b] = acc] = accrued /\ [wiped EXCEPT ![b] = lost] = wiped
    BY <1>2, <2>1, NoSuchKey
  <2>4. [forfeited EXCEPT ![b] = gone] = forfeited
    BY <1>2, <2>1, NoSuchKey
  <2> QED
    BY <2>2, <2>3, <2>4, KeptHistories
<1> QED
  BY <1>1, <1>2

-----------------------------------------------------------------------------
(* The steps on the commission accounts *)

LEMMA RateInNat == Rate \subseteq Nat
BY DEF Rate

LEMMA SettleAccounts ==
    ASSUME CommissionInv, NEW o \in Owner, NEW i \in SlotIndex, ProcessRedemptionSlot(o, i)
    PROVE  AccountsOK' /\ HistoriesOK'
<1> DEFINE r == record[o][i]
           exact == gen[o].redemption_slot_consumed[i] * r.committed_commission_bps
           earned == r.commission_earned + (exact \div 10000)
           b == r.referrer
<1>1. /\ gen[o] \in TokenGeneration /\ r \in ReferralRecord
      /\ record \in [Owner -> [SlotIndex -> ReferralRecord]]
  BY DEF CommissionInv, BooksInv, TypeOK, AccountsOK
<1>2. exact \in Nat
  <2> DEFINE consumed == gen[o].redemption_slot_consumed[i]
             bps == r.committed_commission_bps
  <2>1. consumed \in Nat
    BY <1>1, U64InNat DEF TokenGeneration
  <2>2. bps \in Rate
    BY <1>1 DEF ReferralRecord
  <2>3. bps \in Nat
    BY <2>2, RateInNat
  <2>4. exact = consumed * bps
    OBVIOUS
  <2> HIDE DEF consumed, bps, exact
  <2> QED
    BY <2>1, <2>3, <2>4
<1>3. CASE UNCHANGED <<ledger, record, accrued>>
  BY <1>3, KeptHistories DEF ProcessRedemptionSlot, CommissionInv, AccountsOK
<1>4. ASSUME ledger' = [ledger EXCEPT ![b] = Credited(@, exact)],
             LedgerFits(ledger'[b]),
             record' = [record EXCEPT ![o][i].commission_earned = @ + (exact \div 10000)],
             record'[o][i].commission_earned \in U64,
             accrued' = [accrued EXCEPT ![b] = @ + exact]
      PROVE  AccountsOK' /\ HistoriesOK'
  <2>1. record' = [record EXCEPT ![o] = [@ EXCEPT ![i] = [r EXCEPT !.commission_earned = earned]]]
    BY <1>1, <1>4
  <2>2. [r EXCEPT !.commission_earned = earned].commission_earned = earned
    BY <1>1 DEF ReferralRecord
  <2>3. earned \in U64
    BY <1>1, <1>4, <2>1, <2>2
  <2> HIDE DEF earned
  <2>4. [r EXCEPT !.commission_earned = earned] \in ReferralRecord
    BY <1>1, <2>3 DEF ReferralRecord
  <2>5. record' \in [Owner -> [SlotIndex -> ReferralRecord]]
    BY <1>1, <2>1, <2>4
  <2>6. UNCHANGED <<open, dispute, reputation, wiped, forfeited>>
    BY DEF ProcessRedemptionSlot
  <2>7. AccountsOK'
    BY <2>5, <2>6 DEF CommissionInv, AccountsOK
  <2> DEFINE l == Credited(ledger[b], exact)
             acc == accrued[b] + exact
             lost == wiped[b]
             gone == forfeited[b]
  <2>8. /\ ledger' = [ledger EXCEPT ![b] = l] /\ accrued' = [accrued EXCEPT ![b] = acc]
        /\ wiped' = [wiped EXCEPT ![b] = lost] /\ forfeited' = [forfeited EXCEPT ![b] = gone]
    BY <1>4, <2>6 DEF CommissionInv, HistoriesOK
  <2>9. ASSUME b \in Owner
        PROVE  LedgerGood(l, acc, lost, gone)
    <3>1. LedgerGood(ledger[b], accrued[b], lost, gone)
      BY <2>9 DEF CommissionInv, HistoriesOK
    <3>2. LedgerFits(l)
      BY <1>4, <2>8, <2>9 DEF CommissionInv, HistoriesOK
    <3> QED
      BY <1>2, <3>1, <3>2, CreditGood
  <2> HIDE DEF l, acc, lost, gone, b, exact
  <2> QED
    BY <2>7, <2>8, <2>9, OneLedger DEF CommissionInv
<1> QED
  BY <1>3, <1>4 DEF ProcessRedemptionSlot

LEMMA ClaimAccounts ==
    ASSUME CommissionInv, NEW a \in Owner, NEW d, ClaimCommission(a, d)
    PROVE  AccountsOK' /\ HistoriesOK'
<1> DEFINE l == Claimed(ledger[a])
           lost == wiped[a] + ledger[a].dust_tenths_accumulated
<1>1. UNCHANGED <<record, open, dispute, reputation, accrued, forfeited>>
  BY DEF ClaimCommission
<1>2. ledger' = [ledger EXCEPT ![a] = l] /\ LedgerFits(ledger'[a]) /\ wiped' = [wiped EXCEPT ![a] = lost]
  BY DEF ClaimCommission, Claimed, CommissionInv, HistoriesOK
<1>3. /\ accrued' = [accrued EXCEPT ![a] = accrued[a]]
      /\ forfeited' = [forfeited EXCEPT ![a] = forfeited[a]]
  BY <1>1 DEF CommissionInv, HistoriesOK
<1>4. LedgerGood(l, accrued[a], lost, forfeited[a])
  BY <1>2, ClaimGood DEF CommissionInv, HistoriesOK
<1> HIDE DEF l, lost
<1>5. HistoriesOK'
  BY <1>2, <1>3, <1>4, OneLedger DEF CommissionInv
<1> QED
  BY <1>1, <1>5 DEF CommissionInv, AccountsOK

LEMMA NewRecord ==
    ASSUME NEW a \in Owner, NEW e \in Nat, NEW b \in Rate
    PROVE  [EmptyRecord EXCEPT !.referrer = a, !.expires_at = e,
                               !.committed_commission_bps = b, !.is_active = TRUE]
             \in ReferralRecord
<1>1. 0 \in U64
  BY WidthAssumption DEF U64
<1> QED
  BY <1>1 DEF EmptyRecord, ReferralRecord

LEMMA AttributeAccounts ==
    ASSUME CommissionInv, NEW o \in Owner, NEW a \in Owner, NEW n, NEW bps \in Rate,
           NEW life \in Nat, AttributeReferral(o, a, n, bps, life)
    PROVE  AccountsOK' /\ HistoriesOK'
<1> DEFINE i == gen[o].active_referrer_slots
           e == IF life = 0 THEN 0 ELSE now + life
           r == [EmptyRecord EXCEPT !.referrer = a, !.expires_at = e,
                                    !.committed_commission_bps = bps, !.is_active = TRUE]
<1>1. /\ i \in SlotIndex /\ record' = [record EXCEPT ![o][i] = r]
      /\ open' = open \cup {<<o, i>>}
      /\ UNCHANGED <<ledger, dispute, reputation, accrued, wiped, forfeited>>
  BY DEF AttributeReferral
<1>2. now \in Nat
  BY DEF CommissionInv, BooksInv, TypeOK
<1>3. e \in Nat
  BY <1>2
<1> HIDE DEF e
<1>4. r \in ReferralRecord
  BY <1>3, NewRecord
<1> HIDE DEF r, i
<1>5. AccountsOK'
  BY <1>1, <1>4 DEF CommissionInv, AccountsOK
<1> QED
  BY <1>1, <1>5, KeptHistories DEF CommissionInv

LEMMA RaiseAccounts ==
    ASSUME CommissionInv, NEW o \in Owner, NEW i \in SlotIndex, NEW n \in U64, RaiseDispute(o, i, n)
    PROVE  AccountsOK' /\ HistoriesOK'
<1> DEFINE b == record[o][i].referrer
           l == Frozen(ledger[b], n)
           d == [status |-> "Pending", raised_at |-> now]
           acc == accrued[b]
           lost == wiped[b]
           gone == forfeited[b]
<1>1. /\ ledger' = [ledger EXCEPT ![b] = l] /\ dispute' = [dispute EXCEPT ![o][i] = d]
      /\ UNCHANGED <<record, open, reputation, accrued, wiped, forfeited>>
  BY DEF RaiseDispute, Frozen, CommissionInv, HistoriesOK
<1>2. d \in DisputeRecord
  BY DEF DisputeRecord, CommissionInv, BooksInv, TypeOK
<1>3. /\ accrued' = [accrued EXCEPT ![b] = acc] /\ wiped' = [wiped EXCEPT ![b] = lost]
      /\ forfeited' = [forfeited EXCEPT ![b] = gone]
  BY <1>1 DEF CommissionInv, HistoriesOK
<1>4. b \in Owner => LedgerGood(l, acc, lost, gone)
  BY FreezeGood DEF CommissionInv, HistoriesOK
<1> HIDE DEF b, l, d, acc, lost, gone
<1>5. HistoriesOK'
  BY <1>1, <1>3, <1>4, OneLedger DEF CommissionInv
<1>6. dispute' \in [Owner -> [SlotIndex -> DisputeRecord]]
  BY <1>1, <1>2 DEF CommissionInv, AccountsOK
<1> QED
  BY <1>1, <1>5, <1>6 DEF CommissionInv, AccountsOK

LEMMA TimeoutAccounts ==
    ASSUME CommissionInv, NEW o \in Owner, NEW i \in SlotIndex, ResolveExpiredDispute(o, i)
    PROVE  AccountsOK' /\ HistoriesOK' /\ TimeoutsCostReputation'
<1> DEFINE b == record[o][i].referrer
           l == Thawed(ledger[b])
           gone == forfeited[b] + Lesser(ledger[b].claimable, ledger[b].frozen_amount)
           score == Minus(reputation.reputation_score, 500)
           timeouts == reputation.timeout_disputes + 1
<1>1. /\ dispute' = [dispute EXCEPT ![o][i].status = "UpheldByTimeout"]
      /\ ledger' = [ledger EXCEPT ![b] = l]
      /\ reputation' = [reputation_score |-> score, timeout_disputes |-> timeouts]
      /\ forfeited' = [forfeited EXCEPT ![b] = gone]
      /\ UNCHANGED <<record, open, accrued, wiped>>
  BY DEF ResolveExpiredDispute, Thawed, CommissionInv, HistoriesOK
<1>2. b \in Owner => LedgerGood(l, accrued[b], wiped[b], gone)
  BY ForfeitGood DEF CommissionInv, HistoriesOK
<1>3. reputation.reputation_score \in Rate /\ reputation.timeout_disputes \in Nat
  BY DEF CommissionInv, AccountsOK, MerchantReputation
<1>4. score \in Rate /\ timeouts \in Nat /\ score <= Minus(10000, 500 * timeouts)
  <2> DEFINE s == reputation.reputation_score
             t == reputation.timeout_disputes
  <2>1. s \in Rate /\ t \in Nat /\ s <= Minus(10000, 500 * t)
    BY <1>3 DEF CommissionInv, TimeoutsCostReputation
  <2>2. score = Minus(s, 500) /\ timeouts = t + 1
    OBVIOUS
  <2> HIDE DEF s, t, score, timeouts
  <2> QED
    BY <2>1, <2>2 DEF Minus, Rate
<1>5. accrued' = [accrued EXCEPT ![b] = accrued[b]] /\ wiped' = [wiped EXCEPT ![b] = wiped[b]]
  BY <1>1 DEF CommissionInv, HistoriesOK
<1> HIDE DEF b, l, gone, score, timeouts
<1>6. HistoriesOK'
  BY <1>1, <1>2, <1>5, OneLedger DEF CommissionInv
<1>7. dispute' \in [Owner -> [SlotIndex -> DisputeRecord]]
  <2> DEFINE d == [dispute[o][i] EXCEPT !.status = "UpheldByTimeout"]
  <2>1. dispute \in [Owner -> [SlotIndex -> DisputeRecord]]
    BY DEF CommissionInv, AccountsOK
  <2>2. d \in DisputeRecord
    BY <2>1 DEF DisputeRecord
  <2>3. dispute' = [dispute EXCEPT ![o] = [@ EXCEPT ![i] = d]]
    BY <1>1, <2>1
  <2> HIDE DEF d
  <2> QED
    BY <2>1, <2>2, <2>3
<1>8. reputation' \in MerchantReputation /\ TimeoutsCostReputation'
  BY <1>1, <1>4 DEF MerchantReputation, TimeoutsCostReputation
<1> QED
  BY <1>1, <1>6, <1>7, <1>8 DEF CommissionInv, AccountsOK

LEMMA OracleAccounts ==
    ASSUME CommissionInv, NEW suspicion \in Nat, ComputeMerchantReputation(suspicion)
    PROVE  AccountsOK' /\ HistoriesOK' /\ TimeoutsCostReputation'
<1> DEFINE timeouts == reputation.timeout_disputes
           x == suspicion \div 10
           score == Minus(10000, timeouts * 500 + x)
<1>1. /\ reputation' = [reputation EXCEPT !.reputation_score = score]
      /\ UNCHANGED <<record, open, ledger, dispute, accrued, wiped, forfeited>>
  BY DEF ComputeMerchantReputation
<1>2. timeouts \in Nat /\ x \in Nat /\ reputation \in MerchantReputation
  BY DEF CommissionInv, AccountsOK, MerchantReputation
<1> HIDE DEF x
<1>3. score \in Rate /\ score <= Minus(10000, 500 * timeouts)
  <2> HIDE DEF timeouts
  <2> QED
    BY <1>2 DEF Minus, Rate
<1> HIDE DEF score
<1>4. /\ reputation' \in MerchantReputation
      /\ reputation'.reputation_score = score /\ reputation'.timeout_disputes = timeouts
  BY <1>1, <1>2, <1>3 DEF MerchantReputation
<1>5. HistoriesOK'
  BY <1>1, KeptHistories DEF CommissionInv
<1> QED
  BY <1>1, <1>3, <1>4, <1>5 DEF CommissionInv, AccountsOK, TimeoutsCostReputation

-----------------------------------------------------------------------------
(* The invariant holds *)

LEMMA CommissionStarts ==
    ASSUME CommissionInit
    PROVE  CommissionInv
<1>1. BooksInv
  BY InitBooks DEF CommissionInit
<1>2. HistoriesOK
  <2>1. EmptyLedger \in CommissionLedger
    BY EmptyLedgerGood DEF LedgerGood
  <2> QED
    BY <2>1, EmptyLedgerGood DEF CommissionInit, HistoriesOK
<1>3. EmptyRecord \in ReferralRecord
  <2>1. 0 \in U64 /\ 0 \in Rate
    BY WidthAssumption DEF U64, Rate
  <2> QED
    BY <2>1 DEF EmptyRecord, ReferralRecord
<1>4. 10000 \in Rate
  BY DEF Rate
<1>5. AccountsOK
  BY <1>3, <1>4 DEF CommissionInit, AccountsOK, DisputeRecord, MerchantReputation
<1>6. TimeoutsCostReputation
  BY DEF CommissionInit, TimeoutsCostReputation, Minus
<1> QED
  BY <1>1, <1>2, <1>5, <1>6 DEF CommissionInv

LEMMA KeptReputation == TimeoutsCostReputation /\ UNCHANGED reputation => TimeoutsCostReputation'
BY DEF TimeoutsCostReputation

LEMMA KeptAccounts ==
    ASSUME CommissionInv, UNCHANGED commissionVars
    PROVE  AccountsOK' /\ HistoriesOK' /\ TimeoutsCostReputation'
BY KeptHistories, KeptReputation DEF CommissionInv, AccountsOK, commissionVars

LEMMA CloseAccounts ==
    ASSUME CommissionInv, NEW o \in Owner, NEW i \in SlotIndex, CloseExpiredReferral(o, i)
    PROVE  AccountsOK' /\ HistoriesOK' /\ TimeoutsCostReputation'
<1>1. /\ open' \subseteq open
      /\ UNCHANGED <<record, ledger, dispute, reputation, accrued, wiped, forfeited>>
  BY DEF CloseExpiredReferral
<1> QED
  BY <1>1, KeptHistories, KeptReputation DEF CommissionInv, AccountsOK

LEMMA CommissionKept ==
    ASSUME CommissionInv, [CommissionNext]_allVars
    PROVE  CommissionInv'
<1> DEFINE Goal == AccountsOK' /\ HistoriesOK' /\ TimeoutsCostReputation'
<1>0. BooksInv'
  BY CommissionBooks DEF CommissionInv, HistoriesOK
<1> SUFFICES Goal
  BY <1>0 DEF CommissionInv
<1>1. CASE UNCHANGED commissionVars
  BY <1>1, KeptAccounts
<1>2. ASSUME NEW o \in Wallet, NEW a \in Wallet, NEW n \in Amounts, NEW bps \in Bps,
             NEW life \in Lifetimes, AttributeReferral(o, a, n, bps, life)
      PROVE  Goal
  <2>1. o \in Owner /\ a \in Owner /\ bps \in Rate /\ life \in Nat
    BY RolesAssumption, BpsAssumption, LifetimesAssumption
  <2>2. UNCHANGED reputation
    BY <1>2 DEF AttributeReferral
  <2> QED
    BY <1>2, <2>1, <2>2, AttributeAccounts, KeptReputation DEF CommissionInv
<1>3. ASSUME NEW o \in Wallet, NEW i \in SlotIndex, ProcessRedemptionSlot(o, i)
      PROVE  Goal
  <2>1. UNCHANGED reputation
    BY <1>3 DEF ProcessRedemptionSlot
  <2> QED
    BY <1>3, <2>1, SettleAccounts, KeptReputation, RolesAssumption DEF CommissionInv
<1>4. ASSUME NEW o \in Wallet, NEW i \in SlotIndex, CloseExpiredReferral(o, i)
      PROVE  Goal
  BY <1>4, CloseAccounts, RolesAssumption
<1>5. ASSUME NEW o \in Wallet, NEW i \in SlotIndex, NEW n \in Contested, RaiseDispute(o, i, n)
      PROVE  Goal
  <2>1. UNCHANGED reputation
    BY <1>5 DEF RaiseDispute
  <2> QED
    BY <1>5, <2>1, RaiseAccounts, KeptReputation, RolesAssumption, ContestedAssumption
       DEF CommissionInv
<1>6. ASSUME NEW o \in Wallet, NEW i \in SlotIndex, ResolveExpiredDispute(o, i)
      PROVE  Goal
  BY <1>6, TimeoutAccounts, RolesAssumption
<1>7. ASSUME NEW a \in Wallet, NEW d \in Owner, ClaimCommission(a, d)
      PROVE  Goal
  <2>1. UNCHANGED reputation
    BY <1>7 DEF ClaimCommission
  <2> QED
    BY <1>7, <2>1, ClaimAccounts, KeptReputation, RolesAssumption DEF CommissionInv
<1>8. ASSUME NEW suspicion \in Suspicions, ComputeMerchantReputation(suspicion)
      PROVE  Goal
  BY <1>8, OracleAccounts, SuspicionsAssumption
<1> HIDE DEF Goal
<1>9. CASE CommissionNext
  BY <1>1, <1>2, <1>3, <1>4, <1>5, <1>6, <1>7, <1>8, <1>9 DEF CommissionNext
<1>10. CASE UNCHANGED allVars
  BY <1>1, <1>10 DEF allVars
<1> QED
  BY <1>9, <1>10

LEMMA CommissionInvariant == CommissionSpec => []CommissionInv
<1>1. CommissionInit => CommissionInv
  BY CommissionStarts
<1>2. CommissionInv /\ [CommissionNext]_allVars => CommissionInv'
  BY CommissionKept
<1> QED
  BY <1>1, <1>2, PTL DEF CommissionSpec

\* Every account of the commission loop stays well formed: counters in u64,
\* dust below a token, scores within 0..10000, the transfers of
\* claim_commission included.
THEOREM CommissionTypesHold == CommissionSpec => []CommissionTypeOK
<1>1. CommissionInv => CommissionTypeOK
  BY DEF CommissionInv, BooksInv, AccountsOK, HistoriesOK, CommissionTypeOK
<1> QED
  BY <1>1, CommissionInvariant, PTL

\* Settlements, claims and disputes in any order: what a ledger earned is
\* claimable, was paid, or was lost to an upheld dispute.
THEOREM LedgersBalance == CommissionSpec => []LedgerBalanced
<1>1. CommissionInv => LedgerBalanced
  BY DEF CommissionInv, HistoriesOK, LedgerGood, LedgerBalanced
<1> QED
  BY <1>1, CommissionInvariant, PTL

\* process_redemption_slot's split into whole tokens and dust loses nothing,
\* whatever rates and amounts it is run with.
THEOREM FractionsKept == CommissionSpec => []NoFractionLost
<1>1. CommissionInv => NoFractionLost
  BY DEF CommissionInv, HistoriesOK, LedgerGood, NoFractionLost
<1> QED
  BY <1>1, CommissionInvariant, PTL

\* Timeouts and the oracle's recomputation in any order: no dispute the
\* merchant let time out is forgotten.
THEOREM TimeoutsCount == CommissionSpec => []TimeoutsCostReputation
<1>1. CommissionInv => TimeoutsCostReputation
  BY DEF CommissionInv
<1> QED
  BY <1>1, CommissionInvariant, PTL

-----------------------------------------------------------------------------
(* A referrer's records and ledger *)

Pairs == Owner \X SlotIndex

RecordsSum == \A a \in Owner : Total(Earned, RecordsOf(a)) <= ledger[a].total_earned

RecordsInv == CommissionInv /\ RecordsSum

LEMMA PairsFinite == IsFiniteSet(Pairs)
<1>1. IsFiniteSet(SlotIndex)
  BY SlotsAssumption, FS_Interval DEF SlotIndex
<1> QED
  BY <1>1, SupplyAssumption, FS_Product DEF Pairs

LEMMA EarnedType ==
    /\ AccountsOK => Earned \in [Pairs -> Nat]
    /\ AccountsOK' => Earned' \in [Pairs -> Nat]
<1>1. \A r \in ReferralRecord : r.commission_earned \in Nat
  BY U64InNat DEF ReferralRecord
<1>2. ASSUME AccountsOK PROVE Earned \in [Pairs -> Nat]
  <2>1. \A p \in Pairs : record[p[1]][p[2]] \in ReferralRecord
    BY <1>2 DEF AccountsOK, Pairs
  <2> QED
    BY <1>1, <2>1 DEF Earned, Pairs
<1>3. ASSUME AccountsOK' PROVE Earned' \in [Pairs -> Nat]
  <2>1. \A p \in Pairs : record'[p[1]][p[2]] \in ReferralRecord
    BY <1>3 DEF AccountsOK, Pairs
  <2> QED
    BY <1>1, <2>1 DEF Earned, Pairs
<1> QED
  BY <1>2, <1>3

LEMMA RecordsOfWithin == \A a : RecordsOf(a) \in SUBSET Pairs
BY DEF RecordsOf, Pairs

\* Rewriting one summand, which may join or leave the sum.
LEMMA TotalAround ==
    ASSUME NEW D, IsFiniteSet(D), NEW f \in [D -> Nat], NEW g \in [D -> Nat], NEW p \in D,
           NEW S \in SUBSET D, NEW T \in SUBSET D, S \ {p} = T \ {p},
           \A q \in D \ {p} : g[q] = f[q],
           p \in T => g[p] = 0
    PROVE  Total(g, T) <= Total(f, S)
<1> DEFINE R == S \ {p}
<1>1. /\ IsFiniteSet(S) /\ IsFiniteSet(T) /\ IsFiniteSet(R) /\ R \in SUBSET D
      /\ f \in [D -> Int] /\ g \in [D -> Int]
  BY FS_Subset
<1>2. R = T \ {p}
  OBVIOUS
<1> HIDE DEF R
<1>3. Total(g, R) = Total(f, R)
  BY <1>1, TotalSame DEF R
<1>4. Total(f, R) \in Nat /\ Total(f, R) <= Total(f, S)
  <2>1. Total(f, R) \in Nat
    BY <1>1, TotalNat
  <2>2. p \in S => Total(f, S) = f[p] + Total(f, R)
    BY <1>1, TotalRemove DEF R
  <2>3. p \notin S => R = S
    BY DEF R
  <2>4. f[p] \in Nat
    OBVIOUS
  <2> QED
    BY <2>1, <2>2, <2>3, <2>4
<1>5. Total(g, T) = Total(g, R)
  <2>1. p \in T => Total(g, T) = g[p] + Total(g, R)
    BY <1>1, <1>2, TotalRemove
  <2>2. p \notin T => R = T
    BY <1>2
  <2> QED
    BY <1>3, <1>4, <2>1, <2>2
<1>6. Total(f, S) \in Nat
  BY <1>1, TotalNat
<1> QED
  BY <1>3, <1>4, <1>5, <1>6

LEMMA RecordsStart == CommissionInit => RecordsInv
<1> SUFFICES ASSUME CommissionInit PROVE RecordsInv
  OBVIOUS
<1>1. CommissionInv
  BY CommissionStarts
<1>2. Earned \in [Pairs -> Nat]
  BY <1>1, EarnedType DEF CommissionInv
<1>3. ASSUME NEW a \in Owner PROVE RecordsOf(a) = {}
  BY NoOwnerAssumption DEF CommissionInit, RecordsOf, EmptyRecord
<1>4. ASSUME NEW a \in Owner PROVE Total(Earned, RecordsOf(a)) <= ledger[a].total_earned
  <2>1. Total(Earned, RecordsOf(a)) = 0
    BY <1>3, TotalEmpty
  <2> QED
    BY <2>1 DEF CommissionInit, EmptyLedger
<1> QED
  BY <1>1, <1>4 DEF RecordsInv, RecordsSum

\* A step on neither the records nor what the ledgers earned.
LEMMA SameRecords ==
    ASSUME RecordsInv, CommissionInv', UNCHANGED record,
           \A a \in Owner : ledger'[a].total_earned = ledger[a].total_earned
    PROVE  RecordsInv'
<1>1. Earned' = Earned /\ \A a \in Owner : RecordsOf(a)' = RecordsOf(a)
  BY DEF Earned, RecordsOf
<1>2. \A a \in Owner : Total(Earned, RecordsOf(a)) <= ledger[a].total_earned
  BY DEF RecordsInv, RecordsSum
<1>3. \A a \in Owner : Total(Earned', RecordsOf(a)') <= ledger'[a].total_earned
  BY <1>1, <1>2
<1> QED
  BY <1>3 DEF RecordsInv, RecordsSum

\* A record is a record of its referrer and of nobody else.
LEMMA RecordsAfter ==
    ASSUME AccountsOK, NEW o \in Owner, NEW i \in SlotIndex, NEW r,
           record' = [record EXCEPT ![o] = [@ EXCEPT ![i] = r]]
    PROVE  /\ record'[o][i] = r
           /\ \A q \in Pairs \ {<<o, i>>} : Earned'[q] = Earned[q]
           /\ \A a \in Owner : RecordsOf(a)' \ {<<o, i>>} = RecordsOf(a) \ {<<o, i>>}
<1>1. \A q \in Pairs \ {<<o, i>>} : record'[q[1]][q[2]] = record[q[1]][q[2]]
  <2> SUFFICES ASSUME NEW x \in Owner, NEW j \in SlotIndex, x # o \/ j # i
               PROVE  record'[x][j] = record[x][j]
    BY DEF Pairs
  <2> QED
    BY DEF AccountsOK
<1>2. record'[o][i] = r
  BY DEF AccountsOK
<1>3. <<o, i>> \in Pairs /\ <<o, i>>[1] = o /\ <<o, i>>[2] = i
  BY DEF Pairs
<1>4. /\ \A q \in Pairs : Earned[q] = record[q[1]][q[2]].commission_earned
      /\ \A q \in Pairs : Earned'[q] = record'[q[1]][q[2]].commission_earned
  BY DEF Earned, Pairs
<1>5. \A a \in Owner, q \in Pairs :
         /\ q \in RecordsOf(a) <=> record[q[1]][q[2]].referrer = a
         /\ q \in RecordsOf(a)' <=> record'[q[1]][q[2]].referrer = a
  BY DEF RecordsOf, Pairs
<1>6. \A a \in Owner : RecordsOf(a) \subseteq Pairs /\ RecordsOf(a)' \subseteq Pairs
  BY DEF RecordsOf, Pairs
<1> QED
  BY <1>1, <1>2, <1>3, <1>4, <1>5, <1>6

\* A new record has earned nothing, and may replace one that had.
LEMMA AttributeRecords ==
    ASSUME RecordsInv, CommissionInv', NEW o \in Owner, NEW a \in Owner, NEW n, NEW bps, NEW life,
           AttributeReferral(o, a, n, bps, life)
    PROVE  RecordsInv'
<1> DEFINE i == gen[o].active_referrer_slots
           r == [EmptyRecord EXCEPT !.referrer = a,
                                    !.expires_at = IF life = 0 THEN 0 ELSE now + life,
                                    !.committed_commission_bps = bps, !.is_active = TRUE]
           p == <<o, i>>
<1>1. AccountsOK /\ AccountsOK'
  BY DEF RecordsInv, CommissionInv
<1>2. i \in SlotIndex /\ UNCHANGED ledger /\ r.commission_earned = 0
  BY DEF AttributeReferral, EmptyRecord
<1>3. record' = [record EXCEPT ![o] = [@ EXCEPT ![i] = r]]
  BY <1>1 DEF AttributeReferral, AccountsOK
<1> HIDE DEF r, i
<1>4. /\ \A q \in Pairs \ {p} : Earned'[q] = Earned[q]
      /\ Earned'[p] = 0
      /\ \A c \in Owner : RecordsOf(c)' \ {p} = RecordsOf(c) \ {p}
  <2>1. \A q \in Pairs \ {<<o, i>>} : Earned'[q] = Earned[q]
    BY <1>1, <1>2, <1>3, RecordsAfter
  <2>2. \A c \in Owner : RecordsOf(c)' \ {<<o, i>>} = RecordsOf(c) \ {<<o, i>>}
    BY <1>1, <1>2, <1>3, RecordsAfter
  <2>3. record'[o][i] = r
    BY <1>1, <1>2, <1>3 DEF AccountsOK
  <2>4. Earned'[p] = record'[o][i].commission_earned
    BY <1>2 DEF Earned
  <2> QED
    BY <1>2, <2>1, <2>2, <2>3, <2>4
<1>5. p \in Pairs
  BY <1>2 DEF Pairs
<1>6. Earned \in [Pairs -> Nat] /\ Earned' \in [Pairs -> Nat]
  BY <1>1, EarnedType
<1> HIDE DEF p
<1>7. ASSUME NEW c \in Owner
      PROVE  Total(Earned', RecordsOf(c)') <= ledger'[c].total_earned
  <2> DEFINE f == Earned
             g == Earned'
             S == RecordsOf(c)
             T == RecordsOf(c)'
  <2>1. S \in SUBSET Pairs /\ T \in SUBSET Pairs
    BY DEF RecordsOf, Pairs
  <2>2. /\ f \in [Pairs -> Nat] /\ g \in [Pairs -> Nat] /\ S \ {p} = T \ {p}
        /\ g[p] = 0 /\ \A q \in Pairs \ {p} : g[q] = f[q]
    BY <1>4, <1>6
  <2>3. Total(f, S) <= ledger[c].total_earned
    BY DEF RecordsInv, RecordsSum
  <2>4. ledger'[c].total_earned = ledger[c].total_earned /\ ledger[c].total_earned \in Nat
    BY <1>2, LedgerNumbers DEF RecordsInv, CommissionInv, HistoriesOK
  <2> HIDE DEF f, g, S, T
  <2>5. Total(g, T) <= Total(f, S)
    BY <1>5, <2>1, <2>2, PairsFinite, TotalAround
  <2>6. Total(f, S) \in Nat /\ Total(g, T) \in Nat
    <3>1. IsFiniteSet(S) /\ IsFiniteSet(T)
      BY <2>1, PairsFinite, FS_Subset
    <3> QED
      BY <2>1, <2>2, <3>1, TotalNat
  <2>7. Total(g, T) <= ledger'[c].total_earned
    BY <2>3, <2>4, <2>5, <2>6
  <2> QED
    BY <2>7 DEF g, T
<1> QED
  BY <1>7 DEF RecordsInv, RecordsSum

\* A credit earns the ledger at least what it earns the record.
LEMMA CreditedEarns ==
    ASSUME NEW l \in CommissionLedger, NEW exact \in Nat
    PROVE  Credited(l, exact).total_earned >= l.total_earned + (exact \div 10000)
<1> DEFINE d == l.dust_tenths_accumulated
           gain == (exact \div 10000) + ((d + (exact % 10000)) \div 10000)
           more == (d + (exact % 10000)) \div 10000
<1>1. l.total_earned \in Nat /\ d \in Nat
  BY LedgerNumbers
<1>2. Credited(l, exact).total_earned = l.total_earned + gain
  <2>1. Credited(l, exact) = WithAmounts(l, l.claimable + gain, (d + (exact % 10000)) % 10000,
                                         l.total_earned + gain, l.total_claimed)
    BY CreditedAmounts
  <2> HIDE DEF gain, d
  <2> QED
    BY <2>1, WithAmountsFields
<1>3. exact \div 10000 \in Nat /\ more \in Nat
  <2> HIDE DEF d
  <2>1. exact % 10000 \in Nat /\ exact \div 10000 \in Nat
    OBVIOUS
  <2> QED
    BY <1>1, <2>1
<1>4. gain = (exact \div 10000) + more
  OBVIOUS
<1> HIDE DEF gain, more
<1> QED
  BY <1>1, <1>2, <1>3, <1>4

\* A settlement adds to one record and to the ledger of its referrer.
LEMMA SettleRecords ==
    ASSUME RecordsInv, CommissionInv', NEW o \in Owner, NEW i \in SlotIndex,
           ProcessRedemptionSlot(o, i)
    PROVE  RecordsInv'
<1> DEFINE r == record[o][i]
           exact == gen[o].redemption_slot_consumed[i] * r.committed_commission_bps
           whole == exact \div 10000
           s == [r EXCEPT !.commission_earned = @ + whole]
           b == r.referrer
           p == <<o, i>>
<1>1. /\ AccountsOK /\ AccountsOK' /\ HistoriesOK /\ p \in Pairs
      /\ record \in [Owner -> [SlotIndex -> ReferralRecord]] /\ r \in ReferralRecord
  BY DEF RecordsInv, CommissionInv, AccountsOK, Pairs
<1>2. CASE UNCHANGED <<ledger, record, accrued>>
  BY <1>2, SameRecords
<1>3. ASSUME ledger' = [ledger EXCEPT ![b] = Credited(@, exact)],
             record' = [record EXCEPT ![o][i].commission_earned = @ + whole]
      PROVE  RecordsInv'
  <2>1. exact \in Nat
    <3> DEFINE consumed == gen[o].redemption_slot_consumed[i]
               bps == r.committed_commission_bps
    <3>1. consumed \in Nat
      BY U64InNat DEF TokenGeneration, RecordsInv, CommissionInv, BooksInv, TypeOK
    <3>2. bps \in Nat
      BY <1>1, RateInNat DEF ReferralRecord
    <3> HIDE DEF consumed, bps
    <3>3. consumed * bps \in Nat
      BY <3>1, <3>2
    <3> QED
      BY <3>3 DEF consumed, bps
  <2> HIDE DEF exact
  <2>2. whole \in Nat
    BY <2>1
  <2> HIDE DEF whole
  <2>3. record' = [record EXCEPT ![o] = [@ EXCEPT ![i] = s]]
    BY <1>1, <1>3
  <2>4. s.referrer = b /\ s.commission_earned = r.commission_earned + whole
    BY <1>1 DEF ReferralRecord
  <2>5. record'[o][i] = s
    BY <1>1, <2>3
  <2> HIDE DEF s
  <2>6. \A q \in Pairs \ {p} : Earned'[q] = Earned[q]
    <3> HIDE DEF r
    <3> QED
      BY <1>1, <2>3, RecordsAfter
  <2>7. Earned[p] = r.commission_earned /\ Earned'[p] = Earned[p] + whole
    <3>1. Earned[p] = record[o][i].commission_earned /\ Earned'[p] = record'[o][i].commission_earned
      BY DEF Earned
    <3> QED
      BY <2>4, <2>5, <3>1
  <2>8. ASSUME NEW c \in Owner PROVE RecordsOf(c)' = RecordsOf(c)
    <3>1. RecordsOf(c)' \ {p} = RecordsOf(c) \ {p}
      BY <1>1, <2>3, RecordsAfter
    <3>2. p \in RecordsOf(c) <=> b = c
      BY DEF RecordsOf
    <3>3. p \in RecordsOf(c)' <=> b = c
      BY <2>4, <2>5 DEF RecordsOf
    <3> QED
      BY <3>1, <3>2, <3>3
  <2>9. Earned \in [Pairs -> Nat] /\ Earned' \in [Pairs -> Nat]
    BY <1>1, EarnedType
  <2>10. ASSUME NEW c \in Owner
         PROVE  Total(Earned', RecordsOf(c)') <= ledger'[c].total_earned
    <3> DEFINE f == Earned
               g == Earned'
               S == RecordsOf(c)
    <3>1. S \in SUBSET Pairs /\ IsFiniteSet(S)
      BY PairsFinite, FS_Subset DEF RecordsOf, Pairs
    <3>2. Total(f, S) <= ledger[c].total_earned
      BY DEF RecordsInv, RecordsSum
    <3>3. ledger[c] \in CommissionLedger /\ ledger[c].total_earned \in Nat
      BY <1>1, LedgerNumbers DEF HistoriesOK
    <3>4. p \in S <=> b = c
      BY DEF RecordsOf
    <3>5. /\ f \in [Pairs -> Nat] /\ g \in [Pairs -> Nat]
          /\ f \in [Pairs -> Int] /\ g \in [Pairs -> Int]
          /\ g[p] = f[p] + whole /\ \A q \in Pairs \ {p} : g[q] = f[q]
      BY <2>6, <2>7, <2>9
    <3>6. RecordsOf(c)' = S
      BY <2>8
    <3> HIDE DEF f, g, S
    <3>7. Total(f, S) \in Nat
      BY <3>1, <3>5, TotalNat
    <3>8. CASE b = c
      <4>1. Total(g, S) = Total(f, S) + g[p] - f[p]
        BY <1>1, <3>1, <3>4, <3>5, <3>8, TotalUpdate
      <4>2. f[p] \in Nat
        BY <1>1, <3>5
      <4>3. Total(g, S) = Total(f, S) + whole
        BY <2>2, <3>5, <3>7, <4>1, <4>2
      <4>4. ledger'[c] = Credited(ledger[c], exact)
        BY <1>1, <1>3, <3>8 DEF HistoriesOK
      <4>5. ledger'[c].total_earned >= ledger[c].total_earned + whole
        BY <2>1, <3>3, <4>4, CreditedEarns DEF whole
      <4>6. ledger'[c].total_earned \in Nat
        BY LedgerNumbers DEF CommissionInv, HistoriesOK
      <4>7. Total(g, S) <= ledger'[c].total_earned
        BY <2>2, <3>2, <3>3, <3>7, <4>3, <4>5, <4>6
      <4> QED
        BY <3>6, <4>7 DEF g
    <3>9. CASE b # c
      <4>1. Total(g, S) = Total(f, S)
        <5>1. \A q \in S : g[q] = f[q]
          BY <3>1, <3>4, <3>5, <3>9
        <5> QED
          BY <3>1, <5>1, TotalSame
      <4>2. ledger'[c] = ledger[c]
        BY <1>1, <1>3, <3>9 DEF HistoriesOK
      <4> QED
        BY <3>2, <3>6, <4>1, <4>2 DEF g
    <3> QED
      BY <3>8, <3>9
  <2> QED
    BY <2>10 DEF RecordsInv, RecordsSum
<1> QED
  BY <1>2, <1>3 DEF ProcessRedemptionSlot

LEMMA RecordsKept == RecordsInv /\ [CommissionNext]_allVars => RecordsInv'
<1> SUFFICES ASSUME RecordsInv, [CommissionNext]_allVars PROVE RecordsInv'
  OBVIOUS
<1>1. CommissionInv /\ CommissionInv' /\ ledger \in [Owner -> CommissionLedger]
  BY CommissionKept DEF RecordsInv, CommissionInv, HistoriesOK
<1>2. CASE UNCHANGED commissionVars
  BY <1>1, <1>2, SameRecords DEF commissionVars
<1>3. ASSUME NEW o \in Wallet, NEW a \in Wallet, NEW n \in Amounts, NEW bps \in Bps,
             NEW life \in Lifetimes, AttributeReferral(o, a, n, bps, life)
      PROVE  RecordsInv'
  BY <1>1, <1>3, AttributeRecords, RolesAssumption
<1>4. ASSUME NEW o \in Wallet, NEW i \in SlotIndex, ProcessRedemptionSlot(o, i)
      PROVE  RecordsInv'
  BY <1>1, <1>4, SettleRecords, RolesAssumption
<1>5. ASSUME NEW o \in Wallet, NEW i \in SlotIndex, CloseExpiredReferral(o, i)
      PROVE  RecordsInv'
  BY <1>1, <1>5, SameRecords DEF CloseExpiredReferral
<1>6. \A l \in CommissionLedger : \A n :
         Frozen(l, n).total_earned = l.total_earned /\ Thawed(l).total_earned = l.total_earned
  BY DEF Frozen, Thawed, CommissionLedger
<1>7. ASSUME NEW o \in Wallet, NEW i \in SlotIndex, NEW n \in Contested, RaiseDispute(o, i, n)
      PROVE  RecordsInv'
  <2> DEFINE b == record[o][i].referrer
  <2>1. ledger' = [ledger EXCEPT ![b] = Frozen(@, n)] /\ UNCHANGED record
    BY <1>1, <1>7 DEF RaiseDispute, Frozen
  <2> HIDE DEF b
  <2>2. \A a \in Owner : ledger'[a].total_earned = ledger[a].total_earned
    BY <1>1, <1>6, <2>1
  <2> QED
    BY <1>1, <2>1, <2>2, SameRecords
<1>8. ASSUME NEW o \in Wallet, NEW i \in SlotIndex, ResolveExpiredDispute(o, i)
      PROVE  RecordsInv'
  <2> DEFINE b == record[o][i].referrer
  <2>1. ledger' = [ledger EXCEPT ![b] = Thawed(@)] /\ UNCHANGED record
    BY <1>1, <1>8 DEF ResolveExpiredDispute, Thawed
  <2> HIDE DEF b
  <2>2. \A a \in Owner : ledger'[a].total_earned = ledger[a].total_earned
    BY <1>1, <1>6, <2>1
  <2> QED
    BY <1>1, <2>1, <2>2, SameRecords
<1>9. ASSUME NEW c \in Wallet, NEW d \in Owner, ClaimCommission(c, d)
      PROVE  RecordsInv'
  <2>1. \A l \in CommissionLedger : Claimed(l).total_earned = l.total_earned
    BY DEF Claimed, CommissionLedger
  <2>2. ledger' = [ledger EXCEPT ![c] = Claimed(@)] /\ UNCHANGED record
    BY <1>1, <1>9 DEF ClaimCommission, Claimed
  <2>3. \A a \in Owner : ledger'[a].total_earned = ledger[a].total_earned
    BY <1>1, <2>1, <2>2
  <2> QED
    BY <1>1, <2>2, <2>3, SameRecords
<1>10. ASSUME NEW suspicion \in Suspicions, ComputeMerchantReputation(suspicion)
       PROVE  RecordsInv'
  BY <1>1, <1>10, SameRecords DEF ComputeMerchantReputation
<1>11. CASE UNCHANGED allVars
  BY <1>2, <1>11 DEF allVars
<1>12. CASE CommissionNext
  BY <1>2, <1>3, <1>4, <1>5, <1>7, <1>8, <1>9, <1>10, <1>12 DEF CommissionNext
<1> QED
  BY <1>11, <1>12

\* process_redemption_slot advances a referral record and the referrer's ledger
\* in two accounts: whatever is settled, closed, attributed anew, claimed or
\* disputed in between, the records of a referrer together never show more
\* earned than the ledger does.
THEOREM RecordsStayWithinLedger == CommissionSpec => []RecordsWithinLedger
<1>1. RecordsInv => RecordsWithinLedger
  BY DEF RecordsInv, RecordsSum, RecordsWithinLedger, Total
<1> QED
  BY <1>1, RecordsStart, RecordsKept, PTL DEF CommissionSpec

-----------------------------------------------------------------------------
(* The supply, with the commission loop *)

\* The books of the accounts, and no more on them than was minted.
LEMMA StillHoldings ==
    ASSUME SupplyInv, BooksInv', NEW o \in initialized, NEW g, Tracked(g) = Tracked(gen[o]),
           gen' = [gen EXCEPT ![o] = g], UNCHANGED tokens
    PROVE  SupplyInv'
<1>1. gen \in [Owner -> TokenGeneration] /\ Wallet \subseteq Owner /\ o \in Owner
  BY RolesAssumption DEF SupplyInv, BooksInv, TypeOK
<1>2. \A w \in Wallet : Tracked(gen'[w]) = Tracked(gen[w])
  BY <1>1
<1> QED
  BY <1>2, SameHoldings

LEMMA AttributeHoldings ==
    ASSUME SupplyInv, NEW o \in Owner, NEW a, NEW n \in U64, NEW bps, NEW life,
           AttributeReferral(o, a, n, bps, life)
    PROVE  SupplyInv'
<1> DEFINE i == gen[o].active_referrer_slots
           g == [gen[o] EXCEPT
                    !.referrer_slots[i] = [tokens_attributed |-> n, is_active |-> TRUE],
                    !.active_referrer_slots = @ + 1]
<1>1. gen \in [Owner -> TokenGeneration] /\ gen[o] \in TokenGeneration /\ BooksInv'
  BY AttributeBooks DEF SupplyInv, BooksInv, TypeOK
<1>2. /\ o \in initialized /\ i \in SlotIndex
      /\ gen' = [gen EXCEPT ![o] = g] /\ UNCHANGED tokens
  BY <1>1 DEF AttributeReferral
<1>3. Tracked(g) = Tracked(gen[o])
  BY <1>1, <1>2, SlotFilled
<1> HIDE DEF g, i
<1> QED
  BY <1>1, <1>2, <1>3, StillHoldings

LEMMA SettleHoldings ==
    ASSUME SupplyInv, NEW o \in Owner, NEW i \in SlotIndex, ProcessRedemptionSlot(o, i)
    PROVE  SupplyInv'
<1> DEFINE g == [gen[o] EXCEPT !.redemption_slots_settled = @ \cup {i}]
<1>1. gen \in [Owner -> TokenGeneration] /\ gen[o] \in TokenGeneration /\ BooksInv'
  BY SettleBooks DEF SupplyInv, BooksInv, TypeOK
<1>2. o \in initialized /\ gen' = [gen EXCEPT ![o] = g] /\ UNCHANGED tokens
  BY <1>1 DEF ProcessRedemptionSlot
<1>3. Tracked(g) = Tracked(gen[o])
  BY <1>1, SlotSettled
<1> HIDE DEF g
<1> QED
  BY <1>1, <1>2, <1>3, StillHoldings

LEMMA ClaimHoldings ==
    ASSUME SupplyInv, ledger \in [Owner -> CommissionLedger], NEW a \in Owner, NEW d \in Owner,
           ClaimCommission(a, d)
    PROVE  SupplyInv'
<1> DEFINE n == GrossToSend(ledger[a].claimable)
<1>1. ledger[a].claimable \in Nat
  BY LedgerNumbers
<1>2. n \in U64
  BY <1>1, GrossType DEF SupplyInv, BooksInv, TypeOK
<1>3. BooksInv' /\ Treasury \in Owner /\ Transfer("treasury", Treasury, d, n)
  BY ClaimBooks DEF SupplyInv, ClaimCommission
<1> HIDE DEF n
<1> QED
  BY <1>2, <1>3, TransferHoldings

LEMMA CommissionSupply ==
    ASSUME SupplyInv, ledger \in [Owner -> CommissionLedger], [CommissionNext]_allVars
    PROVE  SupplyInv'
<1>1. CASE FlowStep
  BY <1>1, FlowIsNext, NextSupply
<1>2. ASSUME NEW o \in Wallet, NEW a \in Wallet, NEW n \in Amounts, NEW bps \in Bps,
             NEW life \in Lifetimes, AttributeReferral(o, a, n, bps, life)
      PROVE  SupplyInv'
  BY <1>2, AttributeHoldings, AmountsAssumption, RolesAssumption
<1>3. ASSUME NEW o \in Wallet, NEW i \in SlotIndex, ProcessRedemptionSlot(o, i)
      PROVE  SupplyInv'
  BY <1>3, SettleHoldings, RolesAssumption
<1>4. ASSUME NEW a \in Wallet, NEW d \in Owner, ClaimCommission(a, d)
      PROVE  SupplyInv'
  BY <1>4, ClaimHoldings, RolesAssumption
<1>5. CASE UNCHANGED vars
  BY <1>5, NextSupply
<1>6. ASSUME NEW o, NEW i, NEW n, NEW suspicion,
             \/ CloseExpiredReferral(o, i)
             \/ RaiseDispute(o, i, n)
             \/ ResolveExpiredDispute(o, i)
             \/ ComputeMerchantReputation(suspicion)
      PROVE  UNCHANGED vars
  BY <1>6 DEF CloseExpiredReferral, RaiseDispute, ResolveExpiredDispute, ComputeMerchantReputation
<1>7. CASE UNCHANGED allVars
  BY <1>5, <1>7 DEF allVars
<1>8. CASE CommissionNext
  BY <1>1, <1>2, <1>3, <1>4, <1>5, <1>6, <1>8 DEF CommissionNext
<1> QED
  BY <1>7, <1>8

\* Issuances, shares, redemptions, claims and disputes in any order: no more is
\* on the customers' books and in the other owners' accounts than was minted.
THEOREM LoopWithinSupply == CommissionSpec => [](Total(Held, Owner) <= Supply)
<1>1. CommissionInit => SupplyInv
  BY InitSupply DEF CommissionInit
<1>2. CommissionInv /\ SupplyInv /\ [CommissionNext]_allVars => SupplyInv'
  BY CommissionSupply DEF CommissionInv, HistoriesOK
<1>3. SupplyInv => Total(Held, Owner) <= Supply
  BY DEF SupplyInv
<1> QED
  BY <1>1, <1>2, <1>3, CommissionInvariant, PTL DEF CommissionSpec

-----------------------------------------------------------------------------
(* What a claim pays *)

LEMMA FeeRateBound ==
    ASSUME config \in MerchantConfig
    PROVE  config.transfer_fee_bps \in Nat /\ config.transfer_fee_bps <= 9999
<1>1. \A b : b \in 0..9999 => b \in Nat /\ b <= 9999
  OBVIOUS
<1> QED
  BY <1>1, ConfigRate

\* k is the part of the gross amount g that is not the fee, before rounding; m
\* is the fee before rounding; rest is what the gross-up lost by rounding.
LEMMA RoundedTwice ==
    ASSUME NEW c \in Nat, NEW d \in Nat, d <= 10000, NEW g \in Nat, NEW rest \in Nat, rest < d,
           NEW k \in Int, NEW m \in Nat,
           10000 * c = k + rest, k + m = 10000 * g
    PROVE  LET net == g - ((m + 9999) \div 10000)
           IN net \in {c - 1, c} /\ (rest = 0 => net = c)
<1> DEFINE fee == (m + 9999) \div 10000
<1>1. fee \in Nat /\ 10000 * fee <= m + 9999 /\ m <= 10000 * fee
  OBVIOUS
<1> HIDE DEF fee
<1>2. rest < 10000
  OBVIOUS
<1>3. 10000 * g = 10000 * c + m - rest
  OBVIOUS
<1>4. 10000 * (g - fee) <= 10000 * c /\ 10000 * (g - fee) > 10000 * c - 20000
  BY <1>1, <1>2, <1>3
<1>5. rest = 0 => 10000 * (g - fee) > 10000 * c - 10000
  BY <1>1, <1>3
<1>6. g - fee \in {c - 1, c} /\ (rest = 0 => g - fee = c)
  BY <1>1, <1>4, <1>5
<1> QED
  BY <1>6 DEF fee

\* The gross amount g of a claim of c, and the fee on it, at fee rate f.
GrossedUp(c, f, g, fee) ==
    g = (c * 10000) \div (10000 - f) /\ fee = (g * f + 9999) \div 10000

\* The division that grosses a claim up, and the fee taken back out of it.
LEMMA GrossArithmetic ==
    ASSUME NEW c \in Nat, NEW f \in Nat, f <= 9999, NEW g, NEW fee, GrossedUp(c, f, g, fee)
    PROVE  /\ g \in Nat /\ fee \in Nat
           /\ g - fee \in {c - 1, c}
           /\ (c * 10000) % (10000 - f) = 0 => g - fee = c
<1> DEFINE d == 10000 - f
           q == c * 10000
           rest == q % d
           k == d * g
           m == g * f
<1>1. d \in Nat /\ d > 0 /\ d <= 10000 /\ q \in Nat
  OBVIOUS
<1>2. g \in Nat /\ rest \in Nat /\ rest < d /\ q = k + rest
  <2>1. g = q \div d /\ rest = q % d /\ k = d * g
    BY DEF GrossedUp
  <2>2. d \in Nat /\ d > 0 /\ q \in Nat
    BY <1>1
  <2> HIDE DEF d, q, rest, k
  <2> QED
    BY <2>1, <2>2
<1> HIDE DEF rest
<1>3. k \in Int /\ m \in Nat /\ k + m = 10000 * g
  BY <1>2
<1>4. 10000 * c = k + rest
  BY <1>2
<1> HIDE DEF k, m, d
<1>5. LET net == g - ((m + 9999) \div 10000)
      IN net \in {c - 1, c} /\ (rest = 0 => net = c)
  BY <1>1, <1>2, <1>3, <1>4, RoundedTwice
<1>6. fee = (m + 9999) \div 10000
  BY DEF m, GrossedUp
<1>7. fee \in Nat
  BY <1>3, <1>6
<1> QED
  BY <1>2, <1>5, <1>6, <1>7 DEF rest, d

\* A claim whose gross amount fits a u64 is not cut by the cast.
LEMMA UncutGross ==
    ASSUME NEW g \in Nat, g <= MaxU64
    PROVE  g % (MaxU64 + 1) = g
BY WidthAssumption

\* What claim_commission on a's ledger brings one account.
Paid(a) ==
    LET owed == ledger[a].claimable
        rate == 10000 - config.transfer_fee_bps
        Got(d) == tokens'[d] - tokens[d]
    IN (owed * 10000) \div rate <= MaxU64
         => \E d \in Owner :
              /\ Got(d) \in {owed - 1, owed}
              /\ (owed * 10000) % rate = 0 => Got(d) = owed
              /\ \A o \in Owner \ {d, Treasury} : Got(o) = 0

LEMMA ClaimPays ==
    ASSUME CommissionInv, NEW a \in Wallet, NEW p \in Owner, ClaimCommission(a, p)
    PROVE  Paid(a)
<1> DEFINE c == ledger[a].claimable
           f == config.transfer_fee_bps
           d == 10000 - f
           g == (c * 10000) \div d
           fee == (g * f + 9999) \div 10000
           got == tokens'[p] - tokens[p]
<1>1. /\ c \in Nat /\ f \in Nat /\ f <= 9999
      /\ tokens \in [Owner -> Int] /\ a \in Owner
  BY LedgerNumbers, FeeRateBound, RolesAssumption
     DEF CommissionInv, HistoriesOK, BooksInv, TypeOK
<1>2. /\ tokens' = [tokens EXCEPT ![Treasury] = @ - GrossToSend(c),
                                  ![p] = @ + GrossToSend(c) - TransferFee(GrossToSend(c))]
      /\ p # Treasury
  BY DEF ClaimCommission, Transfer
<1>3. GrossToSend(c) = g % (MaxU64 + 1) /\ TransferFee(g) = fee
  BY DEF GrossToSend, TransferFee
<1>4. g \in Nat /\ fee \in Nat /\ g - fee \in {c - 1, c} /\ ((c * 10000) % d = 0 => g - fee = c)
  <2>1. GrossedUp(c, f, g, fee)
    BY DEF GrossedUp
  <2>2. c \in Nat /\ f \in Nat /\ f <= 9999
    BY <1>1
  <2> HIDE DEF c, f, g, fee
  <2>3. /\ g \in Nat /\ fee \in Nat /\ g - fee \in {c - 1, c}
        /\ (c * 10000) % (10000 - f) = 0 => g - fee = c
    BY <2>1, <2>2, GrossArithmetic
  <2> QED
    BY <2>3
<1> HIDE DEF g, fee
<1>5. \A o \in Owner \ {p, Treasury} : tokens'[o] - tokens[o] = 0
  BY <1>1, <1>2
<1>6. ASSUME g <= MaxU64 PROVE got = g - fee
  <2>1. GrossToSend(c) = g
    BY <1>3, <1>4, <1>6, UncutGross
  <2>2. tokens'[p] = tokens[p] + g - fee
    BY <1>1, <1>2, <1>3, <2>1
  <2> QED
    BY <1>1, <1>4, <2>2
<1> HIDE DEF got
<1>7. g <= MaxU64 => got \in {c - 1, c} /\ ((c * 10000) % d = 0 => got = c)
  BY <1>4, <1>6
<1> QED
  BY <1>5, <1>7 DEF Paid, g, got

\* Whose total_claimed a step may raise.
Unclaimed(a) == ledger'[a].total_claimed = ledger[a].total_claimed

LEMMA LedgerClaims ==
    ASSUME CommissionInv, NEW b, NEW l, ledger' = [ledger EXCEPT ![b] = l],
           b \in Owner => l.total_claimed = ledger[b].total_claimed
    PROVE  \A a \in Owner : Unclaimed(a)
BY DEF CommissionInv, HistoriesOK, Unclaimed

LEMMA SettleClaims ==
    ASSUME CommissionInv, NEW o \in Owner, NEW i \in SlotIndex, ProcessRedemptionSlot(o, i)
    PROVE  \A a \in Owner : Unclaimed(a)
<1> DEFINE r == record[o][i]
           exact == gen[o].redemption_slot_consumed[i] * r.committed_commission_bps
           b == r.referrer
           l == Credited(ledger[b], exact)
<1>1. UNCHANGED ledger \/ ledger' = [ledger EXCEPT ![b] = l]
  BY DEF ProcessRedemptionSlot, CommissionInv, HistoriesOK
<1>2. b \in Owner => l.total_claimed = ledger[b].total_claimed
  <2> HIDE DEF exact, b
  <2>1. b \in Owner => ledger[b] \in CommissionLedger
    BY DEF CommissionInv, HistoriesOK
  <2> QED
    BY <2>1, CreditedAmounts, WithAmountsFields
<1> HIDE DEF b, l
<1> QED
  BY <1>1, <1>2, LedgerClaims DEF Unclaimed

\* claim_commission alone counts a payment, and only that of the claimant.
LEMMA ClaimsAreClaims ==
    ASSUME CommissionInv, [CommissionNext]_allVars
    PROVE  \A a \in Wallet : Unclaimed(a) \/ Paid(a)
<1>1. ledger \in [Owner -> CommissionLedger] /\ Wallet \subseteq Owner
  BY RolesAssumption DEF CommissionInv, HistoriesOK
<1> SUFFICES ASSUME NEW a \in Wallet PROVE Unclaimed(a) \/ Paid(a)
  OBVIOUS
<1>2. CASE UNCHANGED ledger
  BY <1>2 DEF Unclaimed
<1>3. ASSUME NEW o \in Wallet, NEW i \in SlotIndex, ProcessRedemptionSlot(o, i)
      PROVE  Unclaimed(a)
  BY <1>1, <1>3, SettleClaims
<1>4. ASSUME NEW o \in Wallet, NEW i \in SlotIndex, NEW n \in Contested, RaiseDispute(o, i, n)
      PROVE  Unclaimed(a)
  <2> DEFINE b == record[o][i].referrer
             l == Frozen(ledger[b], n)
  <2>1. ledger' = [ledger EXCEPT ![b] = l]
    BY <1>1, <1>4 DEF RaiseDispute, Frozen
  <2>2. b \in Owner => l.total_claimed = ledger[b].total_claimed
    BY <1>1, FrozenLedger, ContestedAssumption
  <2> HIDE DEF b, l
  <2> QED
    BY <1>1, <2>1, <2>2, LedgerClaims
<1>5. ASSUME NEW o \in Wallet, NEW i \in SlotIndex, ResolveExpiredDispute(o, i)
      PROVE  Unclaimed(a)
  <2> DEFINE b == record[o][i].referrer
             l == Thawed(ledger[b])
  <2>1. ledger' = [ledger EXCEPT ![b] = l]
    BY <1>1, <1>5 DEF ResolveExpiredDispute, Thawed
  <2>2. b \in Owner => l.total_claimed = ledger[b].total_claimed
    BY <1>1, ThawedLedger
  <2> HIDE DEF b, l
  <2> QED
    BY <1>1, <2>1, <2>2, LedgerClaims
<1>6. ASSUME NEW c \in Wallet, NEW d \in Owner, ClaimCommission(c, d)
      PROVE  Unclaimed(a) \/ Paid(a)
  <2>1. CASE c = a
    BY <1>6, <2>1, ClaimPays
  <2>2. CASE c # a
    BY <1>1, <1>6, <2>2 DEF ClaimCommission, Unclaimed
  <2> QED
    BY <2>1, <2>2
<1>7. ASSUME NEW o, NEW i, NEW b, NEW n, NEW bps, NEW life, NEW suspicion,
             \/ AttributeReferral(o, b, n, bps, life)
             \/ CloseExpiredReferral(o, i)
             \/ ComputeMerchantReputation(suspicion)
      PROVE  UNCHANGED ledger
  BY <1>7 DEF AttributeReferral, CloseExpiredReferral, ComputeMerchantReputation
<1>8. CASE UNCHANGED commissionVars
  BY <1>2, <1>8 DEF commissionVars
<1>9. CASE CommissionNext
  BY <1>2, <1>3, <1>4, <1>5, <1>6, <1>7, <1>8, <1>9 DEF CommissionNext
<1> QED
  BY <1>8, <1>9 DEF allVars

\* Whatever the fee, the rate and the claim, a claim whose gross amount fits a u64
\* brings the account it names what the ledger owed, or one token less when the
\* gross-up leaves a rest, and brings or costs nobody but the treasury anything;
\* and no other instruction counts anything as claimed.  Whose account it is the
\* program leaves open, and so does the theorem.
THEOREM ClaimsPay == CommissionSpec => ClaimsPayAsEarned
<1>1. ASSUME CommissionInv, [CommissionNext]_allVars PROVE ClaimPaid
  <2> SUFFICES ASSUME NEW a \in Wallet, ledger'[a].total_claimed > ledger[a].total_claimed
               PROVE  Paid(a)
    BY DEF ClaimPaid, Paid
  <2>1. ledger[a].total_claimed \in Nat
    BY <1>1, LedgerNumbers, RolesAssumption DEF CommissionInv, HistoriesOK
  <2>2. ~Unclaimed(a)
    BY <2>1 DEF Unclaimed
  <2> QED
    BY <1>1, <2>2, ClaimsAreClaims
<1>2. CommissionInv /\ [CommissionNext]_allVars => [ClaimPaid]_allVars
  BY <1>1
<1> QED
  BY <1>2, CommissionInvariant, PTL DEF CommissionSpec, ClaimsPayAsEarned

=============================================================================
