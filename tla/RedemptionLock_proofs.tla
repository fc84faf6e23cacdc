----------------------- MODULE RedemptionLock_proofs -----------------------
(***************************************************************************)
(* The commission loop implements RedemptionLock, for any number of        *)
(* wallets, slots and tokens.  A step moves the lock of at most one owner; *)
(* it starts a redemption only where none is pending, settles one slot, or *)
(* ends a redemption that owes nothing; every other account keeps its      *)
(* lock, the receiver of a transfer included.  Nor does a redemption       *)
(* charge a slot beyond its attribution, or fail a customer who has the    *)
(* tokens, waits for nothing and let nothing expire; unless a burn named   *)
(* the books of one owner and the tokens of another.                       *)
(***************************************************************************)
EXTENDS Commission_proofs

\* Slots the pending redemption of g still owes.
DueSlots(g) == IF g.redemption_pending THEN ActiveSlots(g) \ g.redemption_slots_settled ELSE {}

Settles(g, h) ==
    /\ g.redemption_pending /\ h.redemption_pending
    /\ h.redemption_gen2_consumed = g.redemption_gen2_consumed
    /\ h.redemption_slot_consumed = g.redemption_slot_consumed
    /\ \E i \in SlotIndex : i \in DueSlots(g) /\ DueSlots(h) = DueSlots(g) \ {i}

Ends(g, h) == g.redemption_pending /\ DueSlots(g) = {} /\ ~h.redemption_pending

\* What one step may do to the lock of one account.
LockMoves(g, h) == SameLock(g, h) \/ ~g.redemption_pending \/ Settles(g, h) \/ Ends(g, h)

OthersKeep(o) == \A w \in Owner \ {o} : SameLock(gen[w], gen'[w])

\* The lock of at most one owner moves.
OneLock == \E o \in Owner : OthersKeep(o) /\ LockMoves(gen[o], gen'[o])

LEMMA SameLockReflexive == \A g : SameLock(g, g)
BY DEF SameLock

LEMMA SameDue == \A g, h : SameLock(g, h) => DueSlots(h) = DueSlots(g)
BY DEF SameLock, DueSlots, ActiveSlots

LEMMA AccountLock ==
    ASSUME TypeOK, NEW o \in Owner, NEW g, gen' = [gen EXCEPT ![o] = g], LockMoves(gen[o], g)
    PROVE  OneLock
<1>1. gen'[o] = g /\ \A w \in Owner \ {o} : gen'[w] = gen[w]
  BY DEF TypeOK
<1> QED
  BY <1>1, SameLockReflexive DEF OneLock, OthersKeep

LEMMA NoLock ==
    ASSUME UNCHANGED gen
    PROVE  OneLock
<1>1. Merchant \in Owner
  BY MerchantAssumption
<1> QED
  BY <1>1, SameLockReflexive DEF OneLock, OthersKeep, LockMoves

LEMMA TransferLock ==
    ASSUME TypeOK, NEW path, NEW s \in Owner, NEW d \in Owner, NEW n \in U64,
           Transfer(path, s, d, n)
    PROVE  OneLock
<1> DEFINE a == Hook(s, d, n).src
           b == Hook(s, d, n).dst
<1>1. s # d /\ Hook(s, d, n).ok /\ gen' = [gen EXCEPT ![s] = a, ![d] = b]
  BY DEF Transfer
<1>2. SameLock(gen[d], b) /\ (SameLock(gen[s], a) \/ ~gen[s].redemption_pending)
  BY <1>1, HookFrame DEF HookKeeps, Undisturbed
<1>3. gen \in [Owner -> TokenGeneration]
  BY DEF TypeOK
<1> HIDE DEF a, b
<1>4. gen'[s] = a /\ gen'[d] = b /\ \A w \in Owner \ {s, d} : gen'[w] = gen[w]
  BY <1>1, <1>3
<1>5. OthersKeep(s)
  BY <1>2, <1>4, SameLockReflexive DEF OthersKeep
<1> QED
  BY <1>2, <1>4, <1>5 DEF OneLock, LockMoves

LEMMA FlowLock ==
    ASSUME BooksInv, FlowStep
    PROVE  OneLock
<1>1. TypeOK /\ gen \in [Owner -> TokenGeneration] /\ initialized \subseteq Owner
  BY DEF BooksInv, TypeOK
<1>2. ASSUME NEW o \in Owner, InitTokenGeneration(o) \/ InitTreasuryTokenGeneration(o)
      PROVE  OneLock
  <2>1. gen[o] = FreshGeneration(o)
    BY <1>2 DEF BooksInv, Unopened, InitTokenGeneration, InitTreasuryTokenGeneration
  <2>2. FreshGeneration(o).redemption_pending = FALSE
    BY DEF FreshGeneration
  <2>3. PICK g : gen' = [gen EXCEPT ![o] = g]
    BY <1>2 DEF InitTokenGeneration, InitTreasuryTokenGeneration
  <2> QED
    BY <1>1, <2>1, <2>2, <2>3, AccountLock DEF LockMoves
<1>3. ASSUME NEW o \in Owner, FinalizeInbound(o)
      PROVE  OneLock
  <2> DEFINE g == Finalized(gen[o])
  <2>1. gen' = [gen EXCEPT ![o] = g]
    BY <1>1, <1>3 DEF FinalizeInbound
  <2>2. SameLock(gen[o], g)
    BY <1>1, FinalizedFrame DEF Undisturbed
  <2> HIDE DEF g
  <2> QED
    BY <1>1, <2>1, <2>2, AccountLock DEF LockMoves
<1>4. ASSUME NEW o \in Owner, ClearRedemptionPending(o)
      PROVE  OneLock
  <2> DEFINE g == Unlocked(gen[o])
  <2>1. gen' = [gen EXCEPT ![o] = g]
    BY <1>1, <1>4 DEF ClearRedemptionPending
  <2>2. ~g.redemption_pending
    BY <1>1 DEF TokenGeneration, Unlocked
  <2>3. gen[o].redemption_pending /\ DueSlots(gen[o]) = {}
    BY <1>4 DEF ClearRedemptionPending, RedemptionSettled, DueSlots
  <2> HIDE DEF g
  <2>4. Ends(gen[o], g)
    BY <2>2, <2>3 DEF Ends
  <2> QED
    BY <1>1, <2>1, <2>4, AccountLock DEF LockMoves
<1>5. ASSUME NEW s \in Owner, NEW d \in Owner, NEW n \in Amounts,
             TransferDex(s, d, n) \/ Redeem(s, d, n) \/ Issue(s, d, n) \/ PeerShare(s, d, n)
      PROVE  OneLock
  <2>1. PICK path : Transfer(path, s, d, n)
    BY <1>5 DEF TransferDex, Redeem, Issue, PeerShare
  <2>2. n \in U64
    BY AmountsAssumption
  <2> QED
    BY <1>1, <2>1, <2>2, TransferLock
<1>6. CASE Tick
  BY <1>6, NoLock DEF Tick
<1>7. ASSUME NEW o \in Owner, RegisterDexPool(o)
      PROVE  OneLock
  <2> DEFINE g == [gen[o] EXCEPT !.is_dex_pool = TRUE]
  <2>1. gen' = [gen EXCEPT ![o] = g] /\ gen[o] \in TokenGeneration
    BY <1>1, <1>7 DEF RegisterDexPool
  <2>2. SameLock(gen[o], g)
    BY <2>1 DEF TokenGeneration, SameLock
  <2> HIDE DEF g
  <2> QED
    BY <1>1, <2>1, <2>2, AccountLock DEF LockMoves
<1>8. ASSUME NEW o \in Owner, NEW b \in Owner \cup {NoOwner}, NEW n \in Amounts,
             BurnTokens(o, b, n)
      PROVE  OneLock
  <2> DEFINE g == Burned(gen[o], n)
  <2>1. gen' = [gen EXCEPT ![o] = g] /\ gen[o] \in TokenGeneration
    BY <1>1, <1>8 DEF BurnTokens
  <2>2. SameLock(gen[o], g)
    BY <2>1, SpendFrame DEF Undisturbed
  <2> HIDE DEF g
  <2> QED
    BY <1>1, <2>1, <2>2, AccountLock DEF LockMoves
<1> QED
  BY <1>2, <1>3, <1>4, <1>5, <1>6, <1>7, <1>8 DEF FlowStep

LEMMA AttributeLock ==
    ASSUME TypeOK, NEW o \in Owner, NEW a, NEW n, NEW bps, NEW life,
           AttributeReferral(o, a, n, bps, life)
    PROVE  OneLock
<1>1. ~gen[o].redemption_pending
  BY DEF AttributeReferral
<1>2. PICK g : gen' = [gen EXCEPT ![o] = g]
  BY DEF AttributeReferral, TypeOK
<1> QED
  BY <1>1, <1>2, AccountLock DEF LockMoves

LEMMA SettleLock ==
    ASSUME TypeOK, NEW o \in Owner, NEW i \in SlotIndex, ProcessRedemptionSlot(o, i)
    PROVE  OneLock
<1> DEFINE g == gen[o]
           h == [g EXCEPT !.redemption_slots_settled = @ \cup {i}]
<1>1. g \in TokenGeneration /\ gen' = [gen EXCEPT ![o] = h]
  BY DEF TypeOK, ProcessRedemptionSlot
<1>2. g.redemption_pending /\ i \in ActiveSlots(g) /\ i \notin g.redemption_slots_settled
  BY DEF ProcessRedemptionSlot
<1> HIDE DEF g
<1>3. /\ h.redemption_pending = g.redemption_pending
      /\ h.redemption_gen2_consumed = g.redemption_gen2_consumed
      /\ h.redemption_slot_consumed = g.redemption_slot_consumed
      /\ h.redemption_slots_settled = g.redemption_slots_settled \cup {i}
      /\ h.active_referrer_slots = g.active_referrer_slots
  BY <1>1 DEF TokenGeneration
<1> HIDE DEF h
<1>4. ActiveSlots(h) = ActiveSlots(g)
  BY <1>3 DEF ActiveSlots
<1>5. i \in DueSlots(g) /\ DueSlots(h) = DueSlots(g) \ {i}
  BY <1>2, <1>3, <1>4 DEF DueSlots
<1>6. Settles(g, h)
  BY <1>2, <1>3, <1>5 DEF Settles
<1> QED
  BY <1>1, <1>6, AccountLock DEF LockMoves, g

LEMMA ClaimLock ==
    ASSUME CommissionInv, NEW a \in Owner, NEW d \in Owner, ClaimCommission(a, d)
    PROVE  OneLock
<1> DEFINE n == GrossToSend(ledger[a].claimable)
<1>1. ledger[a].claimable \in Nat
  BY LedgerNumbers DEF CommissionInv, HistoriesOK
<1>2. TypeOK /\ n \in U64
  BY <1>1, GrossType DEF CommissionInv, BooksInv, TypeOK
<1>3. Treasury \in Owner /\ Transfer("treasury", Treasury, d, n)
  BY DEF ClaimCommission
<1> HIDE DEF n
<1> QED
  BY <1>2, <1>3, TransferLock

LEMMA CommissionLock ==
    ASSUME CommissionInv, [CommissionNext]_allVars
    PROVE  OneLock
<1>1. BooksInv /\ TypeOK
  BY DEF CommissionInv, BooksInv
<1>2. CASE FlowStep
  BY <1>1, <1>2, FlowLock
<1>3. ASSUME NEW o \in Wallet, NEW a \in Wallet, NEW n \in Amounts, NEW bps \in Bps,
             NEW life \in Lifetimes, AttributeReferral(o, a, n, bps, life)
      PROVE  OneLock
  BY <1>1, <1>3, AttributeLock, RolesAssumption
<1>4. ASSUME NEW o \in Wallet, NEW i \in SlotIndex, ProcessRedemptionSlot(o, i)
      PROVE  OneLock
  BY <1>1, <1>4, SettleLock, RolesAssumption
<1>5. ASSUME NEW a \in Wallet, NEW d \in Owner, ClaimCommission(a, d)
      PROVE  OneLock
  BY <1>5, ClaimLock, RolesAssumption
<1>6. ASSUME NEW o, NEW i, NEW n, NEW suspicion,
             \/ CloseExpiredReferral(o, i)
             \/ RaiseDispute(o, i, n)
             \/ ResolveExpiredDispute(o, i)
             \/ ComputeMerchantReputation(suspicion)
      PROVE  OneLock
  BY <1>6, NoLock
     DEF CloseExpiredReferral, RaiseDispute, ResolveExpiredDispute, ComputeMerchantReputation, vars
<1>7. CASE UNCHANGED allVars
  BY <1>7, NoLock DEF allVars, vars
<1>8. CASE CommissionNext
  BY <1>2, <1>3, <1>4, <1>5, <1>6, <1>8 DEF CommissionNext
<1> QED
  BY <1>7, <1>8

-----------------------------------------------------------------------------
(* The theorems *)

\* While a redemption is pending, settlements, claims, disputes and transfers
\* change nothing it owes its referrers, whatever their order.
THEOREM LoopFreezesLock == CommissionSpec => LockFreezesRedemption
<1>1. OneLock => RedemptionKept
  <2> SUFFICES ASSUME OneLock, NEW o \in Owner,
                      gen[o].redemption_pending, gen'[o].redemption_pending
               PROVE  /\ gen'[o].redemption_gen2_consumed = gen[o].redemption_gen2_consumed
                      /\ gen'[o].redemption_slot_consumed = gen[o].redemption_slot_consumed
    BY DEF RedemptionKept
  <2>1. LockMoves(gen[o], gen'[o])
    BY DEF OneLock, OthersKeep, LockMoves
  <2> QED
    BY <2>1 DEF LockMoves, SameLock, Settles, Ends
<1>2. CommissionInv /\ [CommissionNext]_allVars => [RedemptionKept]_vars
  BY <1>1, CommissionLock
<1> QED
  BY <1>2, CommissionInvariant, PTL DEF CommissionSpec, LockFreezesRedemption

Locked == {w \in Wallet : gen[w].redemption_pending}
Due == [w \in Wallet |-> DueSlots(gen[w])]

LEMMA ActiveInRange ==
    ASSUME NEW g \in TokenGeneration
    PROVE  ActiveSlots(g) \subseteq SlotIndex
<1>1. g.active_referrer_slots \in 0..ReferrerSlots
  BY DEF TokenGeneration
<1> QED
  BY <1>1, SlotsAssumption DEF ActiveSlots, SlotIndex

LEMMA DueIsSlots == \A g \in TokenGeneration : DueSlots(g) \subseteq SlotIndex
BY ActiveInRange DEF DueSlots

\* Locked and due after a step that moves the lock of o alone.
LEMMA MovedView ==
    ASSUME NEW o \in Wallet, OthersKeep(o)
    PROVE  /\ Due' = [Due EXCEPT ![o] = DueSlots(gen'[o])]
           /\ gen'[o].redemption_pending => Locked' = Locked \cup {o}
           /\ ~gen'[o].redemption_pending => Locked' = Locked \ {o}
<1>1. \A w \in Wallet \ {o} : SameLock(gen[w], gen'[w])
  BY RolesAssumption DEF OthersKeep
<1>2. \A w \in Wallet \ {o} : /\ DueSlots(gen'[w]) = DueSlots(gen[w])
                              /\ gen'[w].redemption_pending = gen[w].redemption_pending
  BY <1>1, SameDue DEF SameLock
<1>3. Due' = [w \in Wallet |-> DueSlots(gen'[w])]
  BY DEF Due, DueSlots, ActiveSlots
<1>4. Due' = [Due EXCEPT ![o] = DueSlots(gen'[o])]
  BY <1>2, <1>3 DEF Due
<1>5. Locked' = {w \in Wallet : gen'[w].redemption_pending}
  BY DEF Locked
<1>6. \A w : /\ w \in Locked' <=> w \in Wallet /\ gen'[w].redemption_pending
             /\ w \in Locked <=> w \in Wallet /\ gen[w].redemption_pending
  BY <1>5 DEF Locked
<1>7. \A w : w # o => (w \in Locked' <=> w \in Locked)
  BY <1>2, <1>6
<1>8. gen'[o].redemption_pending => Locked' = Locked \cup {o}
  BY <1>6, <1>7
<1>9. ~gen'[o].redemption_pending => Locked' = Locked \ {o}
  BY <1>6, <1>7
<1> QED
  BY <1>4, <1>8, <1>9

LEMMA StillView ==
    ASSUME \A w \in Wallet : SameLock(gen[w], gen'[w])
    PROVE  Locked' = Locked /\ Due' = Due
<1>1. \A w \in Wallet : /\ DueSlots(gen'[w]) = DueSlots(gen[w])
                        /\ gen'[w].redemption_pending = gen[w].redemption_pending
  BY SameDue DEF SameLock
<1>2. Due' = [w \in Wallet |-> DueSlots(gen'[w])]
  BY DEF Due, DueSlots, ActiveSlots
<1>3. Locked' = {w \in Wallet : gen'[w].redemption_pending}
  BY DEF Locked
<1> QED
  BY <1>1, <1>2, <1>3 DEF Due, Locked

LEMMA LockSteps ==
    ASSUME TypeOK', OneLock
    PROVE  \/ Locked' = Locked /\ Due' = Due
           \/ \E h \in Wallet :
                \/ \E slots \in SUBSET SlotIndex :
                    /\ h \notin Locked
                    /\ Locked' = Locked \cup {h}
                    /\ Due' = [Due EXCEPT ![h] = slots]
                \/ \E i \in SlotIndex :
                    /\ h \in Locked
                    /\ i \in Due[h]
                    /\ Due' = [Due EXCEPT ![h] = @ \ {i}]
                    /\ Locked' = Locked
                \/ /\ h \in Locked
                   /\ Due[h] = {}
                   /\ Locked' = Locked \ {h}
                   /\ Due' = Due
<1>1. PICK o \in Owner : OthersKeep(o) /\ LockMoves(gen[o], gen'[o])
  BY DEF OneLock
<1>2. CASE o \notin Wallet \/ SameLock(gen[o], gen'[o])
  <2>1. \A w \in Wallet : SameLock(gen[w], gen'[w])
    BY <1>1, <1>2, RolesAssumption DEF OthersKeep
  <2> QED
    BY <2>1, StillView
<1>3. ASSUME o \in Wallet
      PROVE  /\ Due' = [Due EXCEPT ![o] = DueSlots(gen'[o])]
             /\ gen'[o].redemption_pending => Locked' = Locked \cup {o}
             /\ ~gen'[o].redemption_pending => Locked' = Locked \ {o}
             /\ o \in Locked <=> gen[o].redemption_pending
             /\ Due[o] = DueSlots(gen[o])
  BY <1>1, <1>3, MovedView DEF Locked, Due
<1>4. DOMAIN Due = Wallet /\ Due = [w \in Wallet |-> Due[w]]
  BY DEF Due
<1>5. CASE o \in Wallet /\ ~gen[o].redemption_pending
  <2>1. CASE gen'[o].redemption_pending
    <3>1. DueSlots(gen'[o]) \in SUBSET SlotIndex
      BY DueIsSlots DEF TypeOK
    <3> QED
      BY <1>3, <1>5, <2>1, <3>1
  <2>2. CASE ~gen'[o].redemption_pending
    <3>1. DueSlots(gen[o]) = {} /\ DueSlots(gen'[o]) = {}
      BY <1>5, <2>2 DEF DueSlots
    <3>2. Due' = Due /\ Locked' = Locked
      BY <1>3, <1>4, <1>5, <2>2, <3>1
    <3> QED
      BY <3>2
  <2> QED
    BY <2>1, <2>2
<1>6. CASE o \in Wallet /\ Settles(gen[o], gen'[o])
  <2>1. PICK i \in SlotIndex : i \in DueSlots(gen[o]) /\ DueSlots(gen'[o]) = DueSlots(gen[o]) \ {i}
    BY <1>6 DEF Settles
  <2>2. gen[o].redemption_pending /\ gen'[o].redemption_pending
    BY <1>6 DEF Settles
  <2>3. o \in Locked /\ Locked' = Locked /\ i \in Due[o] /\ Due' = [Due EXCEPT ![o] = @ \ {i}]
    BY <1>3, <1>6, <2>1, <2>2
  <2> QED
    BY <1>6, <2>3
<1>7. CASE o \in Wallet /\ Ends(gen[o], gen'[o])
  <2>1. gen[o].redemption_pending /\ DueSlots(gen[o]) = {} /\ ~gen'[o].redemption_pending
    BY <1>7 DEF Ends
  <2>2. DueSlots(gen'[o]) = {}
    BY <2>1 DEF DueSlots
  <2>3. Due' = Due /\ o \in Locked /\ Due[o] = {} /\ Locked' = Locked \ {o}
    BY <1>3, <1>4, <1>7, <2>1, <2>2
  <2> QED
    BY <1>7, <2>3
<1> QED
  BY <1>1, <1>2, <1>5, <1>6, <1>7 DEF LockMoves

\* process_redemption.rs and the redemption path of transfer_hook.rs implement
\* RedemptionLock: no slot is settled twice, none is skipped, and no second
\* redemption starts in between.
THEOREM LockImplemented == CommissionSpec => ImplementsLock
<1>1. CommissionInit => Lock!LockInit
  <2> SUFFICES ASSUME CommissionInit PROVE Lock!LockInit
    OBVIOUS
  <2>1. \A o \in Wallet : gen[o] = FreshGeneration(o)
    BY RolesAssumption DEF CommissionInit, Init
  <2>2. \A o : FreshGeneration(o).redemption_pending = FALSE
    BY DEF FreshGeneration
  <2> QED
    BY <2>1, <2>2 DEF Lock!LockInit
<1>2. CommissionInv /\ CommissionInv' /\ [CommissionNext]_allVars => [Lock!LockNext]_(Lock!lockVars)
  <2> SUFFICES ASSUME CommissionInv, CommissionInv', [CommissionNext]_allVars
               PROVE  [Lock!LockNext]_(Lock!lockVars)
    OBVIOUS
  <2>1. OneLock /\ TypeOK'
    BY CommissionLock DEF CommissionInv, BooksInv
  <2> DEFINE D == [o \in Wallet |->
                IF gen[o].redemption_pending
                THEN ActiveSlots(gen[o]) \ gen[o].redemption_slots_settled
                ELSE {}]
             L == {o \in Wallet : gen[o].redemption_pending}
  <2>2. Due = D /\ Locked = L /\ Due' = D' /\ Locked' = L'
    BY DEF Due, Locked, DueSlots
  <2>3. \/ L' = L /\ D' = D
        \/ \E h \in Wallet :
                \/ \E slots \in SUBSET SlotIndex :
                    /\ h \notin L
                    /\ L' = L \cup {h}
                    /\ D' = [D EXCEPT ![h] = slots]
                \/ \E i \in SlotIndex :
                    /\ h \in L
                    /\ i \in D[h]
                    /\ D' = [D EXCEPT ![h] = @ \ {i}]
                    /\ L' = L
                \/ /\ h \in L
                   /\ D[h] = {}
                   /\ L' = L \ {h}
                   /\ D' = D
    <3> HIDE DEF D, L
    <3> QED
      BY <2>1, <2>2, LockSteps
  <2> QED
    BY <2>3 DEF Lock!LockNext, Lock!lockVars, Lock!StartRedemption, Lock!SettleSlot,
                Lock!FinishRedemption
<1> QED
  BY <1>1, <1>2, CommissionInvariant, PTL DEF CommissionSpec, ImplementsLock, Lock!LockSpec

-----------------------------------------------------------------------------
(* What a redemption charges *)

\* No slot is charged beyond its attribution, and only while a redemption is
\* pending is any slot charged at all: the shares a redemption does not write
\* are then the zeros the last one left.  Nothing attributed exceeds the supply.
ChargedWithin(g) ==
    \A i \in SlotIndex : g.redemption_slot_consumed[i] <= g.referrer_slots[i].tokens_attributed

AttributedWithin(g) == \A i \in SlotIndex : g.referrer_slots[i].tokens_attributed <= Supply

Uncharged(g) == \A i \in SlotIndex : g.redemption_slot_consumed[i] = 0

Modest(g) ==
    /\ ChargedWithin(g)
    /\ AttributedWithin(g)
    /\ ~g.redemption_pending => Uncharged(g)

\* Inductive for every customer.
ChargedInv == \A o \in Wallet : Modest(gen[o])

LEMMA AttributedType ==
    ASSUME NEW g \in TokenGeneration, NEW i \in SlotIndex
    PROVE  g.referrer_slots[i].tokens_attributed \in Nat
BY U64InNat DEF TokenGeneration, ReferrerSlot

LEMMA ModestSame ==
    ASSUME NEW g, NEW h, SameLock(g, h), Modest(g)
    PROVE  Modest(h)
BY DEF SameLock, Modest, ChargedWithin, AttributedWithin, Uncharged

LEMMA ModestFresh == \A o : Modest(FreshGeneration(o))
BY SupplyType DEF Modest, ChargedWithin, AttributedWithin, Uncharged, FreshGeneration, FreeSlot

LEMMA ModestUnlocked ==
    ASSUME NEW g \in TokenGeneration, AttributedWithin(g)
    PROVE  Modest(Unlocked(g))
<1> DEFINE h == Unlocked(g)
<1>1. /\ h.referrer_slots = g.referrer_slots
      /\ h.redemption_slot_consumed = [i \in SlotIndex |-> 0]
  BY DEF Unlocked, TokenGeneration
<1> HIDE DEF h
<1>2. Uncharged(h)
  BY <1>1 DEF Uncharged
<1>3. \A i \in SlotIndex : h.referrer_slots[i].tokens_attributed \in Nat
  BY <1>1, AttributedType
<1>4. ChargedWithin(h) /\ AttributedWithin(h)
  BY <1>1, <1>2, <1>3 DEF Modest, ChargedWithin, AttributedWithin, Uncharged
<1>5. Modest(h)
  BY <1>2, <1>4 DEF Modest
<1> QED
  BY <1>5 DEF h

\* A share of no more than the whole.
LEMMA ShareWithin ==
    ASSUME NEW x \in Nat, NEW y \in Nat, y > 0, x <= y, NEW a \in Nat
    PROVE  (x * a) \div y \in Nat /\ (x * a) \div y <= a
<1> DEFINE p == x * a
           whole == y * a
           q == p \div y
           back == y * q
<1>1. p \in Nat /\ whole \in Nat /\ p <= whole
  <2>1. PICK t \in Nat : y = x + t
    <3>1. y - x \in Nat /\ y = x + (y - x)
      OBVIOUS
    <3> QED
      BY <3>1
  <2>2. t * a \in Nat /\ p \in Nat /\ whole = p + t * a
    BY <2>1
  <2> HIDE DEF p, whole
  <2> QED
    BY <2>2
<1> HIDE DEF p
<1>2. q \in Nat /\ back \in Nat /\ back <= p
  <2> DEFINE rest == p % y
  <2>1. q = p \div y /\ rest = p % y /\ back = y * q
    OBVIOUS
  <2> HIDE DEF q, rest, back
  <2>2. q \in Nat /\ rest \in Nat /\ p = back + rest
    BY <1>1, <2>1
  <2>3. back \in Nat
    BY <2>1, <2>2
  <2> QED
    BY <1>1, <2>2, <2>3
<1>3. ASSUME q > a PROVE FALSE
  <2> HIDE DEF q
  <2>1. y * (q - a) \in Nat /\ y * (q - a) >= y /\ back = y * (q - a) + whole
    BY <1>2, <1>3
  <2> HIDE DEF back, whole
  <2> QED
    BY <1>1, <1>2, <2>1
<1>4. q <= a
  BY <1>2, <1>3
<1> QED
  BY <1>2, <1>4 DEF p, q

\* The redemption divides by the Gen-2 balance it found, of which it consumes
\* no more than there is.
LEMMA ModestLocked ==
    ASSUME NEW g \in TokenGeneration, NEW n \in U64, ~g.redemption_pending, Modest(g)
    PROVE  Modest(LockedForRedemption(g, n))
<1> DEFINE consumed == FromGen2(g, n)
           h == LockedForRedemption(g, n)
<1>1. g.gen1_balance \in Nat /\ g.gen2_balance \in Nat /\ n \in Nat
  BY U64InNat DEF TokenGeneration
<1>2. consumed \in Nat /\ consumed <= g.gen2_balance
  BY <1>1 DEF FromGen2, FromGen1, Lesser
<1>3. /\ h.referrer_slots = g.referrer_slots
      /\ h.redemption_pending = TRUE
      /\ h.redemption_slot_consumed =
            [i \in SlotIndex |-> IF i \in Charged(g) THEN SlotShare(g, consumed, i)
                                 ELSE g.redemption_slot_consumed[i]]
  BY DEF LockedForRedemption, FifoDeduct, TokenGeneration
<1> HIDE DEF h, consumed
<1>4. ChargedWithin(h)
  <2> SUFFICES ASSUME NEW i \in SlotIndex
               PROVE  h.redemption_slot_consumed[i] <= h.referrer_slots[i].tokens_attributed
    BY DEF ChargedWithin
  <2> DEFINE a == g.referrer_slots[i].tokens_attributed
  <2>1. a \in Nat
    BY AttributedType
  <2>2. CASE i \in Charged(g)
    <3>1. g.gen2_balance > 0
      BY <2>2 DEF Charged
    <3>2. h.redemption_slot_consumed[i] = (consumed * a) \div g.gen2_balance
      BY <1>3, <2>2 DEF SlotShare
    <3> HIDE DEF a
    <3>3. (consumed * a) \div g.gen2_balance <= a
      BY <1>1, <1>2, <2>1, <3>1, ShareWithin
    <3> QED
      BY <1>3, <3>2, <3>3 DEF a
  <2>3. CASE i \notin Charged(g)
    <3>1. h.redemption_slot_consumed[i] = 0
      BY <1>3, <2>3 DEF Modest, Uncharged
    <3> QED
      BY <1>3, <2>1, <3>1
  <2> QED
    BY <2>2, <2>3
<1>5. h.redemption_pending
  BY <1>3
<1>6. AttributedWithin(h)
  BY <1>3 DEF Modest, AttributedWithin
<1>7. Modest(h)
  BY <1>4, <1>5, <1>6 DEF Modest
<1> QED
  BY <1>7 DEF h

LEMMA ModestSettled ==
    ASSUME NEW g \in TokenGeneration, NEW i \in SlotIndex, Modest(g)
    PROVE  Modest([g EXCEPT !.redemption_slots_settled = @ \cup {i}])
BY DEF TokenGeneration, Modest, ChargedWithin, AttributedWithin, Uncharged

\* A slot is filled while no redemption is pending, when none is charged.
LEMMA ModestFilled ==
    ASSUME NEW g \in TokenGeneration, NEW i \in SlotIndex, NEW n \in U64, n <= Supply,
           ~g.redemption_pending, Modest(g)
    PROVE  Modest([g EXCEPT
                      !.referrer_slots[i] = [tokens_attributed |-> n, is_active |-> TRUE],
                      !.active_referrer_slots = @ + 1])
<1> DEFINE slot == [tokens_attributed |-> n, is_active |-> TRUE]
           h == [g EXCEPT !.referrer_slots[i] = slot, !.active_referrer_slots = @ + 1]
<1>1. /\ h.redemption_pending = g.redemption_pending
      /\ h.redemption_slot_consumed = g.redemption_slot_consumed
      /\ h.referrer_slots = [g.referrer_slots EXCEPT ![i] = slot]
  BY DEF TokenGeneration
<1>2. slot.tokens_attributed = n /\ n \in Nat
  BY U64InNat
<1> HIDE DEF h, slot
<1>3. ASSUME NEW j \in SlotIndex
      PROVE  h.referrer_slots[j].tokens_attributed \in Nat
             /\ h.referrer_slots[j].tokens_attributed <= Supply
  <2>1. h.referrer_slots[j] = IF j = i THEN slot ELSE g.referrer_slots[j]
    BY <1>1 DEF TokenGeneration
  <2> QED
    BY <1>2, <2>1, AttributedType DEF Modest, AttributedWithin
<1>4. Uncharged(h)
  BY <1>1 DEF Modest, Uncharged
<1>5. ChargedWithin(h) /\ AttributedWithin(h)
  BY <1>3, <1>4 DEF ChargedWithin, AttributedWithin, Uncharged
<1>6. Modest(h)
  BY <1>4, <1>5 DEF Modest
<1> QED
  BY <1>6 DEF h, slot

\* An instruction on the account of o alone.
LEMMA AccountCharge ==
    ASSUME TypeOK, ChargedInv, NEW o \in Owner, NEW g, gen' = [gen EXCEPT ![o] = g],
           o \in Wallet => Modest(g)
    PROVE  ChargedInv'
<1>1. Wallet \subseteq Owner
  BY RolesAssumption
<1>2. gen'[o] = g /\ \A w \in Owner \ {o} : gen'[w] = gen[w]
  BY DEF TypeOK
<1> QED
  BY <1>1, <1>2 DEF ChargedInv, Modest, ChargedWithin, AttributedWithin, Uncharged

LEMMA TransferCharge ==
    ASSUME TypeOK, ChargedInv, NEW path, NEW s \in Owner, NEW d \in Owner, NEW n \in U64,
           Transfer(path, s, d, n)
    PROVE  ChargedInv'
<1> DEFINE a == Hook(s, d, n).src
           b == Hook(s, d, n).dst
<1>1. s # d /\ Hook(s, d, n).ok /\ gen' = [gen EXCEPT ![s] = a, ![d] = b]
  BY DEF Transfer
<1>2. /\ SameLock(gen[d], b)
      /\ \/ SameLock(gen[s], a)
         \/ ~gen[s].redemption_pending /\ a = LockedForRedemption(gen[s], n)
  BY <1>1, HookFrame DEF HookKeeps, Undisturbed
<1>3. gen \in [Owner -> TokenGeneration] /\ Wallet \subseteq Owner
  BY RolesAssumption DEF TypeOK
<1> HIDE DEF a, b
<1>4. gen'[s] = a /\ gen'[d] = b /\ \A w \in Owner \ {s, d} : gen'[w] = gen[w]
  BY <1>1, <1>3
<1> SUFFICES ASSUME NEW w \in Wallet PROVE Modest(gen'[w])
  BY DEF ChargedInv, Modest, ChargedWithin, AttributedWithin, Uncharged
<1>5. Modest(gen[w])
  BY DEF ChargedInv
<1>6. CASE w = s
  BY <1>2, <1>3, <1>4, <1>5, <1>6, ModestSame, ModestLocked
<1>7. CASE w = d
  BY <1>2, <1>4, <1>5, <1>7, ModestSame
<1>8. CASE w # s /\ w # d
  BY <1>3, <1>4, <1>5, <1>8
<1> QED
  BY <1>6, <1>7, <1>8

LEMMA FlowCharge ==
    ASSUME TypeOK, ChargedInv, FlowStep
    PROVE  ChargedInv'
<1>1. gen \in [Owner -> TokenGeneration] /\ initialized \subseteq Owner
  BY DEF TypeOK
<1>2. ASSUME NEW o \in Owner, InitTokenGeneration(o) PROVE ChargedInv'
  BY <1>2, ModestFresh, AccountCharge DEF InitTokenGeneration
<1>3. ASSUME NEW o \in Owner, InitTreasuryTokenGeneration(o) PROVE ChargedInv'
  <2>1. gen' = [gen EXCEPT ![o] = TreasuryGeneration(o)] /\ o \notin Wallet
    BY <1>3, RolesAssumption DEF InitTreasuryTokenGeneration
  <2> QED
    BY <2>1, AccountCharge
<1>4. ASSUME NEW o \in Owner, FinalizeInbound(o) PROVE ChargedInv'
  <2> DEFINE g == Finalized(gen[o])
  <2>1. gen' = [gen EXCEPT ![o] = g] /\ SameLock(gen[o], g)
    BY <1>1, <1>4, FinalizedFrame DEF FinalizeInbound, Undisturbed
  <2>2. o \in Wallet => Modest(g)
    BY <2>1, ModestSame DEF ChargedInv
  <2> HIDE DEF g
  <2> QED
    BY <2>1, <2>2, AccountCharge
<1>5. ASSUME NEW o \in Owner, ClearRedemptionPending(o) PROVE ChargedInv'
  <2>1. gen' = [gen EXCEPT ![o] = Unlocked(gen[o])]
    BY <1>1, <1>5 DEF ClearRedemptionPending
  <2>2. o \in Wallet => Modest(Unlocked(gen[o]))
    BY <1>1, ModestUnlocked DEF ChargedInv, Modest
  <2> QED
    BY <1>1, <2>1, <2>2, AccountCharge
<1>6. ASSUME NEW s \in Owner, NEW d \in Owner, NEW n \in Amounts,
             TransferDex(s, d, n) \/ Redeem(s, d, n) \/ Issue(s, d, n) \/ PeerShare(s, d, n)
      PROVE  ChargedInv'
  <2>1. PICK path : Transfer(path, s, d, n)
    BY <1>6 DEF TransferDex, Redeem, Issue, PeerShare
  <2> QED
    BY <2>1, TransferCharge, AmountsAssumption
<1>7. CASE Tick
  BY <1>7 DEF Tick, ChargedInv, Modest, ChargedWithin, AttributedWithin, Uncharged
<1>8. ASSUME NEW o \in Owner, RegisterDexPool(o) PROVE ChargedInv'
  <2>1. PICK g : gen' = [gen EXCEPT ![o] = g] /\ o \in Pools
    BY <1>1, <1>8 DEF RegisterDexPool
  <2>2. o \notin Wallet
    BY <2>1, RolesAssumption
  <2> QED
    BY <1>8, <2>1, <2>2, AccountCharge
<1>9. ASSUME NEW o \in Owner, NEW b \in Owner \cup {NoOwner}, NEW n \in Amounts,
             BurnTokens(o, b, n)
      PROVE  ChargedInv'
  <2> DEFINE g == Burned(gen[o], n)
  <2>1. gen' = [gen EXCEPT ![o] = g] /\ gen[o] \in TokenGeneration
    BY <1>1, <1>9 DEF BurnTokens
  <2>2. SameLock(gen[o], g)
    BY <2>1, SpendFrame DEF Undisturbed
  <2>3. o \in Wallet => Modest(g)
    BY <2>2, ModestSame DEF ChargedInv
  <2> HIDE DEF g
  <2> QED
    BY <2>1, <2>3, AccountCharge
<1> QED
  BY <1>2, <1>3, <1>4, <1>5, <1>6, <1>7, <1>8, <1>9 DEF FlowStep

\* No customer's books show more Gen-2 tokens than were minted.
LEMMA BooksWithin ==
    ASSUME SupplyInv, NEW o \in Wallet
    PROVE  gen[o].gen2_balance <= Supply
<1> DEFINE g == gen[o]
<1>1. /\ TypeOK /\ Solvent /\ o \in Owner /\ g \in TokenGeneration
      /\ Merchant \in Owner /\ Merchant # o
  BY RolesAssumption, MerchantAssumption DEF SupplyInv, BooksInv, TypeOK
<1>2. g.gen1_balance \in Nat /\ g.gen2_balance \in Nat /\ g.dead_balance \in Nat
  BY <1>1, U64InNat DEF TokenGeneration
<1>3. Held[o] = g.gen1_balance + g.gen2_balance + g.dead_balance
  BY <1>1, HeldAt DEF Tracked
<1>4. Held \in [Owner -> Nat] /\ Total(Held, Owner) <= Supply
  BY <1>1, HeldNat DEF SupplyInv
<1>5. Held[o] + Held[Merchant] <= Total(Held, Owner) /\ Total(Held, Owner) \in Nat
  BY <1>1, <1>4, SupplyAssumption, TotalCovers, TotalNat
<1>6. Held[o] \in Nat /\ Held[Merchant] \in Nat
  BY <1>1, <1>4
<1> HIDE DEF g
<1> QED
  BY <1>2, <1>3, <1>4, <1>5, <1>6, SupplyType DEF g

\* What is attributed is on the customer's books as Gen-2, hence in the supply.
LEMMA AttributeWithin ==
    ASSUME SupplyInv, NEW o \in Wallet, NEW a, NEW n \in U64, NEW bps, NEW life,
           AttributeReferral(o, a, n, bps, life)
    PROVE  n <= Supply
<1> DEFINE g == gen[o]
           f == [i \in ActiveSlots(g) |-> g.referrer_slots[i].tokens_attributed]
<1>1. o \in Owner /\ g \in TokenGeneration /\ n \in Nat
  BY RolesAssumption, U64InNat DEF SupplyInv, BooksInv, TypeOK
<1>2. Total(f, ActiveSlots(g)) + n <= g.gen2_balance
  BY DEF AttributeReferral, Attributed, Total
<1>3. Total(f, ActiveSlots(g)) \in Nat
  <2>1. ActiveSlots(g) \subseteq SlotIndex
    BY <1>1, ActiveInRange
  <2>2. IsFiniteSet(SlotIndex)
    BY SlotsAssumption, FS_Interval DEF SlotIndex
  <2>3. IsFiniteSet(ActiveSlots(g))
    BY <2>1, <2>2, FS_Subset
  <2>4. f \in [ActiveSlots(g) -> Nat]
    BY <1>1, <2>1, AttributedType
  <2> HIDE DEF f
  <2> QED
    BY <2>3, <2>4, TotalNat
<1>4. g.gen2_balance \in Nat /\ g.gen2_balance <= Supply
  BY <1>1, BooksWithin, U64InNat DEF TokenGeneration
<1> HIDE DEF f, g
<1> QED
  BY <1>1, <1>2, <1>3, <1>4, SupplyType

LEMMA AttributeCharge ==
    ASSUME SupplyInv, ChargedInv, NEW o \in Wallet, NEW a, NEW n \in U64, NEW bps, NEW life,
           AttributeReferral(o, a, n, bps, life)
    PROVE  ChargedInv'
<1> DEFINE i == gen[o].active_referrer_slots
           g == [gen[o] EXCEPT
                    !.referrer_slots[i] = [tokens_attributed |-> n, is_active |-> TRUE],
                    !.active_referrer_slots = @ + 1]
<1>1. TypeOK /\ o \in Owner /\ gen[o] \in TokenGeneration /\ Modest(gen[o])
  BY RolesAssumption DEF SupplyInv, BooksInv, TypeOK, ChargedInv
<1>2. i \in SlotIndex /\ ~gen[o].redemption_pending /\ gen' = [gen EXCEPT ![o] = g]
  BY <1>1 DEF AttributeReferral, TypeOK
<1>3. Modest(g)
  BY <1>1, <1>2, AttributeWithin, ModestFilled
<1> HIDE DEF g, i
<1> QED
  BY <1>1, <1>2, <1>3, AccountCharge

LEMMA SettleCharge ==
    ASSUME TypeOK, ChargedInv, NEW o \in Wallet, NEW i \in SlotIndex, ProcessRedemptionSlot(o, i)
    PROVE  ChargedInv'
<1> DEFINE g == [gen[o] EXCEPT !.redemption_slots_settled = @ \cup {i}]
<1>1. o \in Owner /\ gen[o] \in TokenGeneration /\ Modest(gen[o])
  BY RolesAssumption DEF TypeOK, ChargedInv
<1>2. gen' = [gen EXCEPT ![o] = g]
  BY <1>1 DEF ProcessRedemptionSlot, TypeOK
<1>3. Modest(g)
  BY <1>1, ModestSettled
<1> HIDE DEF g
<1> QED
  BY <1>1, <1>2, <1>3, AccountCharge

LEMMA ClaimCharge ==
    ASSUME CommissionInv, ChargedInv, NEW a \in Owner, NEW d \in Owner, ClaimCommission(a, d)
    PROVE  ChargedInv'
<1> DEFINE n == GrossToSend(ledger[a].claimable)
<1>1. ledger[a].claimable \in Nat
  BY LedgerNumbers DEF CommissionInv, HistoriesOK
<1>2. TypeOK /\ n \in U64
  BY <1>1, GrossType DEF CommissionInv, BooksInv, TypeOK
<1>3. Treasury \in Owner /\ Transfer("treasury", Treasury, d, n)
  BY DEF ClaimCommission
<1> HIDE DEF n
<1> QED
  BY <1>2, <1>3, TransferCharge

LEMMA ChargedKept ==
    ASSUME CommissionInv, SupplyInv, ChargedInv, [CommissionNext]_allVars
    PROVE  ChargedInv'
<1>1. TypeOK
  BY DEF CommissionInv, BooksInv
<1>2. CASE FlowStep
  BY <1>1, <1>2, FlowCharge
<1>3. ASSUME NEW o \in Wallet, NEW a \in Wallet, NEW n \in Amounts, NEW bps \in Bps,
             NEW life \in Lifetimes, AttributeReferral(o, a, n, bps, life)
      PROVE  ChargedInv'
  BY <1>1, <1>3, AttributeCharge, AmountsAssumption
<1>4. ASSUME NEW o \in Wallet, NEW i \in SlotIndex, ProcessRedemptionSlot(o, i)
      PROVE  ChargedInv'
  BY <1>1, <1>4, SettleCharge
<1>5. ASSUME NEW a \in Wallet, NEW d \in Owner, ClaimCommission(a, d)
      PROVE  ChargedInv'
  BY <1>5, ClaimCharge, RolesAssumption
<1>6. CASE UNCHANGED gen
  BY <1>6 DEF ChargedInv, Modest, ChargedWithin, AttributedWithin, Uncharged
<1>7. ASSUME NEW o, NEW i, NEW n, NEW suspicion,
             \/ CloseExpiredReferral(o, i)
             \/ RaiseDispute(o, i, n)
             \/ ResolveExpiredDispute(o, i)
             \/ ComputeMerchantReputation(suspicion)
      PROVE  UNCHANGED gen
  BY <1>7
     DEF CloseExpiredReferral, RaiseDispute, ResolveExpiredDispute, ComputeMerchantReputation, vars
<1>8. CASE UNCHANGED allVars
  BY <1>6, <1>8 DEF allVars, vars
<1>9. CASE CommissionNext
  BY <1>2, <1>3, <1>4, <1>5, <1>6, <1>7, <1>9 DEF CommissionNext
<1> QED
  BY <1>8, <1>9

LEMMA ChargedAlways == CommissionSpec => [](SupplyInv /\ ChargedInv)
<1>1. CommissionInit => SupplyInv /\ ChargedInv
  BY InitSupply, ModestFresh, RolesAssumption DEF CommissionInit, Init, ChargedInv
<1>2. CommissionInv /\ SupplyInv /\ ChargedInv /\ [CommissionNext]_allVars
        => SupplyInv' /\ ChargedInv'
  BY ChargedKept, CommissionSupply DEF CommissionInv, HistoriesOK
<1> QED
  BY <1>1, <1>2, CommissionInvariant, PTL DEF CommissionSpec

\* tokens_attributed is written once and stays while the Gen-2 balance it is
\* compared with is shared, burned, redeemed and refilled: in every order of
\* these, no redemption charges a slot for more than was attributed to it.
THEOREM ChargesWithinAttribution == CommissionSpec => []ChargedWithinAttribution
<1>1. ChargedInv => ChargedWithinAttribution
  BY DEF ChargedInv, Modest, ChargedWithin, ChargedWithinAttribution
<1> QED
  BY <1>1, ChargedAlways, PTL

-----------------------------------------------------------------------------
(* A redemption goes through *)

LEMMA ProductWithin ==
    ASSUME NEW x \in Nat, NEW y \in Nat, NEW s \in Nat, x <= s, y <= s
    PROVE  x * y <= s * s
<1> DEFINE p == x * y
           q == s * y
           r == s * s
<1>1. PICK t \in Nat, u \in Nat : s = x + t /\ s = y + u
  <2>1. s - x \in Nat /\ s - y \in Nat /\ s = x + (s - x) /\ s = y + (s - y)
    OBVIOUS
  <2> QED
    BY <2>1
<1>2. p \in Nat /\ t * y \in Nat /\ q = p + t * y
  BY <1>1
<1>3. q \in Nat /\ s * u \in Nat /\ r = q + s * u
  BY <1>1
<1> HIDE DEF p, q, r
<1>4. p <= q /\ q <= r
  BY <1>2, <1>3
<1> QED
  BY <1>2, <1>3, <1>4 DEF p, r

\* A spend the books cover does not panic.
LEMMA CoveredFits ==
    ASSUME NEW g \in TokenGeneration, NEW n \in U64, n <= Tracked(g)
    PROVE  Fits(FifoDeduct(g, n)) /\ Fits(LockedForRedemption(g, n))
<1> DEFINE x == g.gen1_balance
           y == g.gen2_balance
           z == g.dead_balance
           f == FifoDeduct(g, n)
           h == LockedForRedemption(g, n)
<1>1. /\ x \in Nat /\ y \in Nat /\ z \in Nat /\ n \in Nat /\ n <= x + y + z
      /\ x <= MaxU64 /\ y <= MaxU64 /\ z <= MaxU64
  BY WidthAssumption DEF TokenGeneration, U64, Tracked
<1>2. /\ f.gen1_balance = x - FromGen1(g, n)
      /\ f.gen2_balance = y - FromGen2(g, n)
      /\ f.dead_balance = z - FromDead(g, n)
  BY DEF TokenGeneration, FifoDeduct
<1>3. /\ FromGen1(g, n) = Lesser(n, x)
      /\ FromGen2(g, n) = Lesser(n - Lesser(n, x), y)
      /\ FromDead(g, n) = n - Lesser(n, x) - Lesser(n - Lesser(n, x), y)
  BY DEF FromGen1, FromGen2, FromDead
<1>4. /\ h.gen1_balance = f.gen1_balance
      /\ h.gen2_balance = f.gen2_balance
      /\ h.dead_balance = f.dead_balance
  BY DEF LockedForRedemption, FifoDeduct, TokenGeneration
<1> HIDE DEF x, y, z, f, h
<1>5. f.gen1_balance \in U64 /\ f.gen2_balance \in U64 /\ f.dead_balance \in U64
  BY <1>1, <1>2, <1>3, WidthAssumption DEF Lesser, U64
<1>6. Fits(f) /\ Fits(h)
  BY <1>4, <1>5 DEF Fits
<1> QED
  BY <1>6 DEF f, h

\* No product of the shares leaves u64 in a mint whose supply squared fits.
LEMMA ProductsFit ==
    ASSUME NEW g \in TokenGeneration, Modest(g), g.gen2_balance <= Supply, NEW n \in U64,
           Supply * Supply <= MaxU64
    PROVE  SharesFit(g, FromGen2(g, n))
<1> DEFINE consumed == FromGen2(g, n)
<1>1. g.gen1_balance \in Nat /\ g.gen2_balance \in Nat /\ n \in Nat
  BY U64InNat DEF TokenGeneration
<1>2. consumed \in Nat /\ consumed <= g.gen2_balance
  BY <1>1 DEF FromGen2, FromGen1, Lesser
<1> HIDE DEF consumed
<1> SUFFICES ASSUME NEW i \in Charged(g)
             PROVE  consumed * g.referrer_slots[i].tokens_attributed <= MaxU64
  BY DEF SharesFit, consumed
<1> DEFINE a == g.referrer_slots[i].tokens_attributed
           p == consumed * a
           q == Supply * Supply
<1>3. i \in SlotIndex
  BY ActiveInRange DEF Charged
<1>4. a \in Nat /\ a <= Supply
  BY <1>3, AttributedType DEF Modest, AttributedWithin
<1> HIDE DEF a
<1>5. consumed <= Supply /\ Supply \in Nat
  BY <1>1, <1>2, SupplyType
<1>6. p <= q /\ p \in Nat /\ q \in Nat
  BY <1>2, <1>4, <1>5, ProductWithin
<1>7. q <= MaxU64
  OBVIOUS
<1> HIDE DEF p, q
<1>8. p <= MaxU64
  BY <1>6, <1>7, WidthAssumption
<1> QED
  BY <1>8 DEF p, a

LEMMA UnguardedOutcome ==
    ASSUME NEW a, NEW b, Fits(a), Fits(b)
    PROVE  Outcome(TRUE, a, b).ok
  BY DEF Outcome

LEMMA NothingInTheWay == SupplyInv /\ ChargedInv => RedemptionGoesThrough
<1> SUFFICES ASSUME SupplyInv, ChargedInv, Supply * Supply <= MaxU64,
                    NEW s \in (Wallet \ misbooked) \cap initialized, NEW d \in Vaults \cap initialized,
                    NEW n \in Amounts, tokens[s] >= n,
                    gen[s].buffer_pending = 0, ~gen[s].redemption_pending,
                    ~Expired(config, now, gen[s])
             PROVE  Hook(s, d, n).ok
  BY DEF RedemptionGoesThrough, Supplied, Supply, Total
<1> DEFINE src == gen[s]
           dst == gen[d]
           path == HookPath(src, dst, ToVault(d))
           out == Hook(s, d, n)
<1>1. /\ TypeOK /\ Accounts /\ TrackedCoversBalance /\ Solvent
      /\ s \in Owner /\ s \in Wallet /\ d \in Owner /\ n \in U64 /\ n \in Nat
      /\ src \in TokenGeneration /\ dst \in TokenGeneration
      /\ tokens[s] \in Int /\ tokens[s] <= Tracked(src)
  BY RolesAssumption, AmountsAssumption, U64InNat
     DEF SupplyInv, BooksInv, TypeOK, TrackedCoversBalance
<1>2. /\ ~src.is_treasury /\ ~src.is_dex_pool /\ ~FromMerchant(src) /\ ~src.is_intermediary
      /\ ToVault(d)
  BY <1>1, RolesAssumption DEF Accounts, FromMerchant, ToVault
<1>3. n <= Tracked(src)
  BY <1>1, TrackedType
<1>4. Fits(FifoDeduct(src, n)) /\ Fits(LockedForRedemption(src, n)) /\ Fits(dst)
  BY <1>1, <1>3, CoveredFits DEF TokenGeneration, Fits
<1>5. path = IF dst.is_dex_pool THEN "dex" ELSE "redemption"
  BY <1>2 DEF HookPath
<1>6. CASE dst.is_dex_pool
  <2>1. out = DexOutcome(src, dst, n)
    BY <1>5, <1>6, PathOutcome
  <2> HIDE DEF src, dst, out
  <2>2. out = Outcome(TRUE, FifoDeduct(src, n), dst)
    BY <1>2, <1>6, <2>1 DEF DexOutcome
  <2>3. out.ok
    BY <1>4, <2>2 DEF Outcome
  <2> QED
    BY <2>3 DEF out
<1>7. CASE ~dst.is_dex_pool
  <2>1. out = RedemptionOutcome(config, now, src, dst, n)
    BY <1>5, <1>7, PathOutcome
  <2>2. SharesFit(src, FromGen2(src, n))
    <3>1. src.gen2_balance <= Supply
      BY <1>1, BooksWithin
    <3> QED
      BY <1>1, <3>1, ProductsFit DEF ChargedInv
  <2> HIDE DEF src, dst, out
  <2>3. RedemptionOutcome(config, now, src, dst, n)
          = Outcome(TRUE, LockedForRedemption(src, n), dst)
    BY <2>2 DEF RedemptionOutcome, src
  <2>4. Outcome(TRUE, LockedForRedemption(src, n), dst).ok
    BY <1>4, UnguardedOutcome
  <2>5. out = Outcome(TRUE, LockedForRedemption(src, n), dst)
    BY <2>1, <2>3
  <2>6. out.ok
    BY <2>4, <2>5
  <2> QED
    BY <2>6 DEF out
<1> QED
  BY <1>6, <1>7

\* Whatever was shared, burned, settled, claimed and disputed before: a customer
\* with the tokens, an empty buffer, no redemption pending and nothing expired can
\* redeem.  Neither the dead-balance subtraction nor the u64 product of the
\* shares panics, for every mint whose supply squared fits a u64.  The exception
\* are the two ends of a burn whose books and tokens are not the same owner's.
THEOREM RedemptionsGoThrough == CommissionSpec => []RedemptionGoesThrough
  BY ChargedAlways, NothingInTheWay, PTL

=============================================================================
