--------------------------- MODULE Guards_proofs ---------------------------
(***************************************************************************)
(* The daily share limit, the redemption lock and the order of spending    *)
(* hold in every behaviour of TokenFlow.  The first two rest on what each  *)
(* operation leaves alone (the share counter, the state of the lock), the  *)
(* third on what it does to the balances, along every path of the hook.    *)
(***************************************************************************)
EXTENDS TokenFlow_proofs

SameShares(g, h) ==
    /\ h.share_limit_day = g.share_limit_day
    /\ h.shares_today = g.shares_today

SameLock(g, h) ==
    /\ h.redemption_pending = g.redemption_pending
    /\ h.redemption_gen2_consumed = g.redemption_gen2_consumed
    /\ h.redemption_slot_consumed = g.redemption_slot_consumed
    /\ h.redemption_slots_settled = g.redemption_slots_settled
    /\ h.active_referrer_slots = g.active_referrer_slots
    /\ h.referrer_slots = g.referrer_slots

Undisturbed(g, h) == SameShares(g, h) /\ SameLock(g, h)

LEMMA UndisturbedReflexive == \A g : Undisturbed(g, g)
BY DEF Undisturbed, SameShares, SameLock

LEMMA UndisturbedTransitive ==
    \A f, g, h : Undisturbed(f, g) /\ Undisturbed(g, h) => Undisturbed(f, h)
BY DEF Undisturbed, SameShares, SameLock

-----------------------------------------------------------------------------
(* The operations *)

\* Receiving, whether or not the buffer has room.
LEMMA ReceiveFrame ==
    ASSUME NEW g \in TokenGeneration, NEW e \in InboundEntry
    PROVE  Undisturbed(g, Receive(g, e))
<1> DEFINE w == WriteInbound(g, e)
<1>1. CASE BufferFull(g)
  BY <1>1 DEF TokenGeneration, Receive, Undisturbed, SameShares, SameLock
<1>2. CASE ~BufferFull(g)
  <2>1. w \in TokenGeneration
    BY <1>2, WriteInboundType
  <2>2. Undisturbed(g, w)
    BY DEF WriteInbound, TokenGeneration, Undisturbed, SameShares, SameLock
  <2>3. \/ Receive(g, e) = [w EXCEPT !.gen1_balance = @ + e.amount]
        \/ Receive(g, e) = [w EXCEPT !.gen2_balance = @ + e.amount]
        \/ Receive(g, e) = [w EXCEPT !.dead_balance = @ + e.amount]
    BY <1>2 DEF Receive
  <2> HIDE DEF w
  <2> QED
    BY <2>1, <2>2, <2>3 DEF TokenGeneration, Undisturbed, SameShares, SameLock
<1> QED
  BY <1>1, <1>2

LEMMA StampedFrame ==
    ASSUME NEW g \in TokenGeneration, NEW e \in InboundEntry, NEW t \in Nat,
           Fits(StampFirst(Receive(g, e), t))
    PROVE  Undisturbed(g, StampFirst(Receive(g, e), t))
<1> DEFINE r == Receive(g, e)
<1>1. Undisturbed(g, r)
  BY ReceiveFrame
<1>2. Fits(r)
  <2>1. /\ StampFirst(r, t).gen1_balance = r.gen1_balance
        /\ StampFirst(r, t).gen2_balance = r.gen2_balance
        /\ StampFirst(r, t).dead_balance = r.dead_balance
    BY DEF StampFirst
  <2> QED
    BY <2>1 DEF Fits
<1>3. r \in TokenGeneration
  BY <1>2, ReceiveType
<1> HIDE DEF r
<1>4. Undisturbed(r, StampFirst(r, t))
  BY <1>3 DEF TokenGeneration, StampFirst, Undisturbed, SameShares, SameLock
<1>5. Undisturbed(g, StampFirst(r, t))
  BY <1>1, <1>4, UndisturbedTransitive
<1> QED
  BY <1>5 DEF r

LEMMA SpendFrame ==
    ASSUME NEW g \in TokenGeneration, NEW n
    PROVE  Undisturbed(g, FifoDeduct(g, n)) /\ Undisturbed(g, Burned(g, n))
BY DEF TokenGeneration, FifoDeduct, Burned, Undisturbed, SameShares, SameLock

LEMMA FinalizedFrame ==
    ASSUME NEW g \in TokenGeneration
    PROVE  Undisturbed(g, Finalized(g))
BY DEF TokenGeneration, Finalized, Undisturbed, SameShares, SameLock

LEMMA LockingFrame ==
    ASSUME NEW g \in TokenGeneration, NEW n
    PROVE  SameShares(g, LockedForRedemption(g, n)) /\ SameShares(g, Unlocked(g))
BY DEF TokenGeneration, LockedForRedemption, FifoDeduct, Unlocked, SameShares

LEMMA CountedFrame ==
    ASSUME NEW g \in TokenGeneration, NEW c, NEW t
    PROVE  SameLock(g, CountedShare(c, t, g))
BY DEF TokenGeneration, CountedShare, SameLock

-----------------------------------------------------------------------------
(* The hook *)

\* The receiver keeps its counter and its redemption; the sender's counter
\* moves only in a peer transfer, which respects the limit, and its lock only
\* when no redemption was pending and the amount is redeemed.
HookKeeps(s, d, n) ==
    /\ Undisturbed(gen[d], Hook(s, d, n).dst)
    /\ \/ SameLock(gen[s], Hook(s, d, n).src)
       \/ ~gen[s].redemption_pending /\ Hook(s, d, n).src = LockedForRedemption(gen[s], n)
    /\ IF HookPath(gen[s], gen[d], ToVault(d)) = "peer"
       THEN /\ ShareLimitAllows(config, now, gen[s])
            /\ SameShares(CountedShare(config, now, gen[s]), Hook(s, d, n).src)
       ELSE SameShares(gen[s], Hook(s, d, n).src)

LEMMA HookFrame ==
    ASSUME TypeOK, NEW s \in Owner, NEW d \in Owner, NEW n \in U64, Hook(s, d, n).ok
    PROVE  HookKeeps(s, d, n)
<1> DEFINE src == gen[s]
           dst == gen[d]
           out == Hook(s, d, n)
           path == HookPath(src, dst, ToVault(d))
<1> USE UndisturbedReflexive
<1>1. src \in TokenGeneration /\ dst \in TokenGeneration /\ now \in Nat /\ config \in MerchantConfig
  BY DEF TypeOK
<1>2. NoOwner \in Owner \cup {NoOwner} /\ src.original_sender \in Owner \cup {NoOwner}
  BY <1>1 DEF TokenGeneration
<1>3. ASSUME NEW e \in InboundEntry, Fits(StampFirst(Receive(dst, e), now))
      PROVE  Undisturbed(dst, StampFirst(Receive(dst, e), now))
  BY <1>1, <1>3, StampedFrame
<1>4. NewEntry(NoOwner, n, "Issuance") \in InboundEntry
  BY <1>2, NewEntryType DEF GenSource
<1>5. CASE path = "treasury"
  <2>1. out = TreasuryOutcome(src, dst, n)
    BY <1>5, PathOutcome
  <2>2. out.src = src /\ out.dst = Receive(dst, NewEntry(NoOwner, n, "Issuance"))
    BY <2>1 DEF TreasuryOutcome, Outcome
  <2>3. Undisturbed(dst, out.dst)
    BY <1>1, <1>4, <2>2, ReceiveFrame
  <2> HIDE DEF src, dst, out, path
  <2> QED
    BY <1>5, <2>2, <2>3 DEF HookKeeps, Undisturbed, src, dst, out, path
<1>6. CASE path = "dex"
  <2>1. out = DexOutcome(src, dst, n)
    BY <1>6, PathOutcome
  <2>2. /\ out.src = src \/ out.src = FifoDeduct(src, n)
        /\ out.dst = dst \/ out.dst = [dst EXCEPT !.dead_balance = @ + n]
    BY <2>1 DEF DexOutcome, Outcome
  <2> HIDE DEF src, dst, out, path
  <2>3. Undisturbed(src, out.src)
    BY <1>1, <2>2, SpendFrame
  <2>4. Undisturbed(dst, out.dst)
    BY <1>1, <2>2 DEF TokenGeneration, Undisturbed, SameShares, SameLock
  <2> QED
    BY <1>6, <2>3, <2>4 DEF HookKeeps, Undisturbed, src, dst, out, path
<1>7. CASE path = "redemption"
  <2>1. out = RedemptionOutcome(config, now, src, dst, n)
    BY <1>7, PathOutcome
  <2> DEFINE o == RedemptionOutcome(config, now, src, dst, n)
  <2>2. /\ o.src = LockedForRedemption(src, n)
        /\ o.dst = dst
        /\ o.ok => ~src.redemption_pending
    <3> HIDE DEF src, dst
    <3> QED
      BY DEF RedemptionOutcome, Outcome
  <2> HIDE DEF o
  <2>3. out.src = LockedForRedemption(src, n) /\ out.dst = dst /\ ~src.redemption_pending
    BY <2>1, <2>2 DEF o
  <2> HIDE DEF src, dst, out, path
  <2>4. SameShares(src, out.src)
    BY <1>1, <2>3, LockingFrame
  <2> QED
    BY <1>7, <2>3, <2>4 DEF HookKeeps, src, dst, out, path
<1>8. CASE path = "issuance"
  <2> DEFINE e == NewEntry(NoOwner, n, "Issuance")
  <2>1. out = IssuanceOutcome(now, src, dst, n)
    BY <1>8, PathOutcome
  <2>2. e \in InboundEntry
    BY <1>4
  <2> DEFINE o == IssuanceOutcome(now, src, dst, n)
  <2>3. /\ o.src = src
        /\ o.dst = StampFirst(Receive(dst, e), now)
        /\ o.ok => Fits(o.dst)
    <3> HIDE DEF src, dst, e
    <3> QED
      BY DEF IssuanceOutcome, Outcome, e
  <2> HIDE DEF e, o
  <2>4. out.src = src /\ Undisturbed(dst, out.dst)
    BY <1>3, <2>1, <2>2, <2>3 DEF o
  <2> HIDE DEF src, dst, out, path
  <2> QED
    BY <1>8, <2>4 DEF HookKeeps, Undisturbed, src, dst, out, path
<1>9. CASE path = "release"
  <2> DEFINE source == IF src.original_sender = NoOwner THEN "DeadPass" ELSE "ViralShare"
             e == NewEntry(src.original_sender, n, source)
  <2>1. out = ReleaseOutcome(now, src, dst, n)
    BY <1>9, PathOutcome
  <2>2. e \in InboundEntry
    BY <1>2, NewEntryType DEF GenSource
  <2> HIDE DEF e
  <2> DEFINE o == ReleaseOutcome(now, src, dst, n)
  <2>3. /\ o.src = src
        /\ o.dst = IF dst.is_intermediary THEN dst ELSE StampFirst(Receive(dst, e), now)
        /\ o.ok = (TRUE /\ Fits(o.src) /\ Fits(o.dst))
    BY DEF ReleaseOutcome, Outcome, e
  <2> HIDE DEF o
  <2>4. out.src = src /\ Undisturbed(dst, out.dst)
    BY <1>3, <2>1, <2>2, <2>3 DEF o
  <2> HIDE DEF src, dst, out, path
  <2> QED
    BY <1>9, <2>4 DEF HookKeeps, Undisturbed, src, dst, out, path
<1>10. CASE path = "peer"
  <2> DEFINE e == PeerEntry(src, n)
             c == CountedShare(config, now, src)
  <2>1. out = PeerOutcome(config, now, src, dst, n)
    BY <1>10, PathOutcome
  <2>2. e \in InboundEntry /\ c \in TokenGeneration /\ SameLock(src, c)
    BY <1>1, PeerEntryType, CountedShareType, CountedFrame
  <2> HIDE DEF e
  <2> DEFINE o == PeerOutcome(config, now, src, dst, n)
  <2>3. /\ o.src = FifoDeduct(c, n)
        /\ o.dst = IF dst.is_intermediary THEN dst ELSE StampFirst(Receive(dst, e), now)
        /\ o.ok => PeerAllowed(config, now, src, n) /\ Fits(o.dst)
    BY DEF PeerOutcome, Outcome, e
  <2> HIDE DEF o
  <2>4. /\ out.src = FifoDeduct(c, n) /\ Undisturbed(dst, out.dst)
        /\ ShareLimitAllows(config, now, src)
    BY <1>3, <2>1, <2>2, <2>3 DEF o, PeerAllowed
  <2> HIDE DEF c
  <2>5. Undisturbed(c, out.src)
    BY <2>2, <2>4, SpendFrame
  <2> HIDE DEF src, dst, out, path
  <2>6. SameLock(src, out.src) /\ SameShares(c, out.src)
    BY <2>2, <2>5 DEF Undisturbed, SameLock
  <2> QED
    BY <1>10, <2>4, <2>6 DEF HookKeeps, Undisturbed, src, dst, out, path, c
<1> QED
  BY <1>5, <1>6, <1>7, <1>8, <1>9, <1>10, PathOutcome

-----------------------------------------------------------------------------
(* One step, seen from one owner *)

\* What a step of the others, or one that neither shares nor passes midnight,
\* does to the counter of w: nothing, unless it opens the account.
CounterKept(w) ==
    /\ gen[w] = FreshGeneration(w) \/ SameShares(gen[w], gen'[w])
    /\ sharesMade'[w] = sharesMade[w]
    /\ UNCHANGED <<config, now>>

\* w makes a peer transfer the limit allows.
CounterMoved(w) ==
    /\ ShareLimitAllows(config, now, gen[w])
    /\ SameShares(CountedShare(config, now, gen[w]), gen'[w])
    /\ sharesMade'[w] = sharesMade[w] + 1
    /\ UNCHANGED <<config, now>>

\* What a step does to a redemption of w: nothing, unless it starts or ends.
LockKept(w) ==
    \/ ~gen[w].redemption_pending
    \/ ~gen'[w].redemption_pending
    \/ SameLock(gen[w], gen'[w])

LEMMA TransferStep ==
    ASSUME BooksInv, NEW path, NEW s \in Owner, NEW d \in Owner, NEW n \in U64,
           Transfer(path, s, d, n), NEW w \in Owner
    PROVE  /\ LockKept(w)
           /\ sharesMade'[w] = sharesMade[w] /\ (path # "peer" \/ w # s) => CounterKept(w)
           /\ sharesMade'[w] = sharesMade[w] + 1 /\ path = "peer" /\ w = s => CounterMoved(w)
<1> DEFINE a == Hook(s, d, n).src
           b == Hook(s, d, n).dst
<1>1. /\ s # d
      /\ HookPath(gen[s], gen[d], ToVault(d)) = path
      /\ Hook(s, d, n).ok
      /\ gen' = [gen EXCEPT ![s] = a, ![d] = b]
      /\ UNCHANGED <<config, now>>
  BY DEF Transfer
<1>2. TypeOK /\ gen \in [Owner -> TokenGeneration] /\ n \in U64
  BY DEF BooksInv, TypeOK
<1>3. HookKeeps(s, d, n)
  BY <1>1, <1>2, HookFrame
<1>4. /\ Undisturbed(gen[d], b)
      /\ SameLock(gen[s], a) \/ ~gen[s].redemption_pending
      /\ path = "peer" => /\ ShareLimitAllows(config, now, gen[s])
                          /\ SameShares(CountedShare(config, now, gen[s]), a)
      /\ path # "peer" => SameShares(gen[s], a)
  BY <1>1, <1>3 DEF HookKeeps
<1> HIDE DEF a, b
<1>5. CASE w = s
  <2>1. gen'[w] = a
    BY <1>1, <1>2, <1>5
  <2> QED
    BY <1>1, <1>4, <1>5, <2>1 DEF LockKept, CounterKept, CounterMoved
<1>6. CASE w = d
  <2>1. gen'[w] = b
    BY <1>1, <1>2, <1>6
  <2> QED
    BY <1>1, <1>4, <1>6, <2>1 DEF Undisturbed, LockKept, CounterKept
<1>7. CASE w # s /\ w # d
  <2>1. gen'[w] = gen[w]
    BY <1>1, <1>2, <1>7
  <2> QED
    BY <1>1, <1>7, <2>1, UndisturbedReflexive DEF Undisturbed, LockKept, CounterKept
<1> QED
  BY <1>5, <1>6, <1>7

\* An instruction on the account of o alone.
LEMMA OneStep ==
    ASSUME BooksInv, NEW o \in Owner, NEW g, gen' = [gen EXCEPT ![o] = g],
           \/ gen[o] = FreshGeneration(o)
           \/ SameShares(gen[o], g) /\ (SameLock(gen[o], g) \/ ~g.redemption_pending),
           UNCHANGED <<config, now, sharesMade>>, NEW w \in Owner
    PROVE  LockKept(w) /\ CounterKept(w)
<1>1. gen \in [Owner -> TokenGeneration]
  BY DEF BooksInv, TypeOK
<1>2. CASE w = o
  <2>1. gen'[w] = g
    BY <1>1, <1>2
  <2>2. FreshGeneration(o).redemption_pending = FALSE
    BY DEF FreshGeneration
  <2> QED
    BY <1>2, <2>1, <2>2 DEF LockKept, CounterKept
<1>3. CASE w # o
  <2>1. gen'[w] = gen[w]
    BY <1>1, <1>3
  <2> QED
    BY <2>1, UndisturbedReflexive DEF Undisturbed, LockKept, CounterKept
<1> QED
  BY <1>2, <1>3

LEMMA StepKinds ==
    ASSUME BooksInv, [Next]_vars, NEW w \in Owner
    PROVE  LockKept(w) /\ (CounterKept(w) \/ CounterMoved(w) \/ Tick)
<1> USE DEF vars
<1>1. /\ gen \in [Owner -> TokenGeneration] /\ initialized \subseteq Owner
      /\ sharesMade \in [Owner -> Nat]
  BY DEF BooksInv, TypeOK
<1>2. ASSUME NEW o \in Owner, InitTokenGeneration(o) \/ InitTreasuryTokenGeneration(o)
      PROVE  LockKept(w) /\ CounterKept(w)
  <2>1. gen[o] = FreshGeneration(o) /\ UNCHANGED <<config, now, sharesMade>>
    BY <1>2 DEF BooksInv, Unopened, InitTokenGeneration, InitTreasuryTokenGeneration
  <2>2. PICK g : gen' = [gen EXCEPT ![o] = g]
    BY <1>2 DEF InitTokenGeneration, InitTreasuryTokenGeneration
  <2> QED
    BY <2>1, <2>2, OneStep
<1>3. ASSUME NEW o \in Owner,
             \/ RegisterDexPool(o) \/ FinalizeInbound(o) \/ ClearRedemptionPending(o)
             \/ \E b \in Owner \cup {NoOwner}, n \in Amounts : BurnTokens(o, b, n)
      PROVE  LockKept(w) /\ CounterKept(w)
  <2> gen[o] \in TokenGeneration
    BY <1>1
  <2>1. CASE RegisterDexPool(o)
    <3> DEFINE g == [gen[o] EXCEPT !.is_dex_pool = TRUE]
    <3>1. gen' = [gen EXCEPT ![o] = g] /\ UNCHANGED <<config, now, sharesMade>>
      BY <2>1, <1>1 DEF RegisterDexPool
    <3>2. SameShares(gen[o], g) /\ SameLock(gen[o], g)
      BY DEF TokenGeneration, SameShares, SameLock
    <3> HIDE DEF g
    <3> QED
      BY <3>1, <3>2, OneStep
  <2>2. CASE FinalizeInbound(o)
    <3> DEFINE g == Finalized(gen[o])
    <3>1. gen' = [gen EXCEPT ![o] = g] /\ UNCHANGED <<config, now, sharesMade>>
      BY <2>2, <1>1 DEF FinalizeInbound
    <3>2. SameShares(gen[o], g) /\ SameLock(gen[o], g)
      BY FinalizedFrame DEF Undisturbed
    <3> HIDE DEF g
    <3> QED
      BY <3>1, <3>2, OneStep
  <2>3. CASE ClearRedemptionPending(o)
    <3> DEFINE g == Unlocked(gen[o])
    <3>1. gen' = [gen EXCEPT ![o] = g] /\ UNCHANGED <<config, now, sharesMade>>
      BY <2>3, <1>1 DEF ClearRedemptionPending
    <3>2. SameShares(gen[o], g) /\ ~g.redemption_pending
      BY LockingFrame DEF TokenGeneration, Unlocked
    <3> HIDE DEF g
    <3> QED
      BY <3>1, <3>2, OneStep
  <2>4. ASSUME NEW b \in Owner \cup {NoOwner}, NEW n \in Amounts, BurnTokens(o, b, n)
        PROVE  LockKept(w) /\ CounterKept(w)
    <3> DEFINE g == Burned(gen[o], n)
    <3>1. gen' = [gen EXCEPT ![o] = g] /\ UNCHANGED <<config, now, sharesMade>>
      BY <2>4, <1>1 DEF BurnTokens
    <3>2. SameShares(gen[o], g) /\ SameLock(gen[o], g)
      BY SpendFrame DEF Undisturbed
    <3> HIDE DEF g
    <3> QED
      BY <3>1, <3>2, OneStep
  <2> QED
    BY <1>3, <2>1, <2>2, <2>3, <2>4
<1>4. ASSUME NEW s \in Owner, NEW d \in Owner, NEW n \in Amounts,
             \/ PayFromTreasury(s, d, n) \/ TransferDex(s, d, n)
             \/ Redeem(s, d, n) \/ Issue(s, d, n)
      PROVE  LockKept(w) /\ CounterKept(w)
  <2>1. sharesMade' = sharesMade
    BY <1>4 DEF PayFromTreasury, TransferDex, Redeem, Issue
  <2>2. PICK path : path # "peer" /\ Transfer(path, s, d, n)
    BY <1>4 DEF PayFromTreasury, TransferDex, Redeem, Issue
  <2>3. n \in U64
    BY AmountsAssumption
  <2> QED
    BY <2>1, <2>2, <2>3, TransferStep
<1>5. ASSUME NEW s \in Owner, NEW d \in Owner, NEW n \in Amounts, PeerShare(s, d, n)
      PROVE  LockKept(w) /\ (CounterKept(w) \/ CounterMoved(w))
  <2>1. Transfer("peer", s, d, n) /\ sharesMade' = [sharesMade EXCEPT ![s] = @ + 1]
    BY <1>5 DEF PeerShare
  <2>2. w = s => sharesMade'[w] = sharesMade[w] + 1
    BY <1>1, <2>1
  <2>3. w # s => sharesMade'[w] = sharesMade[w]
    BY <1>1, <2>1
  <2>4. n \in U64
    BY AmountsAssumption
  <2> QED
    BY <2>1, <2>2, <2>3, <2>4, TransferStep
<1>6. CASE Tick
  BY <1>6, UndisturbedReflexive DEF Tick, LockKept, Undisturbed
<1>7. CASE UNCHANGED vars
  BY <1>7, UndisturbedReflexive DEF LockKept, CounterKept, Undisturbed
<1> QED
  BY <1>2, <1>3, <1>4, <1>5, <1>6, <1>7 DEF Next

-----------------------------------------------------------------------------
(* The order of spending *)

InOrder(g, h) ==
    /\ h.gen2_balance < g.gen2_balance => h.gen1_balance = 0
    /\ h.dead_balance < g.dead_balance => h.gen1_balance = 0 /\ h.gen2_balance = 0

InReverse(g, h) ==
    /\ h.gen2_balance < g.gen2_balance => h.dead_balance = 0
    /\ h.gen1_balance < g.gen1_balance => h.dead_balance = 0 /\ h.gen2_balance = 0

SameBalances(g, h) ==
    /\ h.gen1_balance = g.gen1_balance
    /\ h.gen2_balance = g.gen2_balance
    /\ h.dead_balance = g.dead_balance

LEMMA InOrderSame ==
    ASSUME NEW g \in TokenGeneration, NEW h, SameBalances(g, h)
    PROVE  InOrder(g, h)
BY WidthAssumption DEF TokenGeneration, SameBalances, InOrder, U64

LEMMA FifoOrder ==
    ASSUME NEW g \in TokenGeneration, NEW n \in U64
    PROVE  InOrder(g, FifoDeduct(g, n))
<1> DEFINE x == g.gen1_balance
           y == g.gen2_balance
           z == g.dead_balance
<1>1. x \in Nat /\ y \in Nat /\ z \in Nat /\ n \in Nat
  BY WidthAssumption DEF TokenGeneration, U64
<1>2. /\ FifoDeduct(g, n).gen1_balance = x - FromGen1(g, n)
      /\ FifoDeduct(g, n).gen2_balance = y - FromGen2(g, n)
      /\ FifoDeduct(g, n).dead_balance = z - FromDead(g, n)
  BY DEF TokenGeneration, FifoDeduct
<1>3. /\ FromGen1(g, n) = Lesser(n, x)
      /\ FromGen2(g, n) = Lesser(n - Lesser(n, x), y)
      /\ FromDead(g, n) = n - Lesser(n, x) - Lesser(n - Lesser(n, x), y)
  BY DEF FromGen1, FromGen2, FromDead
<1> HIDE DEF x, y, z
<1> QED
  BY <1>1, <1>2, <1>3 DEF InOrder, Lesser, x, y, z

LEMMA BurnOrder ==
    ASSUME NEW g \in TokenGeneration, NEW n \in U64
    PROVE  InReverse(g, Burned(g, n))
<1> DEFINE x == g.gen1_balance
           y == g.gen2_balance
           z == g.dead_balance
<1>1. x \in Nat /\ y \in Nat /\ z \in Nat /\ n \in Nat
  BY WidthAssumption DEF TokenGeneration, U64
<1>2. /\ Burned(g, n).gen1_balance = x - BurnGen1(g, n)
      /\ Burned(g, n).gen2_balance = y - BurnGen2(g, n)
      /\ Burned(g, n).dead_balance = z - BurnDead(g, n)
  BY DEF TokenGeneration, Burned
<1>3. /\ BurnDead(g, n) = Lesser(n, z)
      /\ BurnGen2(g, n) = Lesser(n - Lesser(n, z), y)
      /\ BurnGen1(g, n) = Lesser(n - Lesser(n, z) - Lesser(n - Lesser(n, z), y), x)
  BY DEF BurnGen1, BurnGen2, BurnDead
<1> HIDE DEF x, y, z
<1> QED
  BY <1>1, <1>2, <1>3 DEF InReverse, Lesser, x, y, z

LEMMA LockedOrder ==
    ASSUME NEW g \in TokenGeneration, NEW n \in U64
    PROVE  InOrder(g, LockedForRedemption(g, n))
<1>1. SameBalances(FifoDeduct(g, n), LockedForRedemption(g, n))
  BY DEF TokenGeneration, FifoDeduct, LockedForRedemption, SameBalances
<1> QED
  BY <1>1, FifoOrder DEF InOrder, SameBalances

LEMMA CountedOrder ==
    ASSUME NEW g \in TokenGeneration, NEW n \in U64, now \in Nat, config \in MerchantConfig
    PROVE  InOrder(g, FifoDeduct(CountedShare(config, now, g), n))
<1> DEFINE c == CountedShare(config, now, g)
<1>1. c \in TokenGeneration
  BY CountedShareType
<1>2. SameBalances(g, c)
  BY DEF TokenGeneration, CountedShare, SameBalances
<1> HIDE DEF c
<1>3. InOrder(c, FifoDeduct(c, n))
  BY <1>1, FifoOrder
<1>4. InOrder(g, FifoDeduct(c, n))
  BY <1>2, <1>3 DEF InOrder, SameBalances
<1> QED
  BY <1>4 DEF c

LEMMA HookOrder ==
    ASSUME TypeOK, NEW s \in Owner, NEW d \in Owner, NEW n \in U64, Hook(s, d, n).ok
    PROVE  InOrder(gen[s], Hook(s, d, n).src)
<1> DEFINE src == gen[s]
           dst == gen[d]
           out == Hook(s, d, n)
           path == HookPath(src, dst, ToVault(d))
<1>1. src \in TokenGeneration /\ now \in Nat /\ config \in MerchantConfig
  BY DEF TypeOK
<1>2. SameBalances(src, src)
  BY DEF SameBalances
<1>3. \/ out.src = src
      \/ out.src = FifoDeduct(src, n)
      \/ out.src = LockedForRedemption(src, n)
      \/ out.src = FifoDeduct(CountedShare(config, now, src), n)
  <2>1. CASE path = "treasury"
    <3>1. out = TreasuryOutcome(src, dst, n)
      BY <2>1, PathOutcome
    <3> QED
      BY <3>1 DEF TreasuryOutcome, Outcome
  <2>2. CASE path = "dex"
    <3>1. out = DexOutcome(src, dst, n)
      BY <2>2, PathOutcome
    <3> QED
      BY <3>1 DEF DexOutcome, Outcome
  <2>3. CASE path = "redemption"
    <3>1. out = RedemptionOutcome(config, now, src, dst, n)
      BY <2>3, PathOutcome
    <3> QED
      BY <3>1 DEF RedemptionOutcome, Outcome
  <2>4. CASE path = "issuance"
    <3>1. out = IssuanceOutcome(now, src, dst, n)
      BY <2>4, PathOutcome
    <3> QED
      BY <3>1 DEF IssuanceOutcome, Outcome
  <2>5. CASE path = "release"
    <3>1. out = ReleaseOutcome(now, src, dst, n)
      BY <2>5, PathOutcome
    <3> QED
      BY <3>1 DEF ReleaseOutcome, Outcome
  <2>6. CASE path = "peer"
    <3>1. out = PeerOutcome(config, now, src, dst, n)
      BY <2>6, PathOutcome
    <3> QED
      BY <3>1 DEF PeerOutcome, Outcome
  <2> QED
    BY <2>1, <2>2, <2>3, <2>4, <2>5, <2>6, PathOutcome
<1> HIDE DEF src, dst, out, path
<1> QED
  BY <1>1, <1>2, <1>3, InOrderSame, FifoOrder, LockedOrder, CountedOrder DEF src, out

\* What a step does to the balances of a customer: not less than before, or
\* spent in order, or burned in the reverse order.
Spent(w) ==
    \/ ~(Tracked(gen'[w]) < Tracked(gen[w]))
    \/ InOrder(gen[w], gen'[w])
    \/ /\ \E b \in Owner \cup {NoOwner}, n \in Amounts : BurnTokens(w, b, n)
       /\ InReverse(gen[w], gen'[w])

LEMMA TransferSpends ==
    ASSUME BooksInv, NEW path, NEW s \in Owner, NEW d \in Owner, NEW n \in U64,
           Transfer(path, s, d, n), NEW w \in Wallet
    PROVE  Spent(w)
<1> DEFINE a == Hook(s, d, n).src
           b == Hook(s, d, n).dst
<1>1. s # d /\ Hook(s, d, n).ok /\ gen' = [gen EXCEPT ![s] = a, ![d] = b]
  BY DEF Transfer
<1>2. /\ TypeOK /\ gen \in [Owner -> TokenGeneration] /\ Accounts /\ w \in Owner
      /\ gen[w] \in TokenGeneration
  BY RolesAssumption DEF BooksInv, TypeOK
<1>3. InOrder(gen[s], a) /\ (d \in Wallet => Tracked(b) = Tracked(gen[d]) + n)
  BY <1>1, <1>2, HookOrder, HookBooks
<1>4. Tracked(gen[w]) \in Nat /\ n \in Nat
  BY <1>2, WidthAssumption DEF TokenGeneration, Tracked, U64
<1> HIDE DEF a, b
<1>5. CASE w = s
  BY <1>1, <1>2, <1>3, <1>5 DEF Spent
<1>6. CASE w = d
  <2>1. gen'[w] = b /\ Tracked(b) = Tracked(gen[w]) + n
    BY <1>1, <1>2, <1>3, <1>6
  <2>2. ~(Tracked(gen'[w]) < Tracked(gen[w]))
    BY <1>4, <2>1
  <2> QED
    BY <2>2 DEF Spent
<1>7. CASE w # s /\ w # d
  <2>1. gen'[w] = gen[w]
    BY <1>1, <1>2, <1>7
  <2>2. ~(Tracked(gen'[w]) < Tracked(gen[w]))
    BY <1>4, <2>1
  <2> QED
    BY <2>2 DEF Spent
<1> QED
  BY <1>5, <1>6, <1>7

\* An instruction on the account of o alone that spends nothing.
LEMMA OneKeeps ==
    ASSUME BooksInv, NEW o \in Owner, NEW g, gen' = [gen EXCEPT ![o] = g],
           o \in Wallet => Tracked(g) = Tracked(gen[o]), NEW w \in Wallet
    PROVE  Spent(w)
<1>1. gen \in [Owner -> TokenGeneration] /\ w \in Owner /\ gen[w] \in TokenGeneration
  BY RolesAssumption DEF BooksInv, TypeOK
<1>2. Tracked(gen[w]) \in Nat
  BY <1>1, WidthAssumption DEF TokenGeneration, Tracked, U64
<1>3. Tracked(gen'[w]) = Tracked(gen[w])
  BY <1>1
<1>4. ~(Tracked(gen'[w]) < Tracked(gen[w]))
  BY <1>2, <1>3
<1> QED
  BY <1>4 DEF Spent

LEMMA StepSpends ==
    ASSUME BooksInv, [Next]_vars, NEW w \in Wallet
    PROVE  Spent(w)
<1>1. /\ gen \in [Owner -> TokenGeneration] /\ initialized \subseteq Owner /\ w \in Owner
      /\ gen[w] \in TokenGeneration
  BY RolesAssumption DEF BooksInv, TypeOK
<1>2. ASSUME NEW o \in Owner, InitTokenGeneration(o)
      PROVE  Spent(w)
  <2>1. gen' = [gen EXCEPT ![o] = FreshGeneration(o)] /\ gen[o] = FreshGeneration(o)
    BY <1>2 DEF BooksInv, Unopened, InitTokenGeneration
  <2> QED
    BY <2>1, OneKeeps
<1>3. ASSUME NEW o \in Owner, InitTreasuryTokenGeneration(o)
      PROVE  Spent(w)
  <2>1. PICK g : gen' = [gen EXCEPT ![o] = g] /\ o \notin Wallet
    BY <1>3, RolesAssumption DEF InitTreasuryTokenGeneration
  <2> QED
    BY <2>1, OneKeeps
<1>4. ASSUME NEW o \in Owner, RegisterDexPool(o)
      PROVE  Spent(w)
  <2>1. PICK g : gen' = [gen EXCEPT ![o] = g] /\ o \notin Wallet
    BY <1>1, <1>4, RolesAssumption DEF RegisterDexPool
  <2> QED
    BY <2>1, OneKeeps
<1>5. ASSUME NEW o \in Owner, FinalizeInbound(o)
      PROVE  Spent(w)
  <2>1. gen' = [gen EXCEPT ![o] = Finalized(gen[o])] /\ gen[o] \in TokenGeneration
    BY <1>1, <1>5 DEF FinalizeInbound
  <2> QED
    BY <2>1, FinalizedType, OneKeeps
<1>6. ASSUME NEW o \in Owner, ClearRedemptionPending(o)
      PROVE  Spent(w)
  <2>1. gen' = [gen EXCEPT ![o] = Unlocked(gen[o])] /\ gen[o] \in TokenGeneration
    BY <1>1, <1>6 DEF ClearRedemptionPending
  <2> QED
    BY <2>1, UnlockedType, OneKeeps
<1>7. ASSUME NEW o \in Owner, NEW b \in Owner \cup {NoOwner}, NEW n \in Amounts,
             BurnTokens(o, b, n)
      PROVE  Spent(w)
  <2>1. gen' = [gen EXCEPT ![o] = Burned(gen[o], n)] /\ n \in U64
    BY <1>1, <1>7, AmountsAssumption DEF BurnTokens
  <2>2. CASE w = o
    <3>1. gen'[w] = Burned(gen[w], n)
      BY <1>1, <2>1, <2>2
    <3> QED
      BY <1>1, <1>7, <2>1, <2>2, <3>1, BurnOrder DEF Spent
  <2>3. CASE w # o
    <3>1. gen'[w] = gen[w]
      BY <1>1, <2>1, <2>3
    <3>2. InOrder(gen[w], gen'[w])
      BY <1>1, <3>1, InOrderSame DEF SameBalances
    <3> QED
      BY <3>2 DEF Spent
  <2> QED
    BY <2>2, <2>3
<1>8. ASSUME NEW s \in Owner, NEW d \in Owner, NEW n \in Amounts,
             \/ PayFromTreasury(s, d, n) \/ TransferDex(s, d, n)
             \/ Redeem(s, d, n) \/ Issue(s, d, n) \/ PeerShare(s, d, n)
      PROVE  Spent(w)
  <2>1. PICK path : Transfer(path, s, d, n)
    BY <1>8 DEF PayFromTreasury, TransferDex, Redeem, Issue, PeerShare
  <2>2. n \in U64
    BY AmountsAssumption
  <2> QED
    BY <2>1, <2>2, TransferSpends
<1>9. CASE Tick \/ UNCHANGED vars
  <2>1. gen' = gen
    BY <1>9 DEF Tick, vars
  <2>2. InOrder(gen[w], gen'[w])
    BY <1>1, <2>1, InOrderSame DEF SameBalances
  <2> QED
    BY <2>2 DEF Spent
<1> QED
  BY <1>2, <1>3, <1>4, <1>5, <1>6, <1>7, <1>8, <1>9 DEF Next

-----------------------------------------------------------------------------
(* The theorems *)

\* The account's counter is at least the number of shares made today: what
\* the limit is compared with is never too small.
ShareCount ==
    \A o \in Owner :
        sharesMade[o] > 0
            => /\ gen[o].share_limit_day = Today(config, now)
               /\ sharesMade[o] <= gen[o].shares_today

ShareInv == BooksInv /\ ShareCount /\ DailyShareLimit

LEMMA InitShares == Init => ShareInv
<1> SUFFICES ASSUME Init PROVE ShareInv
  OBVIOUS
<1>1. \A o \in Owner : sharesMade[o] = 0
  BY DEF Init
<1>2. config.max_referrals_per_wallet_per_day \in Nat
  BY ConfigsAssumption DEF Init, MerchantConfig
<1>3. ShareCount
  BY <1>1 DEF ShareCount
<1>4. DailyShareLimit
  BY <1>1, <1>2 DEF DailyShareLimit
<1> QED
  BY <1>3, <1>4, InitBooks DEF ShareInv

LEMMA NextShares == ShareInv /\ [Next]_vars => ShareInv'
<1> SUFFICES ASSUME ShareInv, [Next]_vars PROVE ShareInv'
  OBVIOUS
<1>1. BooksInv /\ BooksInv'
  BY NextBooks DEF ShareInv
<1> DEFINE limit == config.max_referrals_per_wallet_per_day
           most == IF limit = 0 THEN 1 ELSE limit
<1>2. limit \in Nat
  BY <1>1 DEF BooksInv, TypeOK, MerchantConfig
<1>3. \A o \in Owner : sharesMade[o] \in Nat /\ gen[o] \in TokenGeneration
  BY <1>1 DEF BooksInv, TypeOK
<1>4. config' = config
  <2>1. CASE UNCHANGED vars
    BY <2>1 DEF vars
  <2>2. CASE Next
    BY <2>2 DEF Next, InitTokenGeneration, InitTreasuryTokenGeneration, RegisterDexPool,
         FinalizeInbound, ClearRedemptionPending, BurnTokens, PayFromTreasury, TransferDex,
         Redeem, Issue, PeerShare, Transfer, Tick
  <2> QED
    BY <2>1, <2>2
<1>5. SUFFICES ASSUME NEW w \in Owner
      PROVE  /\ sharesMade'[w] > 0
                    => /\ gen'[w].share_limit_day = Today(config, now')
                       /\ sharesMade'[w] <= gen'[w].shares_today
             /\ sharesMade'[w] <= most
  BY <1>1, <1>4 DEF ShareInv, ShareCount, DailyShareLimit
<1>6. /\ sharesMade[w] \in Nat /\ gen[w] \in TokenGeneration
      /\ gen[w].shares_today \in Nat
  BY <1>3 DEF TokenGeneration
<1>7. /\ sharesMade[w] > 0
            => /\ gen[w].share_limit_day = Today(config, now)
               /\ sharesMade[w] <= gen[w].shares_today
      /\ sharesMade[w] <= most
  BY DEF ShareInv, ShareCount, DailyShareLimit
<1> DEFINE today == Today(config, now)
<1> HIDE DEF limit, today
<1>8. CASE CounterKept(w)
  <2>1. FreshGeneration(w).shares_today = 0
    BY DEF FreshGeneration
  <2>2. CASE gen[w] = FreshGeneration(w)
    <3>1. sharesMade[w] = 0
      BY <1>6, <1>7, <2>1, <2>2
    <3> QED
      BY <1>2, <1>8, <3>1 DEF CounterKept
  <2>3. CASE SameShares(gen[w], gen'[w])
    BY <1>7, <1>8, <2>3 DEF CounterKept, SameShares
  <2> QED
    BY <1>8, <2>2, <2>3 DEF CounterKept
<1>9. CASE CounterMoved(w)
  <2> DEFINE c == CountedShare(config, now, gen[w])
  <2>1. /\ sharesMade'[w] = sharesMade[w] + 1 /\ now' = now
        /\ gen'[w].share_limit_day = c.share_limit_day
        /\ gen'[w].shares_today = c.shares_today
        /\ gen[w].share_limit_day = today => gen[w].shares_today < limit
    BY <1>9 DEF CounterMoved, SameShares, ShareLimitAllows, today, limit
  <2>2. CASE gen[w].share_limit_day = today
    <3>1. c.share_limit_day = today /\ c.shares_today = gen[w].shares_today + 1
      BY <1>6, <2>2 DEF CountedShare, TokenGeneration, today
    <3> HIDE DEF c
    <3> QED
      BY <1>2, <1>6, <1>7, <2>1, <2>2, <3>1 DEF today
  <2>3. CASE gen[w].share_limit_day # today
    <3>1. c.share_limit_day = today /\ c.shares_today = 1
      BY <1>6, <2>3 DEF CountedShare, TokenGeneration, today
    <3> HIDE DEF c
    <3>2. sharesMade[w] = 0
      BY <1>6, <1>7, <2>3 DEF today
    <3> QED
      BY <1>2, <2>1, <3>1, <3>2 DEF today
  <2> QED
    BY <2>2, <2>3
<1>10. CASE Tick
  <2>1. gen' = gen
    BY <1>10 DEF Tick
  <2>2. CASE Today(config, now') = Today(config, now)
    <3>1. sharesMade' = sharesMade
      BY <1>10, <2>2 DEF Tick
    <3> QED
      BY <1>7, <2>1, <2>2, <3>1
  <2>3. CASE Today(config, now') # Today(config, now)
    <3>1. sharesMade'[w] = 0
      BY <1>10, <2>3 DEF Tick
    <3> QED
      BY <1>2, <3>1
  <2> QED
    BY <2>2, <2>3
<1> QED
  BY <1>1, <1>8, <1>9, <1>10, StepKinds

\* No wallet makes more peer transfers in a day than the merchant allows (one,
\* where the limit is zero), whatever it receives, redeems or burns between them.
THEOREM ShareLimitHolds == Spec => []DailyShareLimit
<1>1. ShareInv => DailyShareLimit
  BY DEF ShareInv
<1> QED
  BY <1>1, InitShares, NextShares, PTL DEF Spec

\* While a redemption is pending no step changes what it owes its referrers.
THEOREM LockFreezes == Spec => LockFreezesRedemption
<1>1. BooksInv /\ [Next]_vars => [RedemptionKept]_vars
  <2> SUFFICES ASSUME BooksInv, [Next]_vars, NEW o \in Owner,
                      gen[o].redemption_pending, gen'[o].redemption_pending
               PROVE  /\ gen'[o].redemption_gen2_consumed = gen[o].redemption_gen2_consumed
                      /\ gen'[o].redemption_slot_consumed = gen[o].redemption_slot_consumed
    BY DEF RedemptionKept
  <2> QED
    BY StepKinds DEF LockKept, SameLock
<1> QED
  BY <1>1, BooksAlways, PTL DEF Spec, LockFreezesRedemption

\* Whatever a customer spends, on whichever path of the hook, Gen-1 goes before
\* Gen-2 and Gen-2 before dead; only burning goes the other way.
THEOREM SpendsInOrder == Spec => SpendingOrder
<1>1. BooksInv /\ [Next]_vars => [SpentInOrder]_vars
  BY StepSpends DEF Spent, InOrder, InReverse, SpentInOrder
<1> QED
  BY <1>1, BooksAlways, PTL DEF Spec, SpendingOrder

=============================================================================
