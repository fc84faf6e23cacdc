------------------------ MODULE TransferHook_proofs -------------------------
(***************************************************************************)
(* What the operations of Generation return: a TokenGeneration again, and  *)
(* how much each moves the books (Tracked).  Then what each path of        *)
(* execute_transfer_hook leaves behind when it returns Ok: two well-formed *)
(* accounts with their identity, and books that moved by the amount of the *)
(* transfer.                                                               *)
(***************************************************************************)
EXTENDS TransferHook, TLAPS

(* The inbound ring buffer *)

\* write_inbound's three assignments, by their values.
WithBuffer(g, b, h, p) ==
    [g EXCEPT !.inbound_buffer = b, !.buffer_head = h, !.buffer_pending = p]

\* The head never leaves the ring (write_inbound's modulo).
LEMMA HeadStep == \A h \in Index : (h + 1) % BufferSize \in Index
BY BufferAssumption DEF Index

LEMMA WithBufferType ==
    ASSUME NEW g \in TokenGeneration, NEW b \in [Index -> InboundEntry],
           NEW h \in Index, NEW p \in 0..BufferSize
    PROVE  WithBuffer(g, b, h, p) \in TokenGeneration
BY DEF TokenGeneration, WithBuffer

\* An entry written below the limit leaves a well-formed account.
LEMMA WriteInboundType ==
    ASSUME NEW g \in TokenGeneration, NEW e \in InboundEntry, ~BufferFull(g)
    PROVE  WriteInbound(g, e) \in TokenGeneration
<1> DEFINE b == [g.inbound_buffer EXCEPT ![g.buffer_head] = e]
           h == (g.buffer_head + 1) % BufferSize
           p == g.buffer_pending + 1
<1>1. /\ g.buffer_head \in Index
      /\ g.buffer_pending \in 0..BufferSize
      /\ g.inbound_buffer \in [Index -> InboundEntry]
  BY DEF TokenGeneration
<1>2. b \in [Index -> InboundEntry]
  BY <1>1
<1>3. h \in Index
  BY <1>1, HeadStep
<1>4. p \in 0..BufferSize
  BY <1>1, BufferAssumption DEF BufferFull
<1>5. WriteInbound(g, e) = WithBuffer(g, b, h, p)
  BY DEF WriteInbound, WithBuffer
<1> HIDE DEF b, h, p
<1> QED
  BY <1>2, <1>3, <1>4, <1>5, WithBufferType

\* Receiving leaves a well-formed account unless a balance overflowed.
LEMMA ReceiveType ==
    ASSUME NEW g \in TokenGeneration, NEW e \in InboundEntry, Fits(Receive(g, e))
    PROVE  Receive(g, e) \in TokenGeneration
<1>1. CASE BufferFull(g)
  BY <1>1 DEF TokenGeneration, Receive, Fits
<1>2. CASE ~BufferFull(g)
  <2> DEFINE w == WriteInbound(g, e)
  <2>1. w \in TokenGeneration
    BY <1>2, WriteInboundType
  <2> HIDE DEF w
  <2>2. CASE e.generation_source = "Issuance"
    <3>1. Receive(g, e) = [w EXCEPT !.gen1_balance = @ + e.amount]
      BY <1>2, <2>2 DEF Receive, w
    <3> QED
      BY <2>1, <3>1 DEF TokenGeneration, Fits
  <2>3. CASE e.generation_source = "ViralShare"
    <3>1. Receive(g, e) = [w EXCEPT !.gen2_balance = @ + e.amount]
      BY <1>2, <2>3 DEF Receive, w
    <3> QED
      BY <2>1, <3>1 DEF TokenGeneration, Fits
  <2>4. CASE e.generation_source \notin {"Issuance", "ViralShare"}
    <3>1. Receive(g, e) = [w EXCEPT !.dead_balance = @ + e.amount]
      BY <1>2, <2>4 DEF Receive, w
    <3> QED
      BY <2>1, <3>1 DEF TokenGeneration, Fits
  <2> QED
    BY <2>2, <2>3, <2>4
<1> QED
  BY <1>1, <1>2

\* Every token received is booked, with room in the buffer or without.
LEMMA ReceiveTracked ==
    ASSUME NEW g \in TokenGeneration, NEW e \in InboundEntry
    PROVE  Tracked(Receive(g, e)) = Tracked(g) + e.amount
<1>1. e.amount \in Int
  BY WidthAssumption DEF InboundEntry, U64
<1>2. CASE BufferFull(g)
  BY <1>1, <1>2 DEF TokenGeneration, Receive, Tracked, U64
<1>3. CASE ~BufferFull(g)
  <2> DEFINE w == WriteInbound(g, e)
  <2>1. w \in TokenGeneration
    BY <1>3, WriteInboundType
  <2>2. /\ w.gen1_balance = g.gen1_balance
        /\ w.gen2_balance = g.gen2_balance
        /\ w.dead_balance = g.dead_balance
    BY DEF WriteInbound, TokenGeneration
  <2> HIDE DEF w
  <2>3. CASE e.generation_source = "Issuance"
    <3>1. Receive(g, e) = [w EXCEPT !.gen1_balance = @ + e.amount]
      BY <1>3, <2>3 DEF Receive, w
    <3> QED
      BY <1>1, <2>1, <2>2, <3>1 DEF TokenGeneration, Tracked, U64
  <2>4. CASE e.generation_source = "ViralShare"
    <3>1. Receive(g, e) = [w EXCEPT !.gen2_balance = @ + e.amount]
      BY <1>3, <2>4 DEF Receive, w
    <3> QED
      BY <1>1, <2>1, <2>2, <3>1 DEF TokenGeneration, Tracked, U64
  <2>5. CASE e.generation_source \notin {"Issuance", "ViralShare"}
    <3>1. Receive(g, e) = [w EXCEPT !.dead_balance = @ + e.amount]
      BY <1>3, <2>5 DEF Receive, w
    <3> QED
      BY <1>1, <2>1, <2>2, <3>1 DEF TokenGeneration, Tracked, U64
  <2> QED
    BY <2>3, <2>4, <2>5
<1> QED
  BY <1>2, <1>3

\* The flags and the owner are not touched by receiving.
SameIdentity(g, h) ==
    /\ h.owner = g.owner
    /\ h.is_treasury = g.is_treasury
    /\ h.is_dex_pool = g.is_dex_pool
    /\ h.is_intermediary = g.is_intermediary

LEMMA ReceiveIdentity ==
    ASSUME NEW g \in TokenGeneration, NEW e \in InboundEntry
    PROVE  SameIdentity(g, Receive(g, e))
<1> DEFINE w == WriteInbound(g, e)
<1>1. CASE BufferFull(g)
  BY <1>1 DEF TokenGeneration, Receive, SameIdentity
<1>2. CASE ~BufferFull(g)
  <2>1. w \in TokenGeneration
    BY <1>2, WriteInboundType
  <2>2. SameIdentity(g, w)
    BY DEF WriteInbound, TokenGeneration, SameIdentity
  <2>3. \/ Receive(g, e) = [w EXCEPT !.gen1_balance = @ + e.amount]
        \/ Receive(g, e) = [w EXCEPT !.gen2_balance = @ + e.amount]
        \/ Receive(g, e) = [w EXCEPT !.dead_balance = @ + e.amount]
    BY <1>2 DEF Receive
  <2> HIDE DEF w
  <2> QED
    BY <2>1, <2>2, <2>3 DEF TokenGeneration, SameIdentity
<1> QED
  BY <1>1, <1>2

LEMMA StampFirstType ==
    ASSUME NEW g \in TokenGeneration, NEW now \in Nat
    PROVE  /\ StampFirst(g, now) \in TokenGeneration
           /\ Tracked(StampFirst(g, now)) = Tracked(g)
           /\ SameIdentity(g, StampFirst(g, now))
BY DEF TokenGeneration, StampFirst, Tracked, SameIdentity

LEMMA NewEntryType ==
    ASSUME NEW referrer \in Owner \cup {NoOwner}, NEW n \in U64, NEW source \in GenSource
    PROVE  /\ NewEntry(referrer, n, source) \in InboundEntry
           /\ NewEntry(referrer, n, source).amount = n
BY DEF NewEntry, InboundEntry

LEMMA EmptyEntryType == EmptyEntry \in InboundEntry
BY WidthAssumption DEF EmptyEntry, InboundEntry, GenSource, U64

LEMMA ProcessedEntryType == ProcessedEntry \in InboundEntry
<1>1. \A e \in InboundEntry : [e EXCEPT !.processed = TRUE] \in InboundEntry
  BY DEF InboundEntry
<1> QED
  BY <1>1, EmptyEntryType DEF ProcessedEntry

\* finalize_inbound keeps the books and the flags as they are.
LEMMA FinalizedType ==
    ASSUME NEW g \in TokenGeneration
    PROVE  /\ Finalized(g) \in TokenGeneration
           /\ Tracked(Finalized(g)) = Tracked(g)
           /\ SameIdentity(g, Finalized(g))
<1>1. g.inbound_buffer \in [Index -> InboundEntry]
  BY DEF TokenGeneration
<1>2. FinalizedBuffer(g.inbound_buffer) \in [Index -> InboundEntry]
  BY <1>1, ProcessedEntryType DEF FinalizedBuffer, FinalizedEntry
<1>3. 0 \in 0..BufferSize
  BY BufferAssumption
<1> QED
  BY <1>2, <1>3 DEF Finalized, TokenGeneration, Tracked, SameIdentity

-----------------------------------------------------------------------------
(* Spending *)

\* The three parts of a spend are within u64 and add up to it, except that the
\* dead part may exceed the dead balance: the subtraction that panics.
LEMMA SplitType ==
    ASSUME NEW g \in TokenGeneration, NEW n \in U64
    PROVE  /\ FromGen1(g, n) \in U64 /\ FromGen2(g, n) \in U64 /\ FromDead(g, n) \in U64
           /\ FromGen1(g, n) + FromGen2(g, n) + FromDead(g, n) = n
BY WidthAssumption DEF TokenGeneration, FromGen1, FromGen2, FromDead, Lesser, U64

LEMMA FifoDeductType ==
    ASSUME NEW g \in TokenGeneration, NEW n \in U64, Fits(FifoDeduct(g, n))
    PROVE  FifoDeduct(g, n) \in TokenGeneration
BY DEF TokenGeneration, FifoDeduct, Fits

\* Spending takes exactly the amount off the books, however it is split.
LEMMA FifoDeductTracked ==
    ASSUME NEW g \in TokenGeneration, NEW n \in U64
    PROVE  /\ Tracked(FifoDeduct(g, n)) = Tracked(g) - n
           /\ SameIdentity(g, FifoDeduct(g, n))
BY SplitType DEF TokenGeneration, FifoDeduct, Tracked, SameIdentity, U64

LEMMA BurnSplit ==
    ASSUME NEW g \in TokenGeneration, NEW n \in U64
    PROVE  /\ BurnDead(g, n) \in 0..g.dead_balance
           /\ BurnGen2(g, n) \in 0..g.gen2_balance
           /\ BurnGen1(g, n) \in 0..g.gen1_balance
BY WidthAssumption DEF TokenGeneration, BurnDead, BurnGen2, BurnGen1, Lesser, U64

\* burn_tokens takes exactly the amount off the books and never panics.
LEMMA BurnedType ==
    ASSUME NEW g \in TokenGeneration, NEW n \in U64, Burnable(g, n)
    PROVE  /\ Burned(g, n) \in TokenGeneration
           /\ Tracked(Burned(g, n)) = Tracked(g) - n
           /\ SameIdentity(g, Burned(g, n))
<1>1. /\ g.gen1_balance - BurnGen1(g, n) \in U64
      /\ g.gen2_balance - BurnGen2(g, n) \in U64
      /\ g.dead_balance - BurnDead(g, n) \in U64
  BY BurnSplit, WidthAssumption DEF TokenGeneration, U64
<1>2. BurnGen1(g, n) \in Int /\ BurnGen2(g, n) \in Int /\ BurnDead(g, n) \in Int
  BY BurnSplit, WidthAssumption DEF TokenGeneration, U64
<1>3. Burned(g, n) \in TokenGeneration
  BY <1>1 DEF TokenGeneration, Burned
<1>4. SameIdentity(g, Burned(g, n))
  BY DEF TokenGeneration, Burned, SameIdentity
<1>5. /\ Burned(g, n).gen1_balance = g.gen1_balance - BurnGen1(g, n)
      /\ Burned(g, n).gen2_balance = g.gen2_balance - BurnGen2(g, n)
      /\ Burned(g, n).dead_balance = g.dead_balance - BurnDead(g, n)
  BY DEF TokenGeneration, Burned
<1>6. g.gen1_balance \in Int /\ g.gen2_balance \in Int /\ g.dead_balance \in Int
  BY DEF TokenGeneration, U64
<1>7. Tracked(Burned(g, n)) = Tracked(g) - n
  BY <1>2, <1>5, <1>6 DEF Burnable, Tracked
<1> QED
  BY <1>3, <1>4, <1>7

-----------------------------------------------------------------------------
(* The redemption lock *)

\* A slot's share fits the u64 it is stored in.
LEMMA SlotShareType ==
    ASSUME NEW g \in TokenGeneration, NEW consumed \in U64, SharesFit(g, consumed),
           NEW i \in SlotIndex, i \in Charged(g)
    PROVE  SlotShare(g, consumed, i) \in U64
<1> DEFINE attributed == g.referrer_slots[i].tokens_attributed
           product == consumed * attributed
           total == g.gen2_balance
<1>1. attributed \in Nat /\ consumed \in Nat
  BY WidthAssumption DEF TokenGeneration, ReferrerSlot, U64
<1>2. product \in Nat
  BY <1>1
<1>3. product <= MaxU64
  BY DEF SharesFit
<1>4. total \in Nat /\ total > 0
  BY WidthAssumption DEF Charged, TokenGeneration, U64
<1>5. SlotShare(g, consumed, i) = product \div total
  BY DEF SlotShare
<1> HIDE DEF product, total
<1>6. product \div total \in Nat /\ product \div total <= product
  BY <1>2, <1>4
<1> QED
  BY <1>2, <1>3, <1>5, <1>6, WidthAssumption DEF U64

\* redemption_pending, gen2_consumed, slots_settled, slot_consumed by their values.
WithLock(g, p, c, st, sc) ==
    [g EXCEPT !.redemption_pending = p, !.redemption_gen2_consumed = c,
              !.redemption_slots_settled = st, !.redemption_slot_consumed = sc]

LEMMA WithLockType ==
    ASSUME NEW g \in TokenGeneration, NEW p \in BOOLEAN, NEW c \in U64,
           NEW st \in SUBSET SlotIndex, NEW sc \in [SlotIndex -> U64]
    PROVE  /\ WithLock(g, p, c, st, sc) \in TokenGeneration
           /\ Tracked(WithLock(g, p, c, st, sc)) = Tracked(g)
           /\ SameIdentity(g, WithLock(g, p, c, st, sc))
BY DEF TokenGeneration, WithLock, Tracked, SameIdentity

\* Taking the lock: a spend, and four fields of the right type.
LEMMA LockedType ==
    ASSUME NEW g \in TokenGeneration, NEW n \in U64,
           Fits(LockedForRedemption(g, n)), SharesFit(g, FromGen2(g, n))
    PROVE  /\ LockedForRedemption(g, n) \in TokenGeneration
           /\ Tracked(LockedForRedemption(g, n)) = Tracked(g) - n
           /\ SameIdentity(g, LockedForRedemption(g, n))
<1> DEFINE c == FromGen2(g, n)
           f == FifoDeduct(g, n)
           sc == [i \in SlotIndex |-> IF i \in Charged(g)
                                      THEN SlotShare(g, c, i)
                                      ELSE f.redemption_slot_consumed[i]]
<1>1. c \in U64
  BY SplitType
<1>2. LockedForRedemption(g, n) = WithLock(f, TRUE, c, {}, sc)
  BY DEF LockedForRedemption, WithLock
<1>3. Fits(f)
  BY DEF Fits, LockedForRedemption, FifoDeduct, TokenGeneration
<1>4. /\ f \in TokenGeneration
      /\ Tracked(f) = Tracked(g) - n
      /\ SameIdentity(g, f)
  BY <1>3, FifoDeductType, FifoDeductTracked
<1>5. f.redemption_slot_consumed \in [SlotIndex -> U64]
  BY <1>4 DEF TokenGeneration
<1>6. \A i \in SlotIndex : i \in Charged(g) => SlotShare(g, c, i) \in U64
  BY <1>1, SlotShareType
<1>7. sc \in [SlotIndex -> U64]
  BY <1>5, <1>6
<1> HIDE DEF c, f, sc
<1>8. /\ WithLock(f, TRUE, c, {}, sc) \in TokenGeneration
      /\ Tracked(WithLock(f, TRUE, c, {}, sc)) = Tracked(f)
      /\ SameIdentity(f, WithLock(f, TRUE, c, {}, sc))
  BY <1>1, <1>4, <1>7, WithLockType
<1> QED
  BY <1>2, <1>4, <1>8 DEF SameIdentity

LEMMA UnlockedType ==
    ASSUME NEW g \in TokenGeneration
    PROVE  /\ Unlocked(g) \in TokenGeneration
           /\ Tracked(Unlocked(g)) = Tracked(g)
           /\ SameIdentity(g, Unlocked(g))
<1>1. [i \in SlotIndex |-> 0] \in [SlotIndex -> U64]
  BY WidthAssumption DEF U64
<1> QED
  BY <1>1 DEF TokenGeneration, Unlocked, Tracked, SameIdentity

-----------------------------------------------------------------------------
(* New accounts *)

LEMMA FreshGenerationType ==
    ASSUME NEW o \in Owner
    PROVE  /\ FreshGeneration(o) \in TokenGeneration
           /\ Tracked(FreshGeneration(o)) = 0
<1>1. 0 \in U64 /\ 0 \in Index /\ 0 \in 0..BufferSize /\ 0 \in 0..ReferrerSlots
  BY WidthAssumption, BufferAssumption, SlotsAssumption DEF U64, Index
<1>2. [i \in Index |-> EmptyEntry] \in [Index -> InboundEntry]
  BY EmptyEntryType
<1>3. FreeSlot \in ReferrerSlot
  BY <1>1 DEF FreeSlot, ReferrerSlot
<1>4. [i \in SlotIndex |-> FreeSlot] \in [SlotIndex -> ReferrerSlot]
  BY <1>3
<1>5. [i \in SlotIndex |-> 0] \in [SlotIndex -> U64]
  BY <1>1
<1> QED
  BY <1>1, <1>2, <1>4, <1>5 DEF FreshGeneration, TokenGeneration, Tracked

LEMMA FreshIdentity ==
    ASSUME NEW o \in Owner
    PROVE  /\ FreshGeneration(o).owner = o
           /\ FreshGeneration(o).is_intermediary = FALSE
           /\ FreshGeneration(o).is_treasury = FALSE
           /\ FreshGeneration(o).is_dex_pool = FALSE
BY DEF FreshGeneration

LEMMA TreasuryGenerationType ==
    ASSUME NEW o \in Owner
    PROVE  TreasuryGeneration(o) \in TokenGeneration
<1>1. MaxU64 \in U64
  BY WidthAssumption DEF U64
<1>2. \A g \in TokenGeneration :
        [g EXCEPT !.is_treasury = TRUE, !.gen1_balance = MaxU64] \in TokenGeneration
  BY <1>1 DEF TokenGeneration
<1> QED
  BY <1>2, FreshGenerationType DEF TreasuryGeneration

-----------------------------------------------------------------------------
(* The paths of the hook *)

\* Both ends are well formed and still who they were.
WellFormed(src, dst, out) ==
    /\ out.src \in TokenGeneration /\ SameIdentity(src, out.src)
    /\ out.dst \in TokenGeneration /\ SameIdentity(dst, out.dst)

LEMMA SameIdentityReflexive == \A g : SameIdentity(g, g)
BY DEF SameIdentity

LEMMA SameIdentityTransitive ==
    \A f, g, h : SameIdentity(f, g) /\ SameIdentity(g, h) => SameIdentity(f, h)
BY DEF SameIdentity

\* A receipt with its first-receipt stamp.
LEMMA StampedReceive ==
    ASSUME NEW dst \in TokenGeneration, NEW e \in InboundEntry, NEW now \in Nat,
           Fits(StampFirst(Receive(dst, e), now))
    PROVE  /\ StampFirst(Receive(dst, e), now) \in TokenGeneration
           /\ Tracked(StampFirst(Receive(dst, e), now)) = Tracked(dst) + e.amount
           /\ SameIdentity(dst, StampFirst(Receive(dst, e), now))
<1> DEFINE r == Receive(dst, e)
<1>1. Fits(r)
  <2>1. /\ StampFirst(r, now).gen1_balance = r.gen1_balance
        /\ StampFirst(r, now).gen2_balance = r.gen2_balance
        /\ StampFirst(r, now).dead_balance = r.dead_balance
    BY DEF StampFirst
  <2> QED
    BY <2>1 DEF Fits
<1>2. r \in TokenGeneration /\ Tracked(r) = Tracked(dst) + e.amount /\ SameIdentity(dst, r)
  BY <1>1, ReceiveType, ReceiveTracked, ReceiveIdentity
<1> HIDE DEF r
<1>3. /\ StampFirst(r, now) \in TokenGeneration
      /\ Tracked(StampFirst(r, now)) = Tracked(r)
      /\ SameIdentity(r, StampFirst(r, now))
  BY <1>2, StampFirstType
<1>4. SameIdentity(dst, StampFirst(r, now))
  BY <1>2, <1>3, SameIdentityTransitive
<1> QED
  BY <1>2, <1>3, <1>4 DEF r

-----------------------------------------------------------------------------
(* One lemma per path *)

LEMMA TreasuryPath ==
    ASSUME NEW src \in TokenGeneration, NEW dst \in TokenGeneration, NEW n \in U64,
           TreasuryOutcome(src, dst, n).ok
    PROVE  /\ WellFormed(src, dst, TreasuryOutcome(src, dst, n))
           /\ Tracked(TreasuryOutcome(src, dst, n).dst) = Tracked(dst) + n
<1> DEFINE e == NewEntry(NoOwner, n, "Issuance")
<1>1. e \in InboundEntry /\ e.amount = n
  BY NewEntryType DEF GenSource
<1> HIDE DEF e
<1>2. /\ TreasuryOutcome(src, dst, n).src = src
      /\ TreasuryOutcome(src, dst, n).dst = Receive(dst, e)
      /\ Fits(Receive(dst, e))
  BY DEF Outcome, TreasuryOutcome, e
<1>3. /\ Receive(dst, e) \in TokenGeneration
      /\ Tracked(Receive(dst, e)) = Tracked(dst) + n
      /\ SameIdentity(dst, Receive(dst, e))
  BY <1>1, <1>2, ReceiveType, ReceiveTracked, ReceiveIdentity
<1>4. SameIdentity(src, src)
  BY SameIdentityReflexive
<1>5. WellFormed(src, dst, TreasuryOutcome(src, dst, n))
  BY <1>2, <1>3, <1>4 DEF WellFormed
<1> QED
  BY <1>2, <1>3, <1>5

LEMMA DexPath ==
    ASSUME NEW src \in TokenGeneration, NEW dst \in TokenGeneration, NEW n \in U64,
           DexOutcome(src, dst, n).ok
    PROVE  /\ WellFormed(src, dst, DexOutcome(src, dst, n))
           /\ ~src.is_intermediary /\ ~FromMerchant(src)
                => Tracked(DexOutcome(src, dst, n).src) = Tracked(src) - n
           /\ ~dst.is_intermediary /\ ~dst.is_dex_pool
                => Tracked(DexOutcome(src, dst, n).dst) = Tracked(dst) + n
<1> DEFINE s == DexOutcome(src, dst, n).src
           d == DexOutcome(src, dst, n).dst
<1>1. /\ s = IF src.is_intermediary \/ FromMerchant(src) THEN src ELSE FifoDeduct(src, n)
      /\ d = IF dst.is_dex_pool \/ dst.is_intermediary
             THEN dst ELSE [dst EXCEPT !.dead_balance = @ + n]
      /\ Fits(s) /\ Fits(d)
  BY DEF Outcome, DexOutcome
<1> HIDE DEF s, d
<1>2. s \in TokenGeneration /\ SameIdentity(src, s)
  <2>1. CASE src.is_intermediary \/ FromMerchant(src)
    BY <1>1, <2>1 DEF SameIdentity
  <2>2. CASE ~(src.is_intermediary \/ FromMerchant(src))
    <3>1. s = FifoDeduct(src, n) /\ Fits(FifoDeduct(src, n))
      BY <1>1, <2>2
    <3> QED
      BY <3>1, FifoDeductType, FifoDeductTracked
  <2> QED
    BY <2>1, <2>2
<1>3. ~src.is_intermediary /\ ~FromMerchant(src) => Tracked(s) = Tracked(src) - n
  BY <1>1, FifoDeductTracked
<1>4. d \in TokenGeneration /\ SameIdentity(dst, d)
  <2>1. CASE dst.is_dex_pool \/ dst.is_intermediary
    BY <1>1, <2>1 DEF SameIdentity
  <2>2. CASE ~(dst.is_dex_pool \/ dst.is_intermediary)
    <3>1. d = [dst EXCEPT !.dead_balance = @ + n]
      BY <1>1, <2>2
    <3> QED
      BY <1>1, <3>1 DEF TokenGeneration, SameIdentity, Fits
  <2> QED
    BY <2>1, <2>2
<1>5. ~dst.is_intermediary /\ ~dst.is_dex_pool => Tracked(d) = Tracked(dst) + n
  <2>1. n \in Int
    BY WidthAssumption DEF U64
  <2> QED
    BY <1>1, <2>1 DEF TokenGeneration, Tracked, U64
<1>6. WellFormed(src, dst, DexOutcome(src, dst, n))
  BY <1>2, <1>4 DEF WellFormed, s, d
<1> QED
  BY <1>3, <1>5, <1>6 DEF s, d

LEMMA RedemptionPath ==
    ASSUME NEW config, NEW now, NEW src \in TokenGeneration, NEW dst \in TokenGeneration,
           NEW n \in U64, RedemptionOutcome(config, now, src, dst, n).ok
    PROVE  /\ WellFormed(src, dst, RedemptionOutcome(config, now, src, dst, n))
           /\ Tracked(RedemptionOutcome(config, now, src, dst, n).src) = Tracked(src) - n
<1>1. /\ RedemptionOutcome(config, now, src, dst, n).src = LockedForRedemption(src, n)
      /\ RedemptionOutcome(config, now, src, dst, n).dst = dst
      /\ Fits(LockedForRedemption(src, n))
      /\ SharesFit(src, FromGen2(src, n))
  BY DEF Outcome, RedemptionOutcome
<1>2. /\ LockedForRedemption(src, n) \in TokenGeneration
      /\ Tracked(LockedForRedemption(src, n)) = Tracked(src) - n
      /\ SameIdentity(src, LockedForRedemption(src, n))
  BY <1>1, LockedType
<1>3. SameIdentity(dst, dst)
  BY SameIdentityReflexive
<1>4. WellFormed(src, dst, RedemptionOutcome(config, now, src, dst, n))
  BY <1>1, <1>2, <1>3 DEF WellFormed
<1> QED
  BY <1>1, <1>2, <1>4

LEMMA IssuancePath ==
    ASSUME NEW now \in Nat, NEW src \in TokenGeneration, NEW dst \in TokenGeneration,
           NEW n \in U64, IssuanceOutcome(now, src, dst, n).ok
    PROVE  /\ WellFormed(src, dst, IssuanceOutcome(now, src, dst, n))
           /\ Tracked(IssuanceOutcome(now, src, dst, n).dst) = Tracked(dst) + n
<1> DEFINE e == NewEntry(NoOwner, n, "Issuance")
<1>1. e \in InboundEntry /\ e.amount = n
  BY NewEntryType DEF GenSource
<1> HIDE DEF e
<1>2. /\ IssuanceOutcome(now, src, dst, n).src = src
      /\ IssuanceOutcome(now, src, dst, n).dst = StampFirst(Receive(dst, e), now)
      /\ Fits(StampFirst(Receive(dst, e), now))
  BY DEF Outcome, IssuanceOutcome, e
<1> DEFINE r == StampFirst(Receive(dst, e), now)
<1>3. r \in TokenGeneration /\ Tracked(r) = Tracked(dst) + n /\ SameIdentity(dst, r)
  BY <1>1, <1>2, StampedReceive
<1> HIDE DEF r
<1>4. SameIdentity(src, src)
  BY SameIdentityReflexive
<1>5. /\ IssuanceOutcome(now, src, dst, n).src = src
      /\ IssuanceOutcome(now, src, dst, n).dst = r
  BY <1>2 DEF r
<1>6. WellFormed(src, dst, IssuanceOutcome(now, src, dst, n))
  BY <1>3, <1>4, <1>5 DEF WellFormed
<1> QED
  BY <1>3, <1>5, <1>6

LEMMA ReleasePath ==
    ASSUME NEW now \in Nat, NEW src \in TokenGeneration, NEW dst \in TokenGeneration,
           NEW n \in U64, ReleaseOutcome(now, src, dst, n).ok
    PROVE  /\ WellFormed(src, dst, ReleaseOutcome(now, src, dst, n))
           /\ ~dst.is_intermediary
                => Tracked(ReleaseOutcome(now, src, dst, n).dst) = Tracked(dst) + n
<1> DEFINE source == IF src.original_sender = NoOwner THEN "DeadPass" ELSE "ViralShare"
           e == NewEntry(src.original_sender, n, source)
<1>1. src.original_sender \in Owner \cup {NoOwner} /\ source \in GenSource
  BY DEF TokenGeneration, GenSource
<1>2. e \in InboundEntry /\ e.amount = n
  BY <1>1, NewEntryType
<1>3. /\ ReleaseOutcome(now, src, dst, n).src = src
      /\ ReleaseOutcome(now, src, dst, n).dst =
            IF dst.is_intermediary THEN dst ELSE StampFirst(Receive(dst, e), now)
      /\ Fits(ReleaseOutcome(now, src, dst, n).dst)
  BY DEF Outcome, ReleaseOutcome
<1> HIDE DEF source, e
<1> DEFINE d == ReleaseOutcome(now, src, dst, n).dst
<1>4. /\ d \in TokenGeneration /\ SameIdentity(dst, d)
      /\ ~dst.is_intermediary => Tracked(d) = Tracked(dst) + n
  <2>1. CASE dst.is_intermediary
    <3>1. d = dst
      BY <1>3, <2>1
    <3> QED
      BY <2>1, <3>1, SameIdentityReflexive
  <2>2. CASE ~dst.is_intermediary
    <3>1. d = StampFirst(Receive(dst, e), now) /\ Fits(StampFirst(Receive(dst, e), now))
      BY <1>3, <2>2
    <3> QED
      BY <1>2, <3>1, StampedReceive
  <2> QED
    BY <2>1, <2>2
<1> HIDE DEF d
<1>5. SameIdentity(src, src)
  BY SameIdentityReflexive
<1>6. ReleaseOutcome(now, src, dst, n).dst = d
  BY DEF d
<1>7. WellFormed(src, dst, ReleaseOutcome(now, src, dst, n))
  BY <1>3, <1>4, <1>5, <1>6 DEF WellFormed
<1> QED
  BY <1>4, <1>6, <1>7

\* The daily count is a u16 in the code; its range is not the point here.
LEMMA TodayType ==
    ASSUME NEW config \in MerchantConfig, NEW now \in Nat
    PROVE  Today(config, now) \in Nat
BY DEF Today, MerchantConfig

LEMMA CountedShareType ==
    ASSUME NEW config \in MerchantConfig, NEW now \in Nat, NEW src \in TokenGeneration
    PROVE  /\ CountedShare(config, now, src) \in TokenGeneration
           /\ Tracked(CountedShare(config, now, src)) = Tracked(src)
           /\ SameIdentity(src, CountedShare(config, now, src))
<1> DEFINE t == Today(config, now)
<1>1. t \in Nat
  BY TodayType
<1> HIDE DEF t
<1>2. CASE src.share_limit_day = t
  <2>1. CountedShare(config, now, src) = [src EXCEPT !.shares_today = @ + 1]
    BY <1>2 DEF CountedShare, t
  <2> QED
    BY <2>1 DEF TokenGeneration, Tracked, SameIdentity
<1>3. CASE src.share_limit_day # t
  <2>1. CountedShare(config, now, src) = [src EXCEPT !.share_limit_day = t, !.shares_today = 1]
    BY <1>3 DEF CountedShare, t
  <2>2. CountedShare(config, now, src) \in TokenGeneration
    <3>1. \A x, y \in Nat :
            [src EXCEPT !.share_limit_day = x, !.shares_today = y] \in TokenGeneration
      BY DEF TokenGeneration
    <3>2. [src EXCEPT !.share_limit_day = t, !.shares_today = 1] \in TokenGeneration
      BY <1>1, <3>1
    <3> QED
      BY <2>1, <3>2
  <2>3. Tracked(CountedShare(config, now, src)) = Tracked(src)
    BY <2>1 DEF TokenGeneration, Tracked
  <2>4. SameIdentity(src, CountedShare(config, now, src))
    BY <2>1 DEF TokenGeneration, SameIdentity
  <2> QED
    BY <2>2, <2>3, <2>4
<1> QED
  BY <1>2, <1>3

LEMMA PeerEntryType ==
    ASSUME NEW src \in TokenGeneration, NEW n \in U64
    PROVE  PeerEntry(src, n) \in InboundEntry /\ PeerEntry(src, n).amount = n
<1>1. src.owner \in Owner
  BY DEF TokenGeneration
<1> QED
  BY <1>1, NewEntryType DEF PeerEntry, GenSource

LEMMA PeerPath ==
    ASSUME NEW config \in MerchantConfig, NEW now \in Nat, NEW src \in TokenGeneration,
           NEW dst \in TokenGeneration, NEW n \in U64, PeerOutcome(config, now, src, dst, n).ok
    PROVE  /\ WellFormed(src, dst, PeerOutcome(config, now, src, dst, n))
           /\ Tracked(PeerOutcome(config, now, src, dst, n).src) = Tracked(src) - n
           /\ ~dst.is_intermediary
                => Tracked(PeerOutcome(config, now, src, dst, n).dst) = Tracked(dst) + n
<1> DEFINE c == CountedShare(config, now, src)
           e == PeerEntry(src, n)
<1>1. c \in TokenGeneration /\ Tracked(c) = Tracked(src) /\ SameIdentity(src, c)
  BY CountedShareType
<1>2. e \in InboundEntry /\ e.amount = n
  BY PeerEntryType
<1>3. /\ PeerOutcome(config, now, src, dst, n).src = FifoDeduct(c, n)
      /\ PeerOutcome(config, now, src, dst, n).dst =
            IF dst.is_intermediary THEN dst ELSE StampFirst(Receive(dst, e), now)
      /\ Fits(PeerOutcome(config, now, src, dst, n).src)
      /\ Fits(PeerOutcome(config, now, src, dst, n).dst)
  BY DEF Outcome, PeerOutcome
<1> HIDE DEF c, e
<1> DEFINE f == FifoDeduct(c, n)
           d == PeerOutcome(config, now, src, dst, n).dst
<1>4. f \in TokenGeneration /\ Tracked(f) = Tracked(src) - n /\ SameIdentity(src, f)
  <2>1. /\ f \in TokenGeneration
        /\ Tracked(f) = Tracked(c) - n
        /\ SameIdentity(c, f)
    BY <1>1, <1>3, FifoDeductType, FifoDeductTracked
  <2> HIDE DEF f
  <2> QED
    BY <1>1, <2>1, SameIdentityTransitive
<1>5. /\ d \in TokenGeneration /\ SameIdentity(dst, d)
      /\ ~dst.is_intermediary => Tracked(d) = Tracked(dst) + n
  <2>1. CASE dst.is_intermediary
    <3>1. d = dst
      BY <1>3, <2>1
    <3> QED
      BY <2>1, <3>1, SameIdentityReflexive
  <2>2. CASE ~dst.is_intermediary
    <3>1. d = StampFirst(Receive(dst, e), now) /\ Fits(StampFirst(Receive(dst, e), now))
      BY <1>3, <2>2
    <3> QED
      BY <1>2, <3>1, StampedReceive
  <2> QED
    BY <2>1, <2>2
<1>6. /\ PeerOutcome(config, now, src, dst, n).src = f
      /\ PeerOutcome(config, now, src, dst, n).dst = d
  BY <1>3
<1> HIDE DEF f, d
<1>7. WellFormed(src, dst, PeerOutcome(config, now, src, dst, n))
  BY <1>4, <1>5, <1>6 DEF WellFormed
<1> QED
  BY <1>4, <1>5, <1>6, <1>7

=============================================================================
