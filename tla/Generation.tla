----------------------------- MODULE Generation -----------------------------
(***************************************************************************)
(* The TokenGeneration account of one wallet for one mint                  *)
(* (state/token_generation.rs) and the pure operations the program's       *)
(* instructions perform on it: the inbound ring buffer, FIFO spending,     *)
(* finalisation, burning, and the lock a redemption leaves behind.         *)
(*                                                                         *)
(* Every operation maps a record to a record.  Whether the transaction     *)
(* commits is decided by its caller: the crate is built with               *)
(* overflow-checks = true, so a u64 that would leave 0..MaxU64 panics and  *)
(* the runtime reverts the transaction.  Fits is that test.                *)
(*                                                                         *)
(* Left out: fields nothing reads (bump, version, mint, total_lifetime,    *)
(* last_received_at, processing_nonce, redemption_slot, poi_*, identity_*, *)
(* and an entry's slot).                                                   *)
(***************************************************************************)
EXTENDS Integers, FiniteSets

CONSTANTS
    Owner,            \* wallets, programs and vaults: keys that own token accounts
    NoOwner,          \* Pubkey::default()
    BufferSize,       \* INBOUND_BUFFER_SIZE, 16 in the program
    ReferrerSlots,    \* length of referrer_slots, 4 in the program
    MaxU64            \* u64::MAX

ASSUME NoOwnerAssumption == NoOwner \notin Owner
ASSUME BufferAssumption == BufferSize \in Nat \ {0}
ASSUME SlotsAssumption == ReferrerSlots \in Nat \ {0}
ASSUME WidthAssumption == MaxU64 \in Nat \ {0}

U64 == 0..MaxU64
Index == 0..(BufferSize - 1)
SlotIndex == 0..(ReferrerSlots - 1)

GenSource == {"DeadPass", "ViralShare", "Issuance"}

InboundEntry ==
    [referrer : Owner \cup {NoOwner},
     amount : U64,
     generation_source : GenSource,
     processed : BOOLEAN]

ReferrerSlot == [tokens_attributed : U64, is_active : BOOLEAN]

TokenGeneration ==
    [owner : Owner,
     gen1_balance : U64,
     gen2_balance : U64,
     dead_balance : U64,
     is_intermediary : BOOLEAN,
     original_sender : Owner \cup {NoOwner},
     inbound_buffer : [Index -> InboundEntry],
     buffer_head : Index,
     buffer_pending : 0..BufferSize,
     referrer_slots : [SlotIndex -> ReferrerSlot],
     active_referrer_slots : 0..ReferrerSlots,
     first_received_at : Nat,
     share_limit_day : Nat,
     shares_today : Nat,
     redemption_pending : BOOLEAN,
     redemption_gen2_consumed : U64,
     redemption_slot_consumed : [SlotIndex -> U64],
     redemption_slots_settled : SUBSET SlotIndex,   \* the bits of the u8 mask
     is_treasury : BOOLEAN,
     is_dex_pool : BOOLEAN]

-----------------------------------------------------------------------------

Lesser(a, b) == IF a <= b THEN a ELSE b

EmptyEntry ==
    [referrer |-> NoOwner, amount |-> 0, generation_source |-> "DeadPass", processed |-> FALSE]

FreeSlot == [tokens_attributed |-> 0, is_active |-> FALSE]

\* The account as init_token_generation leaves it.
FreshGeneration(o) ==
    [owner |-> o,
     gen1_balance |-> 0, gen2_balance |-> 0, dead_balance |-> 0,
     is_intermediary |-> FALSE, original_sender |-> NoOwner,
     inbound_buffer |-> [i \in Index |-> EmptyEntry],
     buffer_head |-> 0, buffer_pending |-> 0,
     referrer_slots |-> [i \in SlotIndex |-> FreeSlot], active_referrer_slots |-> 0,
     first_received_at |-> 0, share_limit_day |-> 0, shares_today |-> 0,
     redemption_pending |-> FALSE, redemption_gen2_consumed |-> 0,
     redemption_slot_consumed |-> [i \in SlotIndex |-> 0], redemption_slots_settled |-> {},
     is_treasury |-> FALSE, is_dex_pool |-> FALSE]

\* The treasury's account: gen1 is the symbolic infinite balance.
TreasuryGeneration(o) ==
    [FreshGeneration(o) EXCEPT !.is_treasury = TRUE, !.gen1_balance = MaxU64]

\* What the program has on its books for the wallet.
Tracked(g) == g.gen1_balance + g.gen2_balance + g.dead_balance

\* No checked_add, += or -= of the operation panicked.
Fits(g) ==
    /\ g.gen1_balance \in U64
    /\ g.gen2_balance \in U64
    /\ g.dead_balance \in U64

-----------------------------------------------------------------------------
(* The inbound ring buffer *)

\* Mutant: the overflow check lets one entry too many through.
BufferFullLate(g) == g.buffer_pending > BufferSize

BufferFull(g) == g.buffer_pending >= BufferSize

\* Mutant: the head runs off the end of the ring.
WriteInboundNoWrap(g, entry) ==
    [g EXCEPT !.inbound_buffer[g.buffer_head] = entry,
              !.buffer_head = @ + 1,
              !.buffer_pending = @ + 1]

\* write_inbound past its overflow check.
WriteInbound(g, entry) ==
    [g EXCEPT !.inbound_buffer[g.buffer_head] = entry,
              !.buffer_head = (@ + 1) % BufferSize,
              !.buffer_pending = @ + 1]

\* Mutant: an amount that finds the buffer full is booked nowhere.
ReceiveUnbooked(g, entry) ==
    IF BufferFull(g)
    THEN g
    ELSE LET w == WriteInbound(g, entry)
         IN CASE entry.generation_source = "Issuance" -> [w EXCEPT !.gen1_balance = @ + entry.amount]
              [] entry.generation_source = "ViralShare" -> [w EXCEPT !.gen2_balance = @ + entry.amount]
              [] OTHER -> [w EXCEPT !.dead_balance = @ + entry.amount]

\* Every receiving path: the balance the entry names when the entry could be
\* written, the dead balance when the buffer was full.
Receive(g, entry) ==
    IF BufferFull(g)
    THEN [g EXCEPT !.dead_balance = @ + entry.amount]
    ELSE LET w == WriteInbound(g, entry)
         IN CASE entry.generation_source = "Issuance" -> [w EXCEPT !.gen1_balance = @ + entry.amount]
              [] entry.generation_source = "ViralShare" -> [w EXCEPT !.gen2_balance = @ + entry.amount]
              [] OTHER -> [w EXCEPT !.dead_balance = @ + entry.amount]

NewEntry(referrer, amount, source) ==
    [referrer |-> referrer, amount |-> amount, generation_source |-> source, processed |-> FALSE]

StampFirst(g, now) ==
    [g EXCEPT !.first_received_at = IF @ = 0 THEN now ELSE @]

\* An entry finalize_inbound still has work to do on.
Live(entry) == ~entry.processed /\ entry.amount > 0

\* processed is set and amount cleared.  The code leaves the other fields as
\* they are and nothing reads them again; here they return to their defaults.
ProcessedEntry == [EmptyEntry EXCEPT !.processed = TRUE]

FinalizedEntry(entry) == IF Live(entry) THEN ProcessedEntry ELSE entry

FinalizedBuffer(buffer) == [i \in Index |-> FinalizedEntry(buffer[i])]

\* Mutant: only the first buffer_pending positions of the ring are visited.
FinalizedFront(g) ==
    [g EXCEPT !.inbound_buffer = [i \in Index |->
                    IF i < g.buffer_pending THEN FinalizedEntry(@[i]) ELSE @[i]],
              !.buffer_pending = 0]

\* finalize_inbound: buffer_head stays where it is.
Finalized(g) ==
    IF g.buffer_pending = 0
    THEN g
    ELSE [g EXCEPT !.inbound_buffer = FinalizedBuffer(@), !.buffer_pending = 0]

-----------------------------------------------------------------------------
(* Spending *)

\* Mutant: Gen-2 is spent first.
FromGen1Last(g, n) == Lesser(n - Lesser(n, g.gen2_balance), g.gen1_balance)

FromGen1(g, n) == Lesser(n, g.gen1_balance)
FromGen2(g, n) == Lesser(n - FromGen1(g, n), g.gen2_balance)
FromDead(g, n) == n - FromGen1(g, n) - FromGen2(g, n)

\* Mutant: dead tokens are spent without being taken off the books.
FifoDeductKeepingDead(g, n) ==
    [g EXCEPT !.gen1_balance = @ - FromGen1(g, n), !.gen2_balance = @ - FromGen2(g, n)]

\* Gen-1 first, then Gen-2; whatever is left comes out of dead, which panics
\* when dead does not hold it.
FifoDeduct(g, n) ==
    [g EXCEPT !.gen1_balance = @ - FromGen1(g, n),
              !.gen2_balance = @ - FromGen2(g, n),
              !.dead_balance = @ - FromDead(g, n)]

BurnDead(g, n) == Lesser(n, g.dead_balance)
BurnGen2(g, n) == Lesser(n - BurnDead(g, n), g.gen2_balance)
BurnGen1(g, n) == Lesser(n - BurnDead(g, n) - BurnGen2(g, n), g.gen1_balance)

Burnable(g, n) == BurnDead(g, n) + BurnGen2(g, n) + BurnGen1(g, n) = n

\* burn_tokens: the reverse order, dead first.
Burned(g, n) ==
    [g EXCEPT !.gen1_balance = @ - BurnGen1(g, n),
              !.gen2_balance = @ - BurnGen2(g, n),
              !.dead_balance = @ - BurnDead(g, n)]

-----------------------------------------------------------------------------
(* The redemption lock *)

ActiveSlots(g) == 0..(g.active_referrer_slots - 1)

\* Mutant: the share is taken of the balance the redemption leaves.
SlotShareOfRest(g, consumed, i) ==
    (consumed * g.referrer_slots[i].tokens_attributed)
        \div (IF consumed < g.gen2_balance THEN g.gen2_balance - consumed ELSE 1)

\* Gen-2 tokens of the redemption charged to slot i.
SlotShare(g, consumed, i) ==
    (consumed * g.referrer_slots[i].tokens_attributed) \div g.gen2_balance

\* The slots the redemption writes a share for.
Charged(g) == {i \in ActiveSlots(g) : g.referrer_slots[i].is_active /\ g.gen2_balance > 0}

\* The product is a checked u64 multiplication.
SharesFit(g, consumed) ==
    \A i \in Charged(g) : consumed * g.referrer_slots[i].tokens_attributed <= MaxU64

\* fifo_deduct_redemption and the lock.  SlotShare divides by the Gen-2 balance
\* before the deduction, which is what the code recomputes by adding back.
LockedForRedemption(g, n) ==
    LET consumed == FromGen2(g, n)
    IN [FifoDeduct(g, n) EXCEPT
            !.redemption_pending = TRUE,
            !.redemption_gen2_consumed = consumed,
            !.redemption_slots_settled = {},
            !.redemption_slot_consumed =
                [i \in SlotIndex |-> IF i \in Charged(g) THEN SlotShare(g, consumed, i) ELSE @[i]]]

\* Mutant: the mask expected is one slot short.
RedemptionSettledShort(g) == g.redemption_slots_settled = 0..(g.active_referrer_slots - 2)

RedemptionSettled(g) == g.redemption_slots_settled = ActiveSlots(g)

\* clear_redemption_pending; redemption_gen2_consumed keeps its value.
Unlocked(g) ==
    [g EXCEPT !.redemption_pending = FALSE,
              !.redemption_slot_consumed = [i \in SlotIndex |-> 0],
              !.redemption_slots_settled = {}]
=============================================================================
