--------------------------- MODULE RedemptionLock ---------------------------
(***************************************************************************)
(* What the redemption lock promises, without balances, ledgers or time:   *)
(* a redemption locks the wallet and makes some of its referrer slots due; *)
(* each due slot is settled once; the wallet unlocks when none is due and  *)
(* not before; and there is never a second redemption in between.          *)
(* process_redemption.rs and the redemption path of transfer_hook.rs are   *)
(* the program's implementation, modelled in Commission.                   *)
(***************************************************************************)
EXTENDS Integers

CONSTANTS
    Holder,      \* wallets that redeem
    Slot         \* referrer slots of a wallet

VARIABLES
    locked,      \* wallets with a redemption in progress
    due          \* [Holder -> SUBSET Slot]: slots that redemption still owes

lockVars == <<locked, due>>

LockInit ==
    /\ locked = {}
    /\ due = [h \in Holder |-> {}]

StartRedemption(h, slots) ==
    /\ h \notin locked
    /\ locked' = locked \cup {h}
    /\ due' = [due EXCEPT ![h] = slots]

SettleSlot(h, i) ==
    /\ h \in locked
    /\ i \in due[h]
    /\ due' = [due EXCEPT ![h] = @ \ {i}]
    /\ UNCHANGED locked

FinishRedemption(h) ==
    /\ h \in locked
    /\ due[h] = {}
    /\ locked' = locked \ {h}
    /\ UNCHANGED due

LockNext ==
    \E h \in Holder :
        \/ \E slots \in SUBSET Slot : StartRedemption(h, slots)
        \/ \E i \in Slot : SettleSlot(h, i)
        \/ FinishRedemption(h)

LockSpec == LockInit /\ [][LockNext]_lockVars
=============================================================================
