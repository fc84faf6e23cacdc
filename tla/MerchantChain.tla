--------------------------- MODULE MerchantChain ---------------------------
(***************************************************************************)
(* The program's handlers for a merchant's life and for session keys, as   *)
(* the relayer simulates and lands them: from the accounts and the time,   *)
(* whether the handler succeeds and the accounts it leaves.                *)
(*                                                                         *)
(* An instruction names the accounts it works on.  Of the handlers of the  *)
(* bond none compares them: withdraw_bond not its signer with the bond's   *)
(* merchant, finalize_close_merchant and redeem_bond_share not the config  *)
(* with the bond, nor the holder's books with either.  Only for            *)
(* issue_first_tokens_and_lock does the program ask who signs; that the    *)
(* signatures it needs are there is assumed.                               *)
(***************************************************************************)
EXTENDS Naturals

CONSTANTS
    Mint,             \* the mints; each has at most one MerchantConfig
    Bond,             \* the MerchantBond accounts
    CLOSE_WINDOW,     \* CLOSE_WINDOW_SECS
    PCT,              \* the unit of a share of the supply, 1000000
    U64Max            \* the largest u64

ASSUME ChainAssumption ==
    CLOSE_WINDOW \in Nat /\ PCT \in Nat \ {0} /\ U64Max \in Nat

\* The fields the handlers read; exists is whether the config's PDA is taken.
\* tokens_issued goes along with current_supply.
MerchantConfig ==
    [exists : BOOLEAN, is_active : BOOLEAN, current_supply : Nat, close_window_ends_at : Nat]
MerchantBond == [bonded_lamports : Nat, min_required_lamports : Nat, is_locked : BOOLEAN]

Accounts ==
    [config : [Mint -> MerchantConfig], bond : [Bond -> MerchantBond],
     sessions : SUBSET [delegate : Nat, expires_at : Nat]]

Ok(c) == [ok |-> TRUE, accounts |-> c]
Err(c) == [ok |-> FALSE, accounts |-> c]
Outcome(condition, c, then) == IF condition THEN Ok(then) ELSE Err(c)

create_mint_and_config(c, m) ==
    Outcome(~c.config[m].exists, c,
        [c EXCEPT !.config[m] = [exists |-> TRUE, is_active |-> TRUE, current_supply |-> 0,
                                 close_window_ends_at |-> 0]])

\* The sum panics when it does not fit.
issue_first_tokens_and_lock(c, m, amount) ==
    Outcome(c.config[m].exists /\ c.config[m].current_supply + amount <= U64Max, c,
        [c EXCEPT !.config[m].current_supply = @ + amount])

saturating_sub(a, b) == IF a < b THEN 0 ELSE a - b

\* After the saturated comparison the plain subtraction may still underflow.
withdraw_bond(c, b, amount) ==
    Outcome(/\ ~c.bond[b].is_locked
            /\ saturating_sub(c.bond[b].bonded_lamports, amount) >= c.bond[b].min_required_lamports
            /\ amount <= c.bond[b].bonded_lamports,
        c, [c EXCEPT !.bond[b].bonded_lamports = @ - amount])

initiate_close_merchant(c, m, time) ==
    Outcome(c.config[m].exists /\ c.config[m].is_active, c,
        [c EXCEPT !.config[m].is_active = FALSE,
                  !.config[m].close_window_ends_at = time + CLOSE_WINDOW])

\* Moves nothing: the transfers of the bond are commented out.
finalize_close_merchant(c, m, time) ==
    Outcome(c.config[m].exists /\ time > c.config[m].close_window_ends_at, c, c)

\* Of a bond of so many lamports; both quotients are cast to a u64.
BondShare(lamports, holder_tokens, current_supply) ==
    LET supply == IF current_supply = 0 THEN 1 ELSE current_supply
        pct_of_supply == ((holder_tokens * PCT) \div supply) % (U64Max + 1)
    IN ((lamports * pct_of_supply) \div PCT) % (U64Max + 1)

\* Mutant: a share of the bond of an active merchant.
redeem_bond_share_open(c, m, b, holder_tokens) ==
    LET bond_share == BondShare(c.bond[b].bonded_lamports, holder_tokens,
                                c.config[m].current_supply)
    IN Outcome(/\ c.config[m].exists /\ holder_tokens <= U64Max
               /\ bond_share <= c.bond[b].bonded_lamports,
           c, [c EXCEPT !.bond[b].bonded_lamports = @ - bond_share])

\* holder_tokens is the sum of the three balances of a TokenGeneration the handler
\* leaves as it is, and panics when it does not fit.
redeem_bond_share(c, m, b, holder_tokens) ==
    LET bond_share == BondShare(c.bond[b].bonded_lamports, holder_tokens,
                                c.config[m].current_supply)
    IN Outcome(/\ c.config[m].exists /\ ~c.config[m].is_active
               /\ holder_tokens <= U64Max
               /\ bond_share <= c.bond[b].bonded_lamports,
           c, [c EXCEPT !.bond[b].bonded_lamports = @ - bond_share])

\* Sent by the owner of the generation, for the key of the tab.
create_session_key(c, delegate, expires_at, time) ==
    Outcome(/\ \A s \in c.sessions : s.delegate # delegate
            /\ expires_at > time,
        c, [c EXCEPT !.sessions = @ \cup {[delegate |-> delegate, expires_at |-> expires_at]}])

revoke_session_key(c, delegate) ==
    Outcome(\E s \in c.sessions : s.delegate = delegate, c,
        [c EXCEPT !.sessions = {s \in @ : s.delegate # delegate}])

\* What a transaction does to the accounts when it runs at a time.
Run(tx, c, time) ==
    CASE tx.op = "create" -> create_mint_and_config(c, tx.mint)
      [] tx.op = "issue" -> issue_first_tokens_and_lock(c, tx.mint, tx.amount)
      [] tx.op = "withdraw" -> withdraw_bond(c, tx.bond, tx.amount)
      [] tx.op = "initiate" -> initiate_close_merchant(c, tx.mint, time)
      [] tx.op = "finalize" -> finalize_close_merchant(c, tx.mint, time)
      [] tx.op = "redeem" -> redeem_bond_share(c, tx.mint, tx.bond, tx.amount)
      [] tx.op = "register" -> create_session_key(c, tx.key, tx.expires_at, time)
      [] tx.op = "revoke" -> revoke_session_key(c, tx.key)

=============================================================================
