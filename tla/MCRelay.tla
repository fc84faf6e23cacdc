------------------------------ MODULE MCRelay ------------------------------
(***************************************************************************)
(* Instances of Relay for TLC.  Each behaviour follows one scenario: a     *)
(* flood of unusable requests, a merchant opening, a merchant closing, a   *)
(* tab registering its session key, or a health check.                     *)
(***************************************************************************)
EXTENDS Relay

CONSTANTS Phone, Laptop, Cafe, Bakery, Till

MCIp == {Phone, Laptop}
MCRequest == 1..3
MCMint == {Cafe, Bakery}
MCBond == {Till}

\* Two merchants trading, and the bond of one of them.
Trading == [exists |-> TRUE, is_active |-> TRUE, current_supply |-> 10, close_window_ends_at |-> 0]
Unopened == [Trading EXCEPT !.exists = FALSE, !.is_active = FALSE, !.current_supply = 0]
Town == [config |-> [m \in MCMint |-> Trading],
         bond |-> [b \in MCBond |-> [bonded_lamports |-> 100, min_required_lamports |-> 50,
                                     is_locked |-> FALSE]],
         sessions |-> {}]
NewTown == [Town EXCEPT !.config[Cafe] = Unopened]

Create == [op |-> "create", mint |-> Cafe]
Issue(n) == [op |-> "issue", mint |-> Cafe, amount |-> n]
Close(m) == [op |-> "initiate", mint |-> m]
Finish(m) == [op |-> "finalize", mint |-> m]
Redeem(m, n) == [op |-> "redeem", mint |-> m, bond |-> Till, amount |-> n]
Withdraw(n) == [op |-> "withdraw", bond |-> Till, amount |-> n]

Plain == [payloads |-> {}, accounts |-> Town, requests |-> 0, from |-> {Phone}, until |-> 0,
          keys |-> FALSE, restarts |-> FALSE, health |-> FALSE]
Flood == [Plain EXCEPT !.payloads = {Junk}, !.requests = 3, !.from = {Phone, Laptop},
                       !.until = 3, !.restarts = TRUE]
\* The second issue does not fit; the server may restart at any await.
Opening == [Plain EXCEPT !.payloads = {Create, Issue(10), Issue(U64Max - 9)},
                         !.accounts = NewTown, !.requests = 2, !.restarts = TRUE]
Sharing == [Plain EXCEPT !.payloads = {Close(Cafe), Redeem(Cafe, 6)}, !.requests = 3]
\* The share is of more tokens than the mint has, and does not fit a u64.
Closing == [Plain EXCEPT !.payloads = {Close(Bakery), Redeem(Bakery, 20), Withdraw(30)},
                         !.requests = 2]
Closed == [Plain EXCEPT !.payloads = {Close(Bakery), Finish(Bakery)},
                        !.requests = 2, !.until = 2]
Delegating == [Plain EXCEPT !.payloads = {[op |-> "register", key |-> 1, expires_at |-> 1],
                                          [op |-> "revoke", key |-> 1]},
                            !.requests = 2, !.until = 1]
Registering == [Plain EXCEPT !.keys = TRUE, !.requests = 1, !.until = 2]
Checking == [Plain EXCEPT !.payloads = {NoTx}, !.requests = 1, !.until = 3, !.health = TRUE]

MCScenario == {Flood, Opening, Sharing, Closing, Closed, Delegating, Registering, Checking}

=============================================================================
