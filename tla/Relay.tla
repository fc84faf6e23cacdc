------------------------------- MODULE Relay -------------------------------
(***************************************************************************)
(* Transactions on their way through the gas relayer: the app's client     *)
(* (lib/relayer.ts), the server (relayer/src/index.ts) with its rate limit *)
(* (RateLimiter), the RPC node and the chain it sends to (MerchantChain),  *)
(* and the session key of the tab that registers itself (SessionKeys).     *)
(* Any message may be lost, the node may fail, the server may restart, a   *)
(* broadcast transaction lands late or never.                              *)
(***************************************************************************)
EXTENDS RateLimiter, SessionKeys, MerchantChain

CONSTANTS
    Scenario,        \* what is asked for, from which accounts, how often
    NoTx,            \* a request without transaction data
    Junk,            \* data that is no transaction
    HealthTimeout    \* AbortSignal.timeout of the health check

\* The instructions a transaction may carry, each with the arguments that count.
Instruction ==
    [op : {"create", "initiate", "finalize"}, mint : Mint]
        \cup [op : {"issue"}, mint : Mint, amount : Nat]
        \cup [op : {"withdraw"}, bond : Bond, amount : Nat]
        \cup [op : {"redeem"}, mint : Mint, bond : Bond, amount : Nat]
        \cup [op : {"register"}, key : Key, expires_at : Nat]
        \cup [op : {"revoke"}, key : Key]

\* A merchant has begun to close; none ever opens again.
SomeClosing(c) == \E m \in Mint : c.config[m].exists /\ ~c.config[m].is_active

\* The bonds cover their minimum, unless a merchant has begun to close.  No
\* instruction of the program sets a bond up: what does is outside of it.
Bonded(c) ==
    \/ SomeClosing(c)
    \/ \A b \in Bond : c.bond[b].bonded_lamports >= c.bond[b].min_required_lamports

ASSUME ScenarioAssumption ==
    /\ NoTx \notin Instruction /\ Junk \notin Instruction
    /\ \A s \in Scenario :
        /\ s.payloads \subseteq Instruction \cup {NoTx, Junk}
        /\ s.accounts \in Accounts /\ Bonded(s.accounts)
        /\ s.accounts.sessions \subseteq [delegate : Key, expires_at : Nat]
        /\ s.from \subseteq Ip /\ s.until <= MaxTime

VARIABLES
    scenario,        \* chosen at the start, never changed
    asked,           \* each request: from which client and with which payload
    client,          \* relayTransaction: idle, waiting, success or failed
    server,          \* the handler of a request and the next await it is at
    tx,              \* the transaction on the network
    overtaken,       \* history: since its simulation, time or the accounts moved on
    accounts,        \* the accounts of the program
    health           \* checkRelayerHealth: what it waits for, since when

pipeVars == <<scenario, asked, client, server, tx, overtaken, accounts, health>>
relayVars == <<limiterVars, keyVars, pipeVars>>

NotYet == [ip |-> "none", payload |-> NoTx]
Silent == [state |-> "idle", since |-> 0]
Answers == {"200", "400", "429", "500"}    \* the handler is done with, and writes it
OnItsWay == {"okSent", "errorSent"}        \* written, not at the client yet

Init ==
    /\ now = 0 /\ LimiterInit /\ KeysInit
    /\ scenario \in Scenario
    /\ ~scenario.keys => stored = NoKey
    /\ asked = [r \in Request |-> NotYet]
    /\ client = [r \in Request |-> "idle"]
    /\ server = [r \in Request |-> "none"]
    /\ tx = [r \in Request |-> "none"]
    /\ overtaken = [r \in Request |-> FALSE]
    /\ accounts = scenario.accounts
    /\ health = Silent

-----------------------------------------------------------------------------
(* The client *)

\* The payloads of the scenario, and the registration of the key in memory.
Payloads ==
    scenario.payloads \cup
    (IF scenario.keys /\ currentInfo # NoKey
     THEN {[op |-> "register", key |-> currentInfo.key, expires_at |-> currentInfo.expiresAt]}
     ELSE {})

relayTransaction(r, ip, payload) ==
    /\ client[r] = "idle" /\ \A s \in Request : s < r => client[s] # "idle"
    /\ asked' = [asked EXCEPT ![r] = [ip |-> ip, payload |-> payload]]
    /\ client' = [client EXCEPT ![r] = "waiting"]
    /\ server' = [server EXCEPT ![r] = "arriving"]
    /\ UNCHANGED <<limiterVars, keyVars, scenario, tx, overtaken, accounts, health>>

\* fetch rejects: no route to the server, or the connection breaks.
Disconnect(r) ==
    /\ client[r] = "waiting"
    /\ client' = [client EXCEPT ![r] = "failed"]
    /\ server' = IF server[r] = "arriving" THEN [server EXCEPT ![r] = "gone"] ELSE server
    /\ UNCHANGED <<limiterVars, keyVars, scenario, asked, tx, overtaken, accounts, health>>

-----------------------------------------------------------------------------
(* The server; each await of the handler ends in an action of its own *)

Status(r, status) == server' = [server EXCEPT ![r] = status]

\* Mutant: what is well formed is sent without a simulation.
ReceiveTrusting(r) ==
    /\ server[r] = "arriving"
    /\ \/ Admit(asked[r].ip, r) /\ Status(r, IF asked[r].payload \in {NoTx, Junk} THEN "400"
                                            ELSE "sending")
       \/ Refuse(asked[r].ip, r) /\ Status(r, "429")
    /\ UNCHANGED <<keyVars, scenario, asked, client, tx, overtaken, accounts, health>>

\* External: the request arrives.  The handler runs up to its first await: rate
\* limit, presence and form of the data, signature.  The limit on the size of the
\* data (index.ts:82-84) is above what the body parser lets through.
Receive(r) ==
    /\ server[r] = "arriving"
    /\ \/ Admit(asked[r].ip, r) /\ Status(r, CASE asked[r].payload = NoTx -> "400"
                                               [] asked[r].payload = Junk -> "500"
                                               [] OTHER -> "simulating")
       \/ Refuse(asked[r].ip, r) /\ Status(r, "429")
    /\ UNCHANGED <<keyVars, scenario, asked, client, tx, overtaken, accounts, health>>

\* External: the node simulates on the accounts as they are, or fails to answer.
Simulate(r) ==
    /\ server[r] = "simulating"
    /\ \/ Status(r, IF Run(asked[r].payload, accounts, now).ok THEN "sending" ELSE "400")
       \/ Status(r, "500")
    /\ overtaken' = [overtaken EXCEPT ![r] = FALSE]
    /\ UNCHANGED <<limiterVars, keyVars, scenario, asked, client, tx, accounts, health>>

\* External: the node takes the transaction, or its answer or the call is lost.
Send(r) ==
    /\ server[r] = "sending"
    /\ \/ Status(r, "200") /\ tx' = [tx EXCEPT ![r] = "pending"]
       \/ Status(r, "500") /\ (tx' = [tx EXCEPT ![r] = "pending"] \/ UNCHANGED tx)
    /\ UNCHANGED <<limiterVars, keyVars, scenario, asked, client, overtaken, accounts, health>>

\* Mutant: the handler has no catch, an exception is never answered.
AnswerUncaught(r) ==
    /\ server[r] \in Answers \ {"500"}
    /\ Status(r, IF server[r] = "200" THEN "okSent" ELSE "errorSent")
    /\ UNCHANGED <<limiterVars, keyVars, scenario, asked, client, tx, overtaken, accounts, health>>

Answer(r) ==
    /\ server[r] \in Answers
    /\ Status(r, IF server[r] = "200" THEN "okSent" ELSE "errorSent")
    /\ UNCHANGED <<limiterVars, keyVars, scenario, asked, client, tx, overtaken, accounts, health>>

\* Mutant: relayTransaction does not look at response.ok.
DeliverAlwaysOk(r) ==
    /\ server[r] \in OnItsWay
    /\ Status(r, "gone")
    /\ client' = IF client[r] = "waiting" THEN [client EXCEPT ![r] = "success"] ELSE client
    /\ UNCHANGED <<limiterVars, keyVars, scenario, asked, tx, overtaken, accounts, health>>

\* External: the response reaches the client, which looks at response.ok.
Deliver(r) ==
    /\ server[r] \in OnItsWay
    /\ Status(r, "gone")
    /\ client' = IF client[r] = "waiting"
                 THEN [client EXCEPT ![r] = IF server[r] = "okSent" THEN "success" ELSE "failed"]
                 ELSE client
    /\ UNCHANGED <<limiterVars, keyVars, scenario, asked, tx, overtaken, accounts, health>>

AtServer(r) == server[r] \in {"simulating", "sending"} \cup Answers

\* The requests the server was at end with their connections; a call it was
\* sending may be with the node already.
RestartServer ==
    /\ scenario.restarts
    /\ Restart
    /\ server' = [r \in Request |-> IF AtServer(r) THEN "gone" ELSE server[r]]
    /\ client' = [r \in Request |-> IF AtServer(r) /\ client[r] = "waiting"
                                    THEN "failed" ELSE client[r]]
    /\ \E sent \in SUBSET {r \in Request : server[r] = "sending"} :
        tx' = [r \in Request |-> IF r \in sent THEN "pending" ELSE tx[r]]
    /\ UNCHANGED <<keyVars, scenario, asked, overtaken, accounts, health>>

CleanUpMap == CleanUp /\ UNCHANGED <<keyVars, pipeVars>>

-----------------------------------------------------------------------------
(* The chain *)

\* The accounts the others were simulated on are gone, if r changed any.
Overtake(r) == overtaken' = [s \in Request |-> overtaken[s] \/ (s # r /\ accounts' # accounts)]

\* External: the transaction is executed, after its simulation and maybe others.
Land(r) ==
    /\ tx[r] = "pending"
    /\ LET outcome == Run(asked[r].payload, accounts, now) IN
        /\ tx' = [tx EXCEPT ![r] = IF outcome.ok THEN "landed" ELSE "reverted"]
        /\ accounts' = outcome.accounts
    /\ Overtake(r)
    /\ UNCHANGED <<limiterVars, keyVars, scenario, asked, client, server, health>>

\* External: its blockhash expires first.
Expire(r) ==
    /\ tx[r] = "pending"
    /\ tx' = [tx EXCEPT ![r] = "dropped"]
    /\ UNCHANGED <<limiterVars, keyVars, scenario, asked, client, server, overtaken, accounts, health>>

Tick ==
    /\ now < scenario.until
    /\ Elapse
    /\ overtaken' = [r \in Request |-> TRUE]
    /\ UNCHANGED <<keyVars, scenario, asked, client, server, tx, accounts, health>>

-----------------------------------------------------------------------------
(* The health check: GET /health with a timeout of its own *)

HealthStep(before, after) ==
    /\ health.state = before
    /\ health' = [state |-> after, since |-> IF before = "idle" THEN now ELSE health.since]
    /\ UNCHANGED <<limiterVars, keyVars, scenario, asked, client, server, tx, overtaken, accounts>>

checkRelayerHealth == scenario.health /\ now + HealthTimeout <= scenario.until /\ HealthStep("idle", "asked")
\* The node may never tell the balance; it may also refuse to.
GetBalance == HealthStep("asked", "answering") \/ HealthStep("asked", "erring")
HealthAnswer == HealthStep("answering", "online") \/ HealthStep("erring", "offline")
HealthLost == HealthStep("asked", "offline") \/ HealthStep("answering", "offline")
\* Mutant: the timeout starts with the headers of the answer.
HealthExpiredLate ==
    /\ now - health.since >= HealthTimeout
    /\ \E s \in {"answering", "erring"} : HealthStep(s, "offline")

HealthExpired ==
    /\ now - health.since >= HealthTimeout
    /\ \E s \in {"asked", "answering", "erring"} : HealthStep(s, "offline")

-----------------------------------------------------------------------------
(* The key of the tab *)

Registered(r) == client[r] = "success" /\ asked[r].payload.op = "register"

KeyStep ==
    /\ scenario.keys
    /\ \/ GetKey \/ destroySessionKey \/ RefreshPage
       \/ (\E r \in Request : Registered(r)) /\ markSessionKeyRegistered
    /\ UNCHANGED <<limiterVars, pipeVars>>

-----------------------------------------------------------------------------

Pipeline(r) ==
    \/ \E ip \in scenario.from, p \in Payloads : relayTransaction(r, ip, p)
    \/ Disconnect(r)
    \/ Receive(r) \/ Simulate(r) \/ Send(r) \/ Answer(r) \/ Deliver(r)
    \/ Land(r) \/ Expire(r)

Health == checkRelayerHealth \/ GetBalance \/ HealthAnswer \/ HealthLost \/ HealthExpired

Next ==
    \/ \E r \in Request : r <= scenario.requests /\ Pipeline(r)
    \/ RestartServer \/ CleanUpMap \/ Tick
    \/ Health
    \/ KeyStep

\* The server writes the answers it has, time passes and the browser fires the
\* timeout.  Nothing says that a message arrives or is reported lost, that the
\* node ever answers or that a transaction lands.
Fairness ==
    /\ \A r \in Request : WF_relayVars(Answer(r))
    /\ WF_relayVars(Tick)
    /\ WF_relayVars(HealthExpired)

Spec == Init /\ [][Next]_relayVars /\ Fairness

-----------------------------------------------------------------------------
(* Properties *)

\* The type invariant: what each part of the pipeline may hold.
RelayTypeOK ==
    /\ now \in 0..MaxTime
    /\ rateLimitMap \in [Ip -> SUBSET Entry] /\ admitted \subseteq Entry /\ refused \subseteq Entry
    /\ currentInfo \in SessionKeyInfo \cup {NoKey}
    /\ stored \in SessionKeyInfo \cup {NoKey, Unreadable}
    /\ generated \in 0..MaxKeys
    /\ client \in [Request -> {"idle", "waiting", "success", "failed"}]
    /\ server \in [Request -> {"none", "arriving", "simulating", "sending", "gone"}
                               \cup Answers \cup OnItsWay]
    /\ tx \in [Request -> {"none", "pending", "landed", "reverted", "dropped"}]
    /\ overtaken \in [Request -> BOOLEAN]
    /\ health.state \in {"idle", "asked", "answering", "erring", "online", "offline"}
    /\ accounts.sessions \subseteq [delegate : Key, expires_at : Nat]

\* The app tells its user of success only for a transaction that was broadcast,
\* and it was one: never for a request without data, refused or out of quota.
SuccessWasBroadcast ==
    \A r \in Request : client[r] = "success" => tx[r] # "none" /\ asked[r].payload \notin {NoTx, Junk}

\* The relayer pays for a transaction that reverts only when the accounts or the
\* time changed after it had simulated it: index.ts says that "simulating the
\* transaction prior to broadcast prevents draining relayer funds on failed TXs",
\* and this is how far it does.
RevertedOnlyIfOvertaken == \A r \in Request : tx[r] = "reverted" => overtaken[r]

\* Whatever runs in whatever order and on whichever accounts, no bond falls below
\* its minimum before some merchant has begun to close: withdrawals stop at the
\* minimum and shares wait for a closed config.  It need not be the config of the
\* bond's own merchant, since redeem_bond_share compares neither.
BondsHoldUntilAClose == Bonded(accounts)

\* What a request waits for outside of the program: the network, without a
\* timeout in relayer.ts:35, and the node, without one in index.ts:99 and 108.
Outside == {"arriving", "simulating", "sending"} \cup OnItsWay

\* No silence of the network or the node lasts for ever.
SilenceEnds(r) == \A s \in Outside : []<>(server[r] # s)

\* Whatever is lost, and at whichever await the server restarts, a request waits
\* for ever only on a network or a node that stays silent for ever: the handler
\* answers every one it has, and a restart leaves no client behind.
EveryRequestResolves ==
    \A r \in Request : SilenceEnds(r) => (client[r] = "waiting" ~> client[r] \in {"success", "failed"})

\* The health check comes to a verdict even when the node never answers.
HealthDecides == health.state = "asked" ~> health.state \in {"online", "offline"}

=============================================================================
