---------------------------- MODULE AccountFeed ----------------------------
(***************************************************************************)
(* One data hook of the app (hooks.ts) on the pages of SignIn that mount   *)
(* it: it asks for the data of an address at once and on every poll, and   *)
(* shows the answers that come, in whatever order they come.  Hooks built  *)
(* on useAccountData keep one "mounted" flag for all their effects, the    *)
(* list hooks a flag for each effect.                                      *)
(***************************************************************************)
EXTENDS SignIn, Sequences, SequencesExt

CONSTANTS
    Addr,            \* the addresses the app may ask about
    MaxVersion,      \* bound on the writes to an account: 0 when it does not exist
    MaxInFlight,     \* bound: no poll while so many requests are in flight
    Publishing,      \* the addresses whose data changes
    Loading,         \* nothing known yet: data null, loading
    Missing,         \* data null, not loading, no error
    Errored,         \* data null and an error
    Waiting          \* a request the node has not answered

VARIABLES
    hook,            \* the hook watched; chosen at the start
    shown,           \* its state: Loading, Missing, Errored or data of an address
    flight,          \* its requests whose answer can still be shown, oldest first
    chain            \* the version of the data each address has on chain

feedVars == <<hook, shown, flight, chain>>

Version == 0..MaxVersion
Data == [of : Addr, version : Version]
Request == [of : Addr, reply : Version \cup {Waiting}]

ASSUME FeedAssumption ==
    /\ NoAddr \notin Addr /\ Account \subseteq Addr /\ Envs \subseteq Addr \cup {NoAddr}
    /\ Publishing \subseteq Addr
    /\ MaxVersion \in Nat \ {0} /\ MaxInFlight \in Nat \ {0}
    /\ Loading \notin Data /\ Missing \notin Data /\ Errored \notin Data

-----------------------------------------------------------------------------
(* The hooks *)

\* The hooks built on useAccountData, of those some page mounts.
SharedFlag == {"config", "oracle", "reputation", "bond", "ledger"}
OwnFlag == {"txs", "disputes", "graph", "sol"}
Hooks == SharedFlag \cup OwnFlag

HookPages(h) ==
    CASE h = "config" -> {"/", "/oracle", "/network", "/settings"}
      [] h = "oracle" -> {"/", "/oracle"}
      [] h = "reputation" -> {"/", "/disputes"}
      [] h = "bond" -> {"/disputes"}
      [] h = "ledger" -> {"/consumer", "/consumer/earn", "/consumer/profile"}
      [] h = "txs" -> {"/", "/consumer"}
      [] h = "disputes" -> {"/disputes"}
      [] h = "graph" -> {"/network"}
      [] h = "sol" -> {"/consumer/profile"}

\* The address a page gives the hook.  The pages give the ledger no merchant, so
\* it has no PDA, and the graph the mint of a configuration the hook never finds.
HookArgument(h, wallet) == IF h \in {"ledger", "graph"} THEN NoAddr ELSE wallet

\* The seeds the app derives a hook's address from, and those of the program.
PdaSeeds(h) ==
    CASE h = "config" -> <<"merchant_config", "merchant">>
      [] h = "oracle" -> <<"viral_oracle", "merchant">>
      [] h = "reputation" -> <<"merchant_reputation", "merchant">>
      [] h = "bond" -> <<"merchant_bond", "merchant">>
      [] h = "ledger" -> <<"commission_ledger", "referrer", "merchant">>

\* Of these accounts the program creates the configuration only; the others are
\* taken to be where the app looks for them.
ProgramSeeds(h) == IF h = "config" THEN <<"merchant_v4", "mint">> ELSE PdaSeeds(h)

\* The address the hook asks about can hold its data.
Exists(h) == h \in OwnFlag \/ PdaSeeds(h) = ProgramSeeds(h)

Mounted(p) == p \in HookPages(hook)

\* The address the mounted page gives the hook.
Given == HookArgument(hook, useWallet)

-----------------------------------------------------------------------------
(* The effect that fetches *)

Asked(a) == IF a = NoAddr THEN <<>> ELSE <<[of |-> a, reply |-> Waiting]>>

\* The page mounts the hook: a fresh state, and the effect's first fetch.
MountFeed(a) ==
    /\ shown' = IF a = NoAddr THEN Missing ELSE Loading
    /\ flight' = Asked(a)

\* What an unmounted hook had asked for is ignored, and its state is gone.
UnmountFeed == shown' = Loading /\ flight' = <<>>

\* Mutant: no effect has a flag of its own.
RerunShared(a) ==
    /\ shown' = IF a = NoAddr THEN Missing ELSE shown
    /\ flight' = flight \o Asked(a)

\* The effect runs again for another address: state is kept until an answer
\* comes.  The shared flag is set again, so earlier requests count again.
Rerun(a) ==
    /\ shown' = IF a = NoAddr THEN Missing ELSE shown
    /\ flight' = (IF hook \in SharedFlag THEN flight ELSE <<>>) \o Asked(a)

\* Mutant: the hook lives above the pages and keeps its state between them.
FollowKeptAlive ==
    /\ UNCHANGED <<hook, chain>>
    /\ IF Mounted(page') /\ (page' # page \/ Given' # Given)
       THEN Rerun(Given') ELSE UNCHANGED <<shown, flight>>

\* The hook after a step of the tab that may change the page and the wallet.
Follow ==
    /\ UNCHANGED <<hook, chain>>
    /\ CASE ~Mounted(page') -> UnmountFeed
         [] Mounted(page') /\ page' # page -> MountFeed(Given')
         [] page' = page /\ Mounted(page) /\ Given' # Given -> Rerun(Given')
         [] page' = page /\ Mounted(page) /\ Given' = Given -> UNCHANGED <<shown, flight>>

\* A refresh mounts its page anew.
FollowReload ==
    /\ UNCHANGED <<hook, chain>>
    /\ IF Mounted(page') THEN MountFeed(Given') ELSE UnmountFeed

\* Mutant: no interval, one fetch for each address.
PollOnce ==
    /\ Mounted(page) /\ shown = Loading /\ flight = <<>>
    /\ Given # NoAddr
    /\ flight' = Asked(Given)
    /\ UNCHANGED <<hook, shown, chain>>

\* The interval fires.  Without an address useAccountData sets null, a list hook
\* has no interval.
Poll ==
    /\ Mounted(page) /\ Len(flight) < MaxInFlight
    /\ \/ Given # NoAddr /\ flight' = flight \o Asked(Given) /\ UNCHANGED shown
       \/ Given = NoAddr /\ hook \in SharedFlag /\ shown' = Missing /\ UNCHANGED flight
    /\ UNCHANGED <<hook, chain>>

\* External: the node answers with what the address holds now.
Serve(i) ==
    /\ flight[i].reply = Waiting
    /\ flight' = [flight EXCEPT ![i].reply = IF Exists(hook) THEN chain[flight[i].of] ELSE 0]
    /\ UNCHANGED <<hook, shown, chain>>

\* A list that is empty is data; an account that does not exist is not.
Showing(r) ==
    IF r.reply = 0 /\ hook \in SharedFlag THEN Missing ELSE [of |-> r.of, version |-> r.reply]

Deliver(i) ==
    /\ flight[i].reply # Waiting
    /\ shown' = Showing(flight[i])
    /\ flight' = RemoveAt(flight, i)
    /\ UNCHANGED <<hook, chain>>

\* The request fails; fetchAccount makes of that an account that does not exist.
Fail(i) ==
    /\ flight[i].reply = Waiting
    /\ shown' = IF hook \in SharedFlag THEN Missing ELSE Errored
    /\ flight' = RemoveAt(flight, i)
    /\ UNCHANGED <<hook, chain>>

\* External: the program writes the account.
Publish(a) ==
    /\ chain[a] < MaxVersion
    /\ chain' = [chain EXCEPT ![a] = @ + 1]
    /\ UNCHANGED <<hook, shown, flight>>

\* What the hook shows when it is up to date.
Current(a) ==
    IF a = NoAddr THEN Missing
    ELSE Showing([of |-> a, reply |-> IF Exists(hook) THEN chain[a] ELSE 0])

=============================================================================
